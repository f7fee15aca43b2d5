-------------------------- MODULE DocumentClientProofs --------------------------
(***************************************************************************)
(* Proofs about the documents page.  DocumentClient: what the user typed   *)
(* survives until it is saved or given up, and what is shown is what the   *)
(* server has.  DocumentTree: once nothing is under way the screen shows   *)
(* the server's documents, in order.  All of it holds for any directories, *)
(* documents and searches and any number of texts, faults and changes.     *)
(***************************************************************************)
EXTENDS DocumentClient, DocumentTree, WellFoundedInduction, SequenceTheorems, TLAPS

PutRecords == [stage : {"idle", "asked", "answered", "failed"}, text : Nat, tries : Nat]

\* The types the arguments need.
TextsTyped == /\ docText \in Nat /\ texts \in Nat /\ cached \in Nat /\ fetched \in Nat
              /\ content \in Nat /\ recovery \in Nat
PutTyped == put \in [Puts -> PutRecords]

\* A dirty text area is what is kept for recovery, and so is what the user has
\* typed and not saved: the invariant behind TypedIsKept. A save under way then
\* carries that text, so what Saved removes is what was stored.
RecoveryFollows == dirty => content = recovery
UnsavedKept == (unsaved # 0 /\ ~overlapped) => /\ recovery = unsaved
                                              /\ \A i \in Saving : put[i].text = unsaved
KeepInv == TextsTyped /\ PutTyped /\ RecoveryFollows /\ UnsavedKept

\* What a fetch has read, what the cache holds unless it is invalidated, and that
\* a document somebody watches is loaded and valid, or being fetched: the
\* invariant behind WatchedIsFresh.
EventsTyped == docEvents \in Nat
ReadIsFresh == fetch = "read" => /\ fetched # 0
                                 /\ (docEvents = 0 /\ ~missed => fetched = docText)
CacheIsFresh == (fetch = "idle" /\ docEvents = 0 /\ ~stale /\ cached # 0 /\ ~missed)
                    => cached = docText
WatchedIsValid == (mode # "browse" /\ fetch = "idle" /\ ~missed) => ~stale /\ cached # 0
FreshInv == EventsTyped /\ ReadIsFresh /\ CacheIsFresh /\ WatchedIsValid

-------------------------------------------------------------------------------
(* What is shown is fresh.                                                 *)

\* The first state is fresh.
LEMMA FreshInit == DocumentInit => FreshInv
  BY DEF DocumentInit, FreshInv, EventsTyped, ReadIsFresh, CacheIsFresh, WatchedIsValid

\* What broadcast_to_all does to the events and to what is missed.
LEMMA Announced ==
    Announce => /\ missed' <=> (missed \/ socket # "open")
                /\ socket = "open" => docEvents' = docEvents + 1
                /\ socket # "open" => docEvents' = docEvents
  <1>1. Announce => (missed' <=> (missed \/ socket # "open"))
    BY Zenon DEF Announce
  <1> QED
    BY <1>1, SMT DEF Announce

\* Every step of the page, the socket and the environment keeps it so.
LEMMA FreshStep == FreshInv /\ [DocumentNext]_docVars => FreshInv'
  <1> SUFFICES ASSUME FreshInv, [DocumentNext]_docVars PROVE FreshInv'
    OBVIOUS
  <1> USE DEF FreshInv, EventsTyped, ReadIsFresh, CacheIsFresh, WatchedIsValid
  <1>0. ASSUME Notified PROVE docEvents' \in Nat
    BY <1>0 DEF Notified
  <1>1. CASE SocketOpens
    BY <1>1 DEF SocketOpens, remote, entry, editor, docHistory
  <1>2. CASE SocketCloses
    <2>1. missed' <=> (missed \/ docEvents > 0)
      BY <1>2, Zenon DEF SocketCloses
    <2>2. docEvents' = 0 /\ UNCHANGED <<remote, entry, editor>>
      BY <1>2 DEF SocketCloses
    <2> QED
      BY <2>1, <2>2 DEF remote, entry, editor
  <1>3. CASE Reconnect
    BY <1>3 DEF Reconnect, remote, entry, editor, docHistory
  <1>4. CASE Notified
    <2>1. CASE mode = "browse"
      <3>1. missed' <=> (missed \/ fetch = "read")
        BY <1>4, <2>1, Zenon DEF Notified
      <3>2. stale' = TRUE /\ UNCHANGED <<remote, fetch, fetched, cached, mode>>
        BY <1>4, <2>1 DEF Notified, editor
      <3> QED
        BY <2>1, <3>1, <3>2, <1>4, <1>0 DEF remote
    <2>2. CASE mode # "browse" /\ cached = 0
      <3>1. missed' <=> (missed \/ fetch = "read")
        BY <1>4, <2>2, Zenon DEF Notified
      <3>2. fetch' # "idle" /\ (fetch' = "read" => fetch = "read")
            /\ UNCHANGED <<remote, fetched, cached>>
        BY <1>4, <2>2 DEF Notified
      <3> QED
        BY <3>1, <3>2, <1>4, <1>0 DEF remote
    <2>3. CASE mode # "browse" /\ cached # 0
      BY <1>4, <2>3, <1>0 DEF Notified
    <2> QED
      BY <2>1, <2>2, <2>3
  <1>5. CASE ReadDocument
    BY <1>5 DEF ReadDocument, remote, stream, editor
  <1>6. CASE Arrived
    BY <1>6 DEF Arrived, remote, stream
  <1>7. CASE FetchFails
    BY <1>7 DEF FetchFails, remote, stream, editor
  <1>8. CASE SelectDocument
    BY <1>8 DEF SelectDocument, Observe, remote, stream, docHistory
  <1>9. CASE CloseViewer
    BY <1>9 DEF CloseViewer, remote, stream, entry, docHistory
  <1>10. CASE Edit
    BY <1>10 DEF Edit, remote, stream, entry
  <1>11. CASE Type \/ TypeBack \/ CancelEdit
    BY <1>11 DEF Type, TypeBack, CancelEdit, remote, stream, entry
  <1>12. ASSUME NEW i \in Puts, PutStores(i) PROVE FreshInv'
    <2>1. Announce /\ UNCHANGED <<entry, editor>>
      BY <1>12 DEF PutStores
    <2> QED
      BY <2>1, Announced DEF entry, editor
  <1>13. ASSUME NEW i \in Puts, Saved(i) PROVE FreshInv'
    BY <1>13 DEF Saved, remote, stream
  <1>14. ASSUME NEW i \in Puts, Save(i) \/ PutRefused(i) \/ PutLost(i) \/ SaveFailed(i)
         PROVE FreshInv'
    BY <1>14 DEF Save, PutRefused, PutLost, SaveFailed, remote, stream, entry, editor, docHistory
  <1>15. CASE DeleteDocument
    <2>1. Announce /\ mode' = "browse" /\ UNCHANGED entry
      BY <1>15 DEF DeleteDocument
    <2> QED
      BY <2>1, Announced DEF entry
  <1>16. CASE OtherWrites
    <2>1. Announce /\ UNCHANGED <<entry, editor>>
      BY <1>16 DEF OtherWrites
    <2> QED
      BY <2>1, Announced DEF entry, editor
  <1>17. CASE SilentWrite
    BY <1>17 DEF SilentWrite, stream, entry, editor
  <1>18. CASE ReloadPage
    BY <1>18 DEF ReloadPage, remote
  <1>19. CASE UNCHANGED docVars
    BY <1>19 DEF docVars, remote, stream, entry, editor, docHistory
  <1> QED
    BY <1>1, <1>2, <1>3, <1>4, <1>5, <1>6, <1>7, <1>8, <1>9, <1>10, <1>11, <1>12, <1>13,
       <1>14, <1>15, <1>16, <1>17, <1>18, <1>19 DEF DocumentNext

\* What the documents page shows is what the server has once every event, fetch
\* and save is dealt with: handleMessage of useDocumentWebSocket invalidates
\* before older data can settle in the cache. For any number of texts and faults.
THEOREM ShownIsFresh == DocumentSpec => []WatchedIsFresh
  <1>1. FreshInv => WatchedIsFresh
    BY DEF FreshInv, CacheIsFresh, WatchedIsValid, WatchedIsFresh
  <1> QED
    BY <1>1, FreshInit, FreshStep, PTL DEF DocumentSpec

-------------------------------------------------------------------------------
(* What is typed is kept.                                                  *)

\* Nothing is typed and no save under way at first.
LEMMA KeepInit == DocumentInit => KeepInv
  BY DEF DocumentInit, KeepInv, TextsTyped, PutTyped, RecoveryFollows, UnsavedKept, Saving, Puts,
         NoPut, PutRecords

\* A new document for the editor: the kept text stays, or is given up knowingly.
LEMMA EditorKeeps ==
    ASSUME TextsTyped, RecoveryFollows, UnsavedKept, NEW d \in Nat, EditorGets(d, recovery),
           UNCHANGED <<put, overlapped>>
    PROVE  content' \in Nat /\ recovery' \in Nat /\ RecoveryFollows' /\ UnsavedKept'
  <1>1. CASE recovery \in {0, d} /\ recovery' = recovery /\ dirty' = FALSE /\ content' = d
             /\ UNCHANGED unsaved
    BY <1>1 DEF TextsTyped, RecoveryFollows, UnsavedKept, Saving
  <1>2. CASE content' = recovery /\ recovery' = recovery /\ UNCHANGED unsaved
    BY <1>2 DEF TextsTyped, RecoveryFollows, UnsavedKept, Saving
  <1>3. CASE content' = d /\ dirty' = FALSE /\ recovery' = 0
             /\ unsaved' = IF unsaved = recovery THEN 0 ELSE unsaved
    BY <1>3 DEF TextsTyped, RecoveryFollows, UnsavedKept, Saving
  <1> QED
    BY <1>1, <1>2, <1>3 DEF EditorGets

\* The steps that leave the editor and the saves alone.
LEMMA KeepElsewhere ==
    ASSUME KeepInv, TextsTyped', UNCHANGED <<content, dirty, recovery, put, unsaved, overlapped>>
    PROVE  KeepInv'
  BY DEF KeepInv, PutTyped, RecoveryFollows, UnsavedKept, Saving

\* Every step keeps it so.
LEMMA KeepStep == KeepInv /\ [DocumentNext]_docVars => KeepInv'
  <1> SUFFICES ASSUME KeepInv, [DocumentNext]_docVars PROVE KeepInv'
    OBVIOUS
  <1>1. CASE SocketOpens \/ SocketCloses \/ Reconnect \/ ReadDocument \/ FetchFails \/ CloseViewer
    BY <1>1, KeepElsewhere DEF SocketOpens, SocketCloses, Reconnect, ReadDocument, FetchFails,
       CloseViewer, KeepInv, TextsTyped, remote, stream, entry, editor, docHistory
  <1>2. CASE Notified
    <2>1. UNCHANGED <<remote, cached, editor, put, unsaved, overlapped>> /\ fetched' \in Nat
      BY <1>2 DEF Notified, KeepInv, TextsTyped
    <2> QED
      BY <2>1, KeepElsewhere DEF KeepInv, TextsTyped, remote, editor
  <1>3. CASE Arrived
    <2>1. UNCHANGED <<remote, put, overlapped>> /\ cached' = fetched /\ fetched' = 0
      BY <1>3 DEF Arrived, docHistory
    <2>2. CASE mode = "edit" /\ cached # fetched
      <3>1. EditorGets(fetched, recovery)
        BY <1>3, <2>2 DEF Arrived, KeepInv, RecoveryFollows
      <3> QED
        BY <2>1, <3>1, EditorKeeps DEF KeepInv, TextsTyped, PutTyped, remote
    <2>3. CASE ~(mode = "edit" /\ cached # fetched)
      BY <1>3, <2>1, <2>3, KeepElsewhere DEF Arrived, KeepInv, TextsTyped, remote
    <2> QED
      BY <2>2, <2>3
  <1>4. CASE SelectDocument
    <2>1. /\ UNCHANGED <<docText, texts, cached, fetched, recovery, put, unsaved, overlapped>>
          /\ content' = 0 /\ dirty' = FALSE
      BY <1>4 DEF SelectDocument, Unmount, remote, docHistory
    <2> QED
      BY <2>1 DEF KeepInv, TextsTyped, PutTyped, RecoveryFollows, UnsavedKept, Saving
  <1>5. CASE Edit
    BY <1>5, EditorKeeps DEF Edit, KeepInv, TextsTyped, PutTyped, remote, entry
  <1>6. CASE Type
    <2>1. TextsTyped' /\ PutTyped' /\ RecoveryFollows'
      BY <1>6 DEF Type, KeepInv, TextsTyped, PutTyped, RecoveryFollows, entry
    <2>2. (overlapped' <=> (overlapped \/ Saving # {})) /\ recovery' = unsaved' /\ UNCHANGED put
      <3>1. overlapped' <=> (overlapped \/ Saving # {})
        BY <1>6, Zenon DEF Type
      <3> QED
        BY <1>6, <3>1 DEF Type
    <2>3. UnsavedKept'
      BY <2>2 DEF UnsavedKept, Saving
    <2> QED
      BY <2>1, <2>3 DEF KeepInv
  <1>7. CASE TypeBack \/ CancelEdit
    BY <1>7 DEF TypeBack, CancelEdit, Unmount, KeepInv, TextsTyped, PutTyped, RecoveryFollows,
       UnsavedKept, remote, entry
  <1>8. ASSUME NEW i \in Puts, Save(i) PROVE KeepInv'
    <2>1. /\ put' = [put EXCEPT ![i] = [stage |-> "asked", text |-> content, tries |-> 0]]
          /\ UNCHANGED <<remote, entry, content, dirty, recovery, unsaved, overlapped>> /\ dirty
      BY <1>8 DEF Save, docHistory
    <2>2. TextsTyped' /\ RecoveryFollows' /\ content = recovery
      BY <2>1 DEF KeepInv, TextsTyped, RecoveryFollows, remote, entry
    <2>3. PutTyped' /\ \A j \in Puts : put'[j] = IF j = i
                          THEN [stage |-> "asked", text |-> content, tries |-> 0] ELSE put[j]
      BY <2>1 DEF KeepInv, PutTyped, TextsTyped, PutRecords
    <2>4. UnsavedKept'
      BY <2>1, <2>2, <2>3 DEF KeepInv, UnsavedKept, Saving
    <2> QED
      BY <2>2, <2>3, <2>4 DEF KeepInv
  <1>9. ASSUME NEW i \in Puts, PutStores(i) \/ PutRefused(i) \/ PutLost(i) PROVE KeepInv'
    <2>1. /\ i \in Saving /\ put[i].text \in Nat
          /\ docText' \in {docText, put[i].text}
          /\ UNCHANGED <<texts, entry, editor, unsaved, overlapped>>
      BY <1>9 DEF PutStores, PutRefused, PutLost, remote, docHistory, KeepInv, PutTyped, PutRecords,
                  Saving
    <2>2. PutTyped' /\ \A j \in Puts : /\ put'[j].text = put[j].text
                                       /\ j # i => put'[j] = put[j]
      <3>1. CASE PutStores(i)
        BY <3>1 DEF PutStores, KeepInv, PutTyped, PutRecords
      <3>2. CASE Retry(i)
        <4>1. PICK st \in {"asked", "failed"}, n \in Nat :
                 put' = [put EXCEPT ![i] = [@ EXCEPT !.stage = st, !.tries = n]]
          <5> DEFINE st == IF put[i].tries < MaxRetries THEN "asked" ELSE "failed"
                     n == IF put[i].tries < MaxRetries THEN put[i].tries + 1 ELSE put[i].tries
          <5>1. put' = [put EXCEPT ![i] = [@ EXCEPT !.stage = st, !.tries = n]]
            BY <3>2 DEF Retry
          <5>2. st \in {"asked", "failed"} /\ n \in Nat
            BY DEF KeepInv, PutTyped, PutRecords
          <5> QED
            BY <5>1, <5>2
        <4> QED
          BY <4>1 DEF KeepInv, PutTyped, PutRecords
      <3> QED
        BY <1>9, <3>1, <3>2 DEF PutRefused, PutLost
    <2>3. Saving' \subseteq Saving
      BY <2>1, <2>2 DEF Saving
    <2>4. UnsavedKept'
      BY <2>1, <2>2, <2>3 DEF KeepInv, UnsavedKept, editor, Saving
    <2> QED
      BY <2>1, <2>2, <2>4 DEF KeepInv, TextsTyped, RecoveryFollows, entry, editor
  <1>10. ASSUME NEW i \in Puts, Saved(i) \/ SaveFailed(i) PROVE KeepInv'
    <2>1. i \in Saving /\ put' = [put EXCEPT ![i] = NoPut] /\ UNCHANGED overlapped
      BY <1>10 DEF Saved, SaveFailed, docHistory, Saving
    <2>2. PutTyped' /\ \A j \in Puts : put'[j] = IF j = i THEN NoPut ELSE put[j]
      BY <2>1 DEF KeepInv, PutTyped, PutRecords, NoPut
    <2>3. Saving' \subseteq Saving /\ \A j \in Saving' : put'[j].text = put[j].text
      BY <2>1, <2>2 DEF Saving, NoPut
    <2>4. CASE Saved(i)
      <3>1. /\ recovery' = 0 /\ content' = 0 /\ dirty' = FALSE
            /\ unsaved' = (IF unsaved = put[i].text THEN 0 ELSE unsaved)
            /\ UNCHANGED <<docText, texts, cached>> /\ fetched' \in {0, fetched}
        BY <2>4 DEF Saved, Unmount, remote
      <3>2. unsaved' # 0 /\ ~overlapped' => FALSE
        BY <2>1, <3>1 DEF KeepInv, UnsavedKept
      <3> QED
        BY <2>2, <3>1, <3>2 DEF KeepInv, TextsTyped, RecoveryFollows, UnsavedKept
    <2>5. CASE SaveFailed(i)
      <3>1. UNCHANGED <<remote, entry, content, dirty, recovery, unsaved>>
        BY <2>5 DEF SaveFailed, docHistory
      <3> QED
        BY <2>1, <2>2, <2>3, <3>1 DEF KeepInv, TextsTyped, RecoveryFollows, UnsavedKept, remote,
           entry
    <2> QED
      BY <1>10, <2>4, <2>5
  <1>11. CASE DeleteDocument \/ OtherWrites \/ SilentWrite
    BY <1>11, KeepElsewhere DEF DeleteDocument, OtherWrites, SilentWrite, KeepInv, TextsTyped,
       entry, editor
  <1>12. CASE ReloadPage
    <2>1. /\ UNCHANGED <<docText, texts, recovery, unsaved, overlapped>>
          /\ cached' = 0 /\ fetched' = 0 /\ content' = 0 /\ dirty' = FALSE
          /\ put' = [i \in Puts |-> NoPut]
      BY <1>12 DEF ReloadPage, Unmount, remote
    <2>2. PutTyped' /\ Saving' = {}
      BY <2>1 DEF PutTyped, PutRecords, Saving, NoPut
    <2> QED
      BY <2>1, <2>2 DEF KeepInv, TextsTyped, RecoveryFollows, UnsavedKept
  <1>13. CASE UNCHANGED docVars
    BY <1>13, KeepElsewhere DEF docVars, KeepInv, TextsTyped, remote, entry, editor, docHistory
  <1> QED
    BY <1>1, <1>2, <1>3, <1>4, <1>5, <1>6, <1>7, <1>8, <1>9, <1>10, <1>11, <1>12, <1>13
    DEF DocumentNext

\* What the user typed is in the text area or in localStorage until it is saved or
\* given up, whatever is fetched, opened or reloaded, unless it was typed while a
\* save was under way: handleSave of DocumentEditor removes the recovery text of
\* what it stored, and a new document is not put over what is typed unasked.
THEOREM TypingSurvives == DocumentSpec => []TypedIsKept
  <1>1. KeepInv => TypedIsKept
    BY DEF KeepInv, UnsavedKept, TypedIsKept
  <1> QED
    BY <1>1, KeepInit, KeepStep, PTL DEF DocumentSpec
-------------------------------------------------------------------------------
(* The types.                                                              *)

StoredPuts == [stage : {"idle", "asked", "answered", "failed"}, text : Texts, tries : 0..MaxRetries]

\* The parts of DocumentTypeOK: texts, what counts and decides, and the saves.
TextTypes ==
    /\ docText \in Texts /\ texts \in Texts /\ cached \in Texts /\ fetched \in Texts
    /\ content \in Texts /\ recovery \in Texts /\ unsaved \in Texts
StateTypes ==
    /\ socket \in {"connecting", "open", "waiting"} /\ docEvents \in Nat
    /\ fetch \in {"idle", "asked", "read"} /\ mode \in {"browse", "view", "edit"}
    /\ saving \in {0} \cup Puts /\ faults \in 0..MaxFaults
FlagTypes == stale \in BOOLEAN /\ dirty \in BOOLEAN /\ missed \in BOOLEAN /\ overlapped \in BOOLEAN
PutTypes == put \in [Puts -> StoredPuts]

\* One attempt more is one of those there are, and the record stays one.
LEMMA RetryTypes ==
    ASSUME NEW i \in Puts, PutTypes, Retry(i)
    PROVE  PutTypes'
  <1> DEFINE again == put[i].tries < MaxRetries
             record == [put[i] EXCEPT !.stage = IF again THEN "asked" ELSE "failed",
                                      !.tries = IF again THEN put[i].tries + 1 ELSE put[i].tries]
  <1>1. put[i] \in StoredPuts
    BY DEF PutTypes
  <1>2. record \in StoredPuts
    <2>1. put[i].tries \in 0..MaxRetries /\ put[i].text \in Texts
      BY <1>1 DEF StoredPuts
    <2>2. (IF again THEN put[i].tries + 1 ELSE put[i].tries) \in 0..MaxRetries
      BY <2>1, DocumentAssumption
    <2>3. (IF again THEN "asked" ELSE "failed") \in {"idle", "asked", "answered", "failed"}
      OBVIOUS
    <2> QED  BY <1>1, <2>2, <2>3 DEF StoredPuts
  <1>3. put' = [put EXCEPT ![i] = record]
    BY DEF Retry
  <1> QED  BY <1>2, <1>3 DEF PutTypes

\* Every step keeps the texts ...
LEMMA TextStep ==
    ASSUME TextTypes, PutTypes, [DocumentNext]_docVars
    PROVE  TextTypes'
  <1> USE DocumentAssumption DEF TextTypes, Texts, remote, entry, editor, docHistory, Unmount
  <1>1. CASE SocketOpens \/ SocketCloses \/ Reconnect \/ Notified
    BY <1>1 DEF SocketOpens, SocketCloses, Reconnect, Notified
  <1>2. CASE ReadDocument \/ FetchFails \/ SelectDocument \/ CloseViewer
    BY <1>2 DEF ReadDocument, FetchFails, SelectDocument, CloseViewer
  <1>3. CASE Arrived
    BY <1>3 DEF Arrived, EditorGets
  <1>4. CASE Edit
    BY <1>4 DEF Edit, EditorGets
  <1>5. CASE Type \/ TypeBack \/ CancelEdit
    BY <1>5 DEF Type, TypeBack, CancelEdit
  <1>6. ASSUME NEW i \in Puts,
               Save(i) \/ PutStores(i) \/ PutRefused(i) \/ PutLost(i) \/ Saved(i) \/ SaveFailed(i)
        PROVE  TextTypes'
    <2>1. put[i].text \in Texts
      BY DEF PutTypes, StoredPuts
    <2> QED
      BY <1>6, <2>1 DEF Save, PutStores, PutRefused, PutLost, Saved, SaveFailed
  <1>7. CASE DeleteDocument \/ OtherWrites \/ SilentWrite \/ ReloadPage
    BY <1>7 DEF DeleteDocument, OtherWrites, SilentWrite, ReloadPage
  <1>8. CASE UNCHANGED docVars
    BY <1>8 DEF docVars
  <1> QED
    BY <1>1, <1>2, <1>3, <1>4, <1>5, <1>6, <1>7, <1>8 DEF DocumentNext

\* ... what counts and decides ...
LEMMA StateStep ==
    ASSUME StateTypes, PutTypes, [DocumentNext]_docVars
    PROVE  StateTypes'
  <1> USE DocumentAssumption
      DEF StateTypes, Puts, stream, entry, editor, docHistory, Unmount, Fault
  <1>1. CASE SocketOpens \/ SocketCloses \/ Reconnect \/ Notified
    BY <1>1 DEF SocketOpens, SocketCloses, Reconnect, Notified
  <1>2. CASE ReadDocument \/ Arrived \/ FetchFails
    BY <1>2 DEF ReadDocument, Arrived, FetchFails
  <1>3. CASE SelectDocument \/ CloseViewer \/ Edit
    BY <1>3 DEF SelectDocument, CloseViewer, Edit, Observe
  <1>4. CASE Type \/ TypeBack \/ CancelEdit
    BY <1>4 DEF Type, TypeBack, CancelEdit
  <1>5. ASSUME NEW i \in Puts,
               Save(i) \/ PutStores(i) \/ PutRefused(i) \/ PutLost(i) \/ Saved(i) \/ SaveFailed(i)
        PROVE  StateTypes'
    BY <1>5, Announced DEF Save, PutStores, PutRefused, PutLost, Saved, SaveFailed
  <1>6. CASE DeleteDocument \/ OtherWrites \/ SilentWrite \/ ReloadPage
    BY <1>6, Announced DEF DeleteDocument, OtherWrites, SilentWrite, ReloadPage
  <1>7. CASE UNCHANGED docVars
    BY <1>7 DEF docVars
  <1> QED
    BY <1>1, <1>2, <1>3, <1>4, <1>5, <1>6, <1>7 DEF DocumentNext

\* ... the flags ...
LEMMA FlagStep ==
    ASSUME FlagTypes, [DocumentNext]_docVars
    PROVE  FlagTypes'
  <1> USE DEF FlagTypes, entry, editor, docHistory, Unmount
  <1>1. CASE SocketOpens \/ SocketCloses \/ Reconnect \/ Notified
    BY <1>1, Zenon DEF SocketOpens, SocketCloses, Reconnect, Notified
  <1>2. CASE ReadDocument \/ FetchFails \/ SelectDocument \/ CloseViewer
    BY <1>2, Zenon DEF ReadDocument, FetchFails, SelectDocument, CloseViewer
  <1>3. CASE Arrived
    BY <1>3, Zenon DEF Arrived, EditorGets
  <1>4. CASE Edit
    BY <1>4, Zenon DEF Edit, EditorGets
  <1>5. CASE Type \/ TypeBack \/ CancelEdit
    BY <1>5, Zenon DEF Type, TypeBack, CancelEdit
  <1>6. ASSUME NEW i \in Puts,
               Save(i) \/ PutStores(i) \/ PutRefused(i) \/ PutLost(i) \/ Saved(i) \/ SaveFailed(i)
        PROVE  FlagTypes'
    BY <1>6, Zenon DEF Save, PutStores, PutRefused, PutLost, Saved, SaveFailed, Announce
  <1>7. CASE DeleteDocument \/ OtherWrites \/ SilentWrite \/ ReloadPage
    BY <1>7, Zenon DEF DeleteDocument, OtherWrites, SilentWrite, ReloadPage, Announce
  <1>8. CASE UNCHANGED docVars
    BY <1>8 DEF docVars
  <1> QED
    BY <1>1, <1>2, <1>3, <1>4, <1>5, <1>6, <1>7, <1>8 DEF DocumentNext

\* ... and the saves.
LEMMA SavesStep ==
    ASSUME TextTypes, PutTypes, [DocumentNext]_docVars
    PROVE  PutTypes'
  <1>1. NoPut \in StoredPuts
    BY DocumentAssumption DEF NoPut, StoredPuts, Texts
  <1>2. ASSUME NEW i \in Puts, PutRefused(i) \/ PutLost(i)
        PROVE  PutTypes'
    BY <1>2, RetryTypes DEF PutRefused, PutLost
  <1>3. ASSUME NEW i \in Puts, Save(i) \/ PutStores(i) \/ Saved(i) \/ SaveFailed(i)
        PROVE  PutTypes'
    <2>1. PICK record \in StoredPuts : put' = [put EXCEPT ![i] = record]
      <3>1. put[i] \in StoredPuts
        BY DEF PutTypes
      <3>2. CASE Save(i)
        <4>1. [stage |-> "asked", text |-> content, tries |-> 0] \in StoredPuts
          BY DocumentAssumption DEF StoredPuts, TextTypes
        <4> QED  BY <3>2, <4>1 DEF Save
      <3>3. CASE PutStores(i)
        <4>1. [put[i] EXCEPT !.stage = "answered"] \in StoredPuts
          BY <3>1 DEF StoredPuts
        <4>2. put' = [put EXCEPT ![i] = [put[i] EXCEPT !.stage = "answered"]]
          BY <3>3 DEF PutStores
        <4> QED  BY <4>1, <4>2
      <3>4. CASE Saved(i) \/ SaveFailed(i)
        BY <3>4, <1>1 DEF Saved, SaveFailed
      <3> QED  BY <1>3, <3>2, <3>3, <3>4
    <2> QED  BY <2>1 DEF PutTypes
  <1>4. CASE ReloadPage
    BY <1>1, <1>4 DEF ReloadPage, PutTypes
  <1>5. CASE UNCHANGED put
    BY <1>5 DEF PutTypes
  <1> QED
    BY <1>2, <1>3, <1>4, <1>5
    DEF DocumentNext, docVars, SocketOpens, SocketCloses, Reconnect, Notified, ReadDocument, Arrived,
        FetchFails, SelectDocument, CloseViewer, Edit, Type, TypeBack, CancelEdit, DeleteDocument,
        OtherWrites, SilentWrite

\* The variables of the page of one document have their types: no text is shown
\* that nobody wrote, and no save is tried more often than withRetry allows.
THEOREM DocumentTyping == DocumentSpec => []DocumentTypeOK
  <1> DEFINE Inv == TextTypes /\ StateTypes /\ FlagTypes /\ PutTypes
  <1>1. DocumentInit => Inv
    <2>1. NoPut \in StoredPuts
      BY DocumentAssumption DEF NoPut, StoredPuts, Texts
    <2>2. DocumentInit => TextTypes /\ StateTypes
      BY DocumentAssumption DEF DocumentInit, TextTypes, StateTypes, Texts
    <2>3. DocumentInit => FlagTypes
      BY Zenon DEF DocumentInit, FlagTypes
    <2>4. DocumentInit => PutTypes
      BY <2>1, Zenon DEF DocumentInit, PutTypes
    <2> QED
      BY <2>2, <2>3, <2>4
  <1>2. Inv /\ [DocumentNext]_docVars => Inv'
    BY TextStep, StateStep, FlagStep, SavesStep
  <1>3. Inv => DocumentTypeOK
    BY DEF TextTypes, StateTypes, FlagTypes, PutTypes, StoredPuts, DocumentTypeOK
  <1> QED
    BY <1>1, <1>2, <1>3, PTL DEF DocumentSpec

-------------------------------------------------------------------------------
(* The tree beside it: DocumentTree.  Numbers and paths first.             *)

\* Induction over a set of numbers.
LEMMA NatSetInduction ==
  ASSUME NEW T, 0 \in T, \A n \in Nat : n \in T => n + 1 \in T
  PROVE  Nat \subseteq T
<1> DEFINE Rest == Nat \ T
           Less == {ss \in Nat \X Nat : ss[1] < ss[2]}
<1> SUFFICES ASSUME Rest # {} PROVE FALSE
  OBVIOUS
<1>0. IsWellFoundedOn(Less, Nat)
  BY NatLessThanWellFounded DEF OpToRel
<1>1. PICK n \in Rest : \A m \in Rest : ~(<<m, n>> \in Less)
  <2> HIDE DEF Less, Rest
  <2>1. Rest \subseteq Nat
    BY DEF Rest
  <2> QED
    BY <1>0, <2>1, WFMin
<1>2. n # 0 /\ n - 1 \in Nat /\ n - 1 < n
  OBVIOUS
<1>3. n - 1 \notin Rest
  BY <1>1, <1>2
<1> QED
  BY <1>2, <1>3


\* The first names of a path.
Pre(n, k) == SubSeq(n, 1, k)
Paths == Seq(Nat \ {0})

\* What the prefixes of a path are.
LEMMA PrefixFacts ==
  ASSUME NEW n \in Paths, NEW k \in 0..Len(n)
  PROVE  /\ Pre(n, k) \in Paths /\ Len(Pre(n, k)) = k
         /\ \A i \in 1..k : Pre(n, k)[i] = n[i]
  BY SubSeqProperties, LenProperties, ElementOfSeq DEF Pre, Paths

\* A path is its longest prefix.
LEMMA PrefixWhole ==
  ASSUME NEW n \in Paths PROVE Pre(n, Len(n)) = n
  BY SubSeqFull DEF Pre, Paths

\* Paths with the same names are the same.
LEMMA PathsEqual ==
  ASSUME NEW a \in Paths, NEW b \in Paths, Len(a) = Len(b), \A i \in 1..Len(a) : a[i] = b[i]
  PROVE  a = b
  BY SeqEqual DEF Paths

\* A prefix of a prefix is one of the path.
LEMMA PrefixOfPrefix ==
  ASSUME NEW n \in Paths, NEW k \in 0..Len(n), NEW j \in 0..k
  PROVE  Pre(Pre(n, k), j) = Pre(n, j)
<1>1. Len(n) \in Nat /\ j \in 0..Len(n)
  BY LenProperties DEF Paths
<1> QED
  BY <1>1, PrefixFacts, PathsEqual

\* The next prefix has the next name.
LEMMA PrefixNext ==
  ASSUME NEW n \in Paths, NEW k \in 0..(Len(n) - 1)
  PROVE  Pre(n, k + 1) = Append(Pre(n, k), n[k + 1])
<1>1. Len(n) \in Nat /\ k \in 0..Len(n) /\ k + 1 \in 0..Len(n)
  BY LenProperties DEF Paths
<1>2. n[k + 1] \in Nat \ {0}
  BY <1>1, ElementOfSeq DEF Paths
<1>3. Append(Pre(n, k), n[k + 1]) \in Paths
  BY <1>1, <1>2, PrefixFacts DEF Paths
<1>4. Len(Append(Pre(n, k), n[k + 1])) = k + 1
  BY <1>1, PrefixFacts DEF Paths
<1>5. \A i \in 1..(k + 1) : Append(Pre(n, k), n[k + 1])[i] = n[i]
  <2> DEFINE p == Pre(n, k)
             m == n[k + 1]
  <2>1. p \in Seq(Nat \ {0}) /\ Len(p) = k /\ m \in Nat \ {0} /\ \A i \in 1..k : p[i] = n[i]
    BY <1>1, <1>2, PrefixFacts DEF Paths
  <2> HIDE DEF p
  <2>2. \A i \in 1..k : Append(p, m)[i] = p[i]
    BY <2>1
  <2>3. Append(p, m)[k + 1] = m
    BY <2>1
  <2>4. \A i \in 1..(k + 1) : Append(p, m)[i] = n[i]
    BY <1>1, <2>1, <2>2, <2>3
  <2> QED
    BY <2>4 DEF p
<1>6. /\ Pre(n, k + 1) \in Paths /\ Len(Pre(n, k + 1)) = k + 1
      /\ \A i \in 1..(k + 1) : Pre(n, k + 1)[i] = n[i]
  BY <1>1, PrefixFacts
<1> QED
  BY <1>3, <1>4, <1>5, <1>6, PathsEqual

\* A path but for its last name, and that name.
LEMMA PathOf ==
  ASSUME NEW n \in Paths, n # <<>>
  PROVE  /\ Len(n) \in Nat \ {0}
         /\ Front(n) = Pre(n, Len(n) - 1) /\ Front(n) \in Paths /\ Last(n) \in Nat \ {0}
         /\ n = Append(Front(n), Last(n))
<1>1. Len(n) \in Nat \ {0}
  BY DEF Paths
<1>2. Front(n) = Pre(n, Len(n) - 1)
  BY DEF Front, Pre
<1>3. Last(n) \in Nat \ {0}
  BY <1>1 DEF Last, Paths
<1>4. n = Append(Pre(n, Len(n) - 1), n[Len(n)])
  <2>1. Len(n) - 1 \in 0..(Len(n) - 1) /\ (Len(n) - 1) + 1 = Len(n)
    BY <1>1
  <2> QED
    BY <2>1, PrefixNext, PrefixWhole
<1>5. Front(n) \in Paths
  BY <1>1, <1>2, PrefixFacts
<1> QED
  BY <1>1, <1>2, <1>3, <1>4, <1>5 DEF Last

\* A path with a name added to it.
LEMMA AppendOf ==
  ASSUME NEW d \in Paths, NEW m \in Nat \ {0}
  PROVE  /\ Append(d, m) \in Paths /\ Append(d, m) # <<>> /\ Len(Append(d, m)) = Len(d) + 1
         /\ \A i \in 1..Len(d) : Append(d, m)[i] = d[i]
         /\ Front(Append(d, m)) = d /\ Last(Append(d, m)) = m
<1>1. Append(d, m) \in Paths /\ Append(d, m) # <<>> /\ Len(Append(d, m)) = Len(d) + 1
  BY DEF Paths
<1>2. \A i \in 1..Len(d) : Append(d, m)[i] = d[i]
  BY DEF Paths
<1>3. Last(Append(d, m)) = m
  BY <1>1 DEF Last, Paths
<1>4. Len(d) \in Nat
  BY DEF Paths
<1>5. Front(Append(d, m)) = d
  <2> DEFINE longer == Append(d, m)
  <2>1. longer \in Paths /\ longer # <<>> /\ Len(d) \in 0..Len(longer) /\ Len(longer) - 1 = Len(d)
    BY <1>1, <1>4
  <2>2. \A i \in 1..Len(d) : longer[i] = d[i]
    BY <1>2
  <2> HIDE DEF longer
  <2>3. /\ Pre(longer, Len(d)) \in Paths /\ Len(Pre(longer, Len(d))) = Len(d)
        /\ \A i \in 1..Len(d) : Pre(longer, Len(d))[i] = longer[i]
    BY <2>1, PrefixFacts
  <2>4. Pre(longer, Len(d)) = d
    BY <2>2, <2>3, PathsEqual
  <2>5. Front(longer) = d
    BY <2>1, <2>4, PathOf
  <2> QED
    BY <2>5 DEF longer
<1> QED
  BY <1>1, <1>2, <1>3, <1>5

\* IsPrefix by positions.
LEMMA PrefixMeans ==
  ASSUME NEW a \in Paths, NEW b \in Paths
  PROVE  /\ IsPrefix(a, b) <=> (Len(a) <= Len(b) /\ Pre(b, Len(a)) = a)
         /\ \A k \in 0..Len(b) : IsPrefix(Pre(b, k), b)
<1>1. Len(a) \in Nat /\ Len(b) \in Nat
  BY DEF Paths
<1>2. IsPrefix(a, b) <=> (Len(a) <= Len(b) /\ Pre(a, Len(a)) = Pre(b, Len(a)))
  BY DEF IsPrefix, Pre
<1>3. ASSUME NEW k \in 0..Len(b) PROVE IsPrefix(Pre(b, k), b)
  <2>1. Pre(b, k) \in Paths /\ Len(Pre(b, k)) = k
    BY <1>3, PrefixFacts
  <2>2. Pre(Pre(b, k), k) = Pre(b, k)
    BY <2>1, PrefixWhole
  <2> QED
    BY <1>1, <1>3, <2>1, <2>2 DEF IsPrefix, Pre
<1> QED
  BY <1>1, <1>2, <1>3, PrefixWhole

-------------------------------------------------------------------------------
(* The tree's nodes.                                                       *)

\* What holds nodes, and the nodes.
Holders == Dirs \cup {Root}
TreeNodes == Dirs \cup Docs

\* The paths the assumption is about.
LEMMA BoundedPaths ==
  ASSUME NEW m \in Nat, NEW n \in BoundedSeq(1..MaxName, m) \ {<<>>}
  PROVE  n \in Paths /\ n # <<>> /\ Len(n) <= m /\ \A i \in 1..Len(n) : n[i] \in 1..MaxName
<1>1. PICK k \in 0..m : n \in [1..k -> 1..MaxName]
  BY DEF BoundedSeq, SeqOf
<1>2. n \in Seq(1..MaxName) /\ Len(n) = k
  <2>1. k \in Nat /\ DOMAIN n = 1..k
    BY <1>1
  <2>2. n \in Seq(1..MaxName)
    BY <1>1, <2>1, SeqDef
  <2> QED
    BY <2>1, <2>2, LenProperties
<1>3. 1..MaxName \subseteq Nat \ {0}
  BY TreeAssumption
<1> QED
  BY <1>1, <1>2, <1>3 DEF Paths

\* Directories.
LEMMA DirShape ==
  ASSUME NEW d \in Dirs
  PROVE  /\ d \in Paths /\ d # <<>> /\ Len(d) \in 1..MaxDepth /\ Front(d) \in Holders
         /\ \A i \in 1..Len(d) : d[i] \in 1..MaxName
<1>1. d \in BoundedSeq(1..MaxName, MaxDepth) \ {<<>>} /\ MaxDepth \in Nat /\ Front(d) \in Holders
  BY TreeAssumption DEF Holders, Root
<1>2. Len(d) \in Nat \ {0}
  BY <1>1, BoundedPaths, PathOf
<1> QED
  BY <1>1, <1>2, BoundedPaths

\* What holds documents: a directory or the root.
LEMMA HolderShape ==
  ASSUME NEW d \in Holders
  PROVE  d \in Paths /\ Len(d) \in 0..MaxDepth /\ \A i \in 1..Len(d) : d[i] \in 1..MaxName
<1>1. CASE d \in Dirs
  BY <1>1, DirShape
<1>2. CASE d = Root
  BY <1>2, TreeAssumption DEF Root, Paths
<1> QED
  BY <1>1, <1>2 DEF Holders

\* The documents at first are documents.
LEMMA FirstShape ==
  ASSUME NEW d \in FirstDocs
  PROVE  d \in Docs /\ Last(d) \in Names
<1>1. /\ d \in BoundedSeq(1..MaxName, MaxDepth + 1) \ {<<>>} /\ MaxDepth + 1 \in Nat
      /\ Front(d) \in Holders
  BY TreeAssumption DEF Holders, Root
<1>2. d = Append(Front(d), Last(d))
  BY <1>1, BoundedPaths, PathOf
<1>3. Last(d) \in Names
  BY DEF Names
<1> QED
  BY <1>1, <1>2, <1>3 DEF Docs, Holders

\* The names of documents: no directory has one of them.
LEMMA NameShape ==
  ASSUME NEW m \in Names
  PROVE  m \in 1..MaxName /\ \A d \in Dirs : Last(d) # m
<1>1. PICK d \in FirstDocs : m = Last(d)
  BY DEF Names
<1>2. d \in BoundedSeq(1..MaxName, MaxDepth + 1) \ {<<>>} /\ MaxDepth + 1 \in Nat
  BY TreeAssumption
<1>3. Len(d) \in Nat \ {0} /\ \A i \in 1..Len(d) : d[i] \in 1..MaxName
  BY <1>2, BoundedPaths, PathOf
<1>4. m \in 1..MaxName
  BY <1>1, <1>3 DEF Last
<1> QED
  BY <1>1, <1>4, TreeAssumption

\* Documents.
LEMMA DocShape ==
  ASSUME NEW d \in Docs
  PROVE  /\ d \in Paths /\ d # <<>> /\ Front(d) \in Holders /\ Last(d) \in Names /\ d \notin Dirs
         /\ Len(d) \in 1..(MaxDepth + 1) /\ \A i \in 1..Len(d) : d[i] \in 1..MaxName
<1>1. PICK dir \in Holders, m \in Names : d = Append(dir, m)
  BY DEF Docs, Holders
<1>2. /\ dir \in Paths /\ Len(dir) \in 0..MaxDepth /\ MaxDepth \in Nat
      /\ \A i \in 1..Len(dir) : dir[i] \in 1..MaxName
  BY HolderShape, TreeAssumption
<1>3. m \in 1..MaxName /\ m \in Nat \ {0}
  BY NameShape, TreeAssumption
<1>4. /\ d \in Paths /\ d # <<>> /\ Len(d) = Len(dir) + 1 /\ Front(d) = dir /\ Last(d) = m
      /\ \A i \in 1..Len(dir) : d[i] = dir[i]
  BY <1>1, <1>2, <1>3, AppendOf
<1>5. d \notin Dirs
  BY <1>4, NameShape
<1>6. \A i \in 1..Len(d) : d[i] \in 1..MaxName
  BY <1>2, <1>3, <1>4 DEF Last
<1> QED
  BY <1>1, <1>2, <1>4, <1>5, <1>6

\* What the tree consists of.
LEMMA NodeShape ==
  ASSUME NEW n \in TreeNodes
  PROVE  /\ n \in Paths /\ n # <<>> /\ Len(n) \in Nat \ {0} /\ Front(n) \in Holders
         /\ \A i \in 1..Len(n) : n[i] \in 1..MaxName
  BY DirShape, DocShape, TreeAssumption DEF TreeNodes

\* What a node is in are directories.
LEMMA PrefixIsDir ==
  ASSUME NEW n \in TreeNodes, NEW k \in 1..(Len(n) - 1)
  PROVE  Pre(n, k) \in Dirs
<1>1. n \in Paths /\ n # <<>> /\ Len(n) \in Nat \ {0}
  BY NodeShape
<1> DEFINE Up == {j \in Nat : j < Len(n) - 1 => Pre(n, (Len(n) - 1) - j) \in Dirs}
<1>2. 0 \in Up
  <2> SUFFICES ASSUME 0 < Len(n) - 1 PROVE Pre(n, Len(n) - 1) \in Dirs
    BY <1>1
  <2>1. Front(n) = Pre(n, Len(n) - 1) /\ Front(n) \in Holders
    BY <1>1, PathOf, NodeShape
  <2>2. Len(Pre(n, Len(n) - 1)) = Len(n) - 1
    BY <1>1, PrefixFacts
  <2>3. Len(Root) = 0
    BY DEF Root
  <2> QED
    BY <2>1, <2>2, <2>3 DEF Holders
<1>3. ASSUME NEW j \in Nat, j \in Up PROVE j + 1 \in Up
  <2> SUFFICES ASSUME j + 1 < Len(n) - 1 PROVE Pre(n, (Len(n) - 1) - (j + 1)) \in Dirs
    BY <1>1
  <2> DEFINE i == (Len(n) - 1) - j
  <2>1. i \in 2..(Len(n) - 1) /\ i - 1 = (Len(n) - 1) - (j + 1) /\ Pre(n, i) \in Dirs
    BY <1>1, <1>3
  <2> HIDE DEF i
  <2>2. Pre(n, i) \in Paths /\ Len(Pre(n, i)) = i /\ Pre(n, i) # <<>>
    BY <1>1, <2>1, PrefixFacts, DirShape
  <2>3. Front(Pre(n, i)) = Pre(Pre(n, i), i - 1)
    BY <2>2, PathOf
  <2>4. Pre(Pre(n, i), i - 1) = Pre(n, i - 1)
    BY <1>1, <2>1, PrefixOfPrefix
  <2>5. Pre(n, i - 1) \in Holders
    BY <2>1, <2>3, <2>4, DirShape
  <2>6. Len(Pre(n, i - 1)) = i - 1 /\ Len(Root) = 0
    BY <1>1, <2>1, PrefixFacts DEF Root
  <2> QED
    BY <2>1, <2>5, <2>6 DEF Holders
<1>4. Nat \subseteq Up
  <2> HIDE DEF Up
  <2> QED
    BY <1>2, <1>3, NatSetInduction
<1>5. (Len(n) - 1) - k \in Nat /\ (Len(n) - 1) - k < Len(n) - 1 /\ (Len(n) - 1) - ((Len(n) - 1) - k) = k
  BY <1>1
<1> QED
  BY <1>4, <1>5

-------------------------------------------------------------------------------
(* The layout is a recursive function: it exists because a directory's     *)
(* places refer to the one before and to those of a directory below, whose *)
(* ranks are lower.                                                        *)

Corners == Holders \X (0..Places)
DataTyped == treeDocs \subseteq Docs /\ expandedPaths \subseteq Dirs

\* As many places as names, for directories and for documents.
LEMMA PlacesNat == Places \in Nat \ {0} /\ MaxName \in Nat \ {0} /\ Places = MaxName + MaxName
  BY TreeAssumption DEF Places

\* What is in a directory at a place, if anything is.
LEMMA OrderIs ==
  ASSUME DataTyped, NEW dir \in Holders, NEW i \in 1..Places, Kept(Order(dir, i))
  PROVE  /\ Order(dir, i) \in TreeNodes
         /\ i <= MaxName => Order(dir, i) = Append(dir, i) /\ Order(dir, i) \in Dirs
         /\ i > MaxName => /\ Order(dir, i) = Append(dir, i - MaxName)
                           /\ Order(dir, i) \in treeDocs
<1>1. NoPath \notin TreeNodes
  <2>1. Len(NoPath) = 1 /\ NoPath[1] = 0 /\ ~(0 \in 1..MaxName)
    BY DEF NoPath
  <2> QED
    BY <2>1, NodeShape
<1>2. treeDocs \subseteq TreeNodes /\ Dirs \subseteq TreeNodes
  BY DEF DataTyped, TreeNodes
<1>3. Order(dir, i) # NoPath
  BY <1>1, <1>2 DEF Kept
<1>4. i \in Nat /\ MaxName \in Nat
  BY PlacesNat
<1>5. CASE i > MaxName
  <2>1. Order(dir, i) = Append(dir, i - MaxName) /\ Order(dir, i) \in treeDocs
    BY <1>3, <1>5 DEF Order
  <2> QED
    BY <1>2, <1>4, <1>5, <2>1
<1>6. CASE ~(i > MaxName)
  <2>1. Order(dir, i) = Append(dir, i) /\ Order(dir, i) \in Dirs
    BY <1>3, <1>6 DEF Order
  <2> QED
    BY <1>2, <1>4, <1>6, <2>1
<1> QED
  BY <1>5, <1>6

\* Lower for a deeper directory, and for an earlier place in it.
Rank(at) == (MaxDepth - Len(at[1])) * (Places + 1) + at[2]
Ranks == (MaxDepth + 1) * (Places + 1)

\* Ranks are numbers, and bounded.
LEMMA RankFacts ==
  ASSUME NEW at \in Corners
  PROVE  Rank(at) \in Nat /\ Rank(at) < Ranks
<1>1. at[1] \in Holders /\ at[2] \in 0..Places /\ Places \in Nat
  BY PlacesNat DEF Corners
<1>2. Len(at[1]) \in 0..MaxDepth /\ MaxDepth \in Nat
  BY <1>1, HolderShape, TreeAssumption
<1> DEFINE up == MaxDepth - Len(at[1])
           wide == Places + 1
<1>3. up \in Nat /\ up <= MaxDepth /\ wide \in Nat /\ at[2] \in Nat /\ at[2] < wide
  BY <1>1, <1>2
<1>4. Rank(at) = up * wide + at[2] /\ Ranks = (MaxDepth + 1) * wide
  BY DEF Rank, Ranks
<1> HIDE DEF up, wide
<1>5. up * wide \in Nat /\ up * wide + wide <= (MaxDepth + 1) * wide
  <2>1. up * wide \in Nat
    BY <1>3
  <2>2. (up + 1) * wide = up * wide + wide
    BY <1>3
  <2>3. (up + 1) * wide <= (MaxDepth + 1) * wide
    BY <1>2, <1>3
  <2> QED
    BY <2>1, <2>2, <2>3
<1> DEFINE above == up * wide
           all == (MaxDepth + 1) * wide
<1>6. above \in Nat /\ above + wide <= all /\ Rank(at) = above + at[2] /\ Ranks = all
  BY <1>4, <1>5
<1>7. all \in Int
  BY <1>2, <1>3
<1> HIDE DEF above, all
<1> QED
  BY <1>3, <1>6, <1>7

\* The place before has a lower rank ...
LEMMA RankLeft ==
  ASSUME NEW at \in Corners, at[2] # 0
  PROVE  /\ <<at[1], at[2] - 1>> \in Corners /\ Rank(<<at[1], at[2] - 1>>) < Rank(at)
<1>1. at[1] \in Holders /\ at[2] \in 1..Places /\ Places \in Nat
  BY PlacesNat DEF Corners
<1>2. <<at[1], at[2] - 1>> \in Corners
  BY <1>1 DEF Corners
<1>3. (MaxDepth - Len(at[1])) * (Places + 1) \in Int
  <2>1. MaxDepth \in Nat /\ Len(at[1]) \in Nat
    BY <1>1, HolderShape, TreeAssumption
  <2> QED
    BY <1>1, <2>1
<1> QED
  BY <1>1, <1>2, <1>3 DEF Rank

\* ... and so have the places of a directory below.
LEMMA RankDown ==
  ASSUME NEW at \in Corners, at[2] # 0, NEW node \in Dirs, Len(node) = Len(at[1]) + 1
  PROVE  <<node, Places>> \in Corners /\ Rank(<<node, Places>>) < Rank(at)
<1>1. at[1] \in Holders /\ at[2] \in 1..Places /\ Places \in Nat
  BY PlacesNat DEF Corners
<1>2. <<node, Places>> \in Corners
  BY <1>1 DEF Corners, Holders
<1>3. MaxDepth \in Nat /\ Len(at[1]) \in Nat /\ Len(node) \in 1..MaxDepth
  BY <1>1, HolderShape, DirShape, TreeAssumption
<1> DEFINE down == MaxDepth - Len(node)
           wide == Places + 1
<1>4. down \in Nat /\ wide \in Nat /\ MaxDepth - Len(at[1]) = down + 1
  BY <1>1, <1>3
<1>5. (down + 1) * wide = down * wide + wide /\ down * wide \in Nat
  <2> HIDE DEF down, wide
  <2> QED
    BY <1>4
<1>6. Rank(<<node, Places>>) = down * wide + Places /\ Rank(at) = (down + 1) * wide + at[2]
  BY <1>4 DEF Rank
<1>7. Places < wide
  BY <1>1
<1> HIDE DEF down, wide
<1> QED
  BY <1>1, <1>2, <1>4, <1>5, <1>6, <1>7

\* What holds where it holds at every lower rank holds everywhere.
LEMMA RankInduction ==
  ASSUME NEW S,
         \A at \in Corners : (\A b \in Corners : Rank(b) < Rank(at) => b \in S) => at \in S
  PROVE  Corners \subseteq S
<1> DEFINE Done == {n \in Nat : \A at \in Corners : Rank(at) < n => at \in S}
<1>1. 0 \in Done
  BY RankFacts
<1>2. ASSUME NEW n \in Nat, n \in Done PROVE n + 1 \in Done
  <2> SUFFICES ASSUME NEW at \in Corners, Rank(at) < n + 1 PROVE at \in S
    BY <1>2
  <2>1. \A b \in Corners : Rank(b) < Rank(at) => b \in S
    BY <1>2, RankFacts
  <2> QED
    BY <2>1
<1>3. Nat \subseteq Done
  <2> HIDE DEF Done
  <2> QED
    BY <1>1, <1>2, NatSetInduction
<1>4. ASSUME NEW at \in Corners PROVE at \in S
  <2>1. Rank(at) + 1 \in Nat /\ Rank(at) < Rank(at) + 1
    BY RankFacts
  <2> QED
    BY <1>3, <2>1
<1> QED
  BY <1>4

\* One step of flatten.
Layout(at, f) ==
    IF at[2] = 0 THEN <<>>
    ELSE LET node == Order(at[1], at[2])
         IN f[<<at[1], at[2] - 1>>] \o
              (IF ~Kept(node) THEN <<>>
               ELSE IF node \in expandedPaths THEN <<node>> \o f[<<node, Places>>]
               ELSE <<node>>)

\* The layout at a place depends on those of a lower rank only ...
LEMMA LayoutLooksBack ==
  ASSUME DataTyped, NEW at \in Corners, NEW f, NEW g,
         \A b \in Corners : Rank(b) < Rank(at) => f[b] = g[b]
  PROVE  Layout(at, f) = Layout(at, g)
<1>1. CASE at[2] = 0
  BY <1>1 DEF Layout
<1>2. CASE at[2] # 0
  <2> DEFINE node == Order(at[1], at[2])
  <2>1. f[<<at[1], at[2] - 1>>] = g[<<at[1], at[2] - 1>>]
    BY <1>2, RankLeft
  <2>2. ASSUME Kept(node), node \in expandedPaths PROVE f[<<node, Places>>] = g[<<node, Places>>]
    <3>1. at[1] \in Holders /\ at[2] \in 1..Places
      BY <1>2, PlacesNat DEF Corners
    <3>2. at[1] \in Paths /\ MaxName \in Nat \ {0}
      BY <3>1, HolderShape, PlacesNat
    <3>3. node = Append(at[1], at[2]) \/ node = Append(at[1], at[2] - MaxName)
      <4>1. PICK dir, i : dir = at[1] /\ i = at[2]
        OBVIOUS
      <4>2. dir \in Holders /\ i \in 1..Places /\ Kept(Order(dir, i))
        BY <2>2, <3>1, <4>1
      <4>3. i \in Nat /\ (i <= MaxName \/ i > MaxName)
        BY <3>2, <4>2, PlacesNat
      <4>4. Order(dir, i) = Append(dir, i) \/ Order(dir, i) = Append(dir, i - MaxName)
        BY <4>2, <4>3, OrderIs
      <4> QED
        BY <4>1, <4>4
    <3>4. node \in Dirs /\ Len(node) = Len(at[1]) + 1
      BY <2>2, <3>2, <3>3 DEF DataTyped, Paths
    <3> QED
      BY <1>2, <3>4, RankDown
  <2> QED
    BY <1>2, <2>1, <2>2 DEF Layout
<1> QED
  BY <1>1, <1>2

\* ... so there is a function that is laid out everywhere ...
LEMMA LayoutExists ==
  ASSUME DataTyped
  PROVE  \E f : f = [at \in Corners |-> Layout(at, f)]
<1> DEFINE Below(n) == {at \in Corners : Rank(at) < n}
           Done == {n \in Nat : \E f : f = [at \in Below(n) |-> Layout(at, f)]}
<1>1. 0 \in Done
  <2>1. Below(0) = {}
    BY RankFacts
  <2> DEFINE g == [at \in Below(0) |-> 0]
  <2>2. g = [at \in Below(0) |-> Layout(at, g)]
    BY <2>1
  <2> QED
    BY <2>2
<1>2. ASSUME NEW n \in Nat, n \in Done PROVE n + 1 \in Done
  <2>1. PICK f : f = [at \in Below(n) |-> Layout(at, f)]
    BY <1>2
  <2> DEFINE g == [at \in Below(n + 1) |-> Layout(at, f)]
  <2>2. \A at \in Below(n) : g[at] = f[at]
    BY <2>1, RankFacts
  <2>3. ASSUME NEW at \in Below(n + 1) PROVE Layout(at, f) = Layout(at, g)
    <3>1. \A b \in Corners : Rank(b) < Rank(at) => b \in Below(n)
      BY RankFacts
    <3>2. \A b \in Corners : Rank(b) < Rank(at) => f[b] = g[b]
      BY <2>2, <3>1
    <3> HIDE DEF g
    <3> QED
      BY <3>2, LayoutLooksBack
  <2>4. g = [at \in Below(n + 1) |-> Layout(at, g)]
    <3> DEFINE h == [at \in Below(n + 1) |-> Layout(at, g)]
    <3>1. \A at \in Below(n + 1) : g[at] = h[at]
      BY <2>3
    <3> QED
      BY <3>1
  <2> HIDE DEF g, Below
  <2> QED
    BY <2>4
<1>3. Nat \subseteq Done
  <2> HIDE DEF Done
  <2> QED
    BY <1>1, <1>2, NatSetInduction
<1>4. Ranks \in Nat
  BY PlacesNat, TreeAssumption DEF Ranks
<1>5. Below(Ranks) = Corners
  BY RankFacts
<1>6. Ranks \in Done
  <2> HIDE DEF Done
  <2> QED
    BY <1>3, <1>4
<1> QED
  BY <1>5, <1>6

\* ... and flatten is one.
LEMMA FlattenIs ==
  ASSUME DataTyped
  PROVE  \A at \in Corners : flatten[at] = Layout(at, flatten)
<1>1. flatten = CHOOSE f : f = [at \in Corners |-> Layout(at, f)]
  BY Zenon DEF flatten, Corners, Holders, Layout
<1>2. flatten = [at \in Corners |-> Layout(at, flatten)]
  BY <1>1, LayoutExists, Zenon
<1> QED
  BY <1>2, Zenon

-------------------------------------------------------------------------------
(* What the layout shows, and in which order.                              *)

InOrder(s, R) == \A i, j \in 1..Len(s) : i < j => <<s[i], s[j]>> \in R

\* Two sequences, one after the other.
LEMMA ConcatFacts ==
  ASSUME NEW S, NEW R, NEW s \in Seq(S), NEW t \in Seq(S)
  PROVE  /\ s \o t \in Seq(S) /\ Range(s \o t) = Range(s) \cup Range(t)
         /\ InOrder(s, R) /\ InOrder(t, R) /\ (\A a \in Range(s), b \in Range(t) : <<a, b>> \in R)
              => InOrder(s \o t, R)
<1>1. /\ s \o t \in Seq(S) /\ Len(s \o t) = Len(s) + Len(t)
      /\ \A i \in 1..Len(s) + Len(t) : (s \o t)[i] = IF i <= Len(s) THEN s[i] ELSE t[i - Len(s)]
  BY ConcatProperties
<1>2. /\ Len(s) \in Nat /\ Len(t) \in Nat /\ DOMAIN s = 1..Len(s) /\ DOMAIN t = 1..Len(t)
      /\ DOMAIN (s \o t) = 1..Len(s) + Len(t)
  BY <1>1, LenProperties
<1> DEFINE st == s \o t
<1> HIDE DEF st
<1>3. /\ \A i \in 1..Len(s) : i \in DOMAIN st /\ st[i] = s[i]
      /\ \A i \in 1..Len(t) : i + Len(s) \in DOMAIN st /\ st[i + Len(s)] = t[i]
      /\ \A i \in DOMAIN st : \/ i \in 1..Len(s) /\ st[i] = s[i]
                              \/ i - Len(s) \in 1..Len(t) /\ st[i] = t[i - Len(s)]
  BY <1>1, <1>2 DEF st
<1>4. Range(st) = Range(s) \cup Range(t)
  <2>1. ASSUME NEW x \in Range(st) PROVE x \in Range(s) \cup Range(t)
    BY <1>2, <1>3, <2>1 DEF Range
  <2>2. ASSUME NEW x \in Range(s) PROVE x \in Range(st)
    BY <1>2, <1>3, <2>2 DEF Range
  <2>3. ASSUME NEW x \in Range(t) PROVE x \in Range(st)
    BY <1>2, <1>3, <2>3 DEF Range
  <2> QED
    BY <2>1, <2>2, <2>3
<1>5. ASSUME InOrder(s, R), InOrder(t, R), \A a \in Range(s), b \in Range(t) : <<a, b>> \in R
      PROVE  InOrder(st, R)
  <2> SUFFICES ASSUME NEW i \in DOMAIN st, NEW j \in DOMAIN st, i < j PROVE <<st[i], st[j]>> \in R
    BY <1>1, <1>2 DEF InOrder, st
  <2>1. i \in Nat /\ j \in Nat
    BY <1>1, <1>2 DEF st
  <2>2. CASE i \in 1..Len(s) /\ j \in 1..Len(s)
    BY <1>3, <1>5, <2>2 DEF InOrder
  <2>3. CASE i \in 1..Len(s) /\ j - Len(s) \in 1..Len(t) /\ ~(j \in 1..Len(s))
    <3>1. st[i] = s[i] /\ st[j] = t[j - Len(s)]
      BY <1>3, <2>3
    <3>2. s[i] \in Range(s) /\ t[j - Len(s)] \in Range(t)
      BY <1>2, <2>3 DEF Range
    <3> QED
      BY <1>5, <3>1, <3>2
  <2>4. CASE ~(i \in 1..Len(s))
    <3>1. i - Len(s) \in 1..Len(t) /\ st[i] = t[i - Len(s)] /\ ~(j \in 1..Len(s))
      BY <1>2, <1>3, <2>1, <2>4
    <3>2. j - Len(s) \in 1..Len(t) /\ st[j] = t[j - Len(s)]
      BY <1>3, <3>1
    <3>3. i - Len(s) < j - Len(s)
      BY <1>2, <2>1
    <3> QED
      BY <1>5, <3>1, <3>2, <3>3 DEF InOrder
  <2> QED
    BY <1>3, <2>2, <2>3, <2>4
<1> QED
  BY <1>1, <1>4, <1>5 DEF st

\* The place of a node in the directory of its first k names; what a directory shows
\* up to a place.
PlaceIn(n, k) == IF Pre(n, k + 1) \in Dirs THEN n[k + 1] ELSE MaxName + n[k + 1]
InDir(n, dir) == Len(dir) < Len(n) /\ Pre(n, Len(dir)) = dir
OpenBetween(n, k) == \A i \in (k + 1)..(Len(n) - 1) : Pre(n, i) \in expandedPaths
Under(dir, i) == {n \in TreeNodes : /\ Kept(n) /\ InDir(n, dir) /\ PlaceIn(n, Len(dir)) <= i
                                /\ OpenBetween(n, Len(dir))}

\* Every node has a place.
LEMMA PlaceBound ==
  ASSUME NEW n \in TreeNodes, NEW k \in 0..(Len(n) - 1)
  PROVE  PlaceIn(n, k) \in 1..Places
<1>1. Len(n) \in Nat \ {0} /\ n[k + 1] \in 1..MaxName
  BY NodeShape
<1> QED
  BY <1>1, PlacesNat DEF PlaceIn

\* A directory that holds something shown is shown.
LEMMA KeptUp ==
  ASSUME DataTyped, NEW n \in TreeNodes, Kept(n), NEW k \in 1..Len(n), Pre(n, k) \in Dirs
  PROVE  Kept(Pre(n, k))
<1>1. n \in Paths /\ Len(n) \in Nat \ {0}
  BY NodeShape
<1>2. CASE searchQuery = NoQuery
  BY <1>2 DEF Kept
<1>3. CASE n \in Dirs /\ searchQuery # NoQuery
  <2>1. PICK d \in treeDocs : IsPrefix(n, d) /\ Matches(d)
    BY <1>3 DEF Kept
  <2>2. d \in Paths /\ Len(d) \in Nat
    BY DocShape DEF DataTyped
  <2>3. Len(n) <= Len(d) /\ Pre(d, Len(n)) = n
    BY <1>1, <2>1, <2>2, PrefixMeans
  <2>4. Pre(n, k) = Pre(d, k)
    BY <1>1, <2>2, <2>3, PrefixOfPrefix
  <2>5. IsPrefix(Pre(n, k), d)
    BY <1>1, <2>2, <2>3, <2>4, PrefixMeans
  <2> QED
    BY <2>1, <2>5 DEF Kept
<1>4. CASE n \notin Dirs
  <2>1. n \in treeDocs /\ Matches(n)
    BY <1>4 DEF Kept
  <2>2. IsPrefix(Pre(n, k), n)
    BY <1>1, PrefixMeans
  <2> QED
    BY <2>1, <2>2 DEF Kept
<1> QED
  BY <1>2, <1>3, <1>4

\* A node that is shown is below the one at its place.
LEMMA AtPlace ==
  ASSUME DataTyped, NEW dir \in Holders, NEW i \in 1..Places,
         NEW n \in TreeNodes, Kept(n), InDir(n, dir), PlaceIn(n, Len(dir)) = i
  PROVE  /\ Kept(Order(dir, i)) /\ Order(dir, i) = Pre(n, Len(dir) + 1)
         /\ n # Order(dir, i) => Len(n) > Len(dir) + 1
<1> DEFINE k == Len(dir)
           name == n[k + 1]
           child == Pre(n, k + 1)
<1>1. /\ dir \in Paths /\ k \in Nat /\ n \in Paths /\ Len(n) \in Nat /\ k < Len(n)
      /\ name \in 1..MaxName /\ MaxName \in Nat \ {0} /\ Places = MaxName + MaxName
  BY HolderShape, NodeShape, PlacesNat DEF InDir
<1>2. child = Append(dir, name)
  BY <1>1, PrefixNext DEF InDir
<1>3. CASE child \in Dirs
  <2>1. i = name /\ ~(i > MaxName)
    BY <1>1, <1>3 DEF PlaceIn
  <2>2. Order(dir, i) = child
    BY <1>2, <1>3, <2>1 DEF Order
  <2>3. Kept(child)
    BY <1>1, <1>3, KeptUp
  <2>4. Len(n) = k + 1 => n = child
    BY <1>1, PrefixWhole
  <2> QED
    BY <1>1, <2>2, <2>3, <2>4
<1>4. CASE child \notin Dirs
  <2>1. Len(n) = k + 1
    BY <1>1, <1>4, PrefixIsDir
  <2>2. n = child
    BY <1>1, <2>1, PrefixWhole
  <2>3. n \in treeDocs
    BY <1>4, <2>2 DEF Kept
  <2>4. i = MaxName + name /\ i > MaxName /\ i - MaxName = name
    BY <1>1, <1>4 DEF PlaceIn
  <2>5. Order(dir, i) = child
    BY <1>2, <2>2, <2>3, <2>4 DEF Order
  <2> QED
    BY <2>2, <2>5
<1> QED
  BY <1>3, <1>4

\* The node at a place is in its directory, at that place.
LEMMA OrderPlace ==
  ASSUME DataTyped, NEW dir \in Holders, NEW i \in 1..Places, Kept(Order(dir, i))
  PROVE  /\ Order(dir, i) \in TreeNodes /\ InDir(Order(dir, i), dir)
         /\ PlaceIn(Order(dir, i), Len(dir)) = i /\ Len(Order(dir, i)) = Len(dir) + 1
<1> DEFINE node == Order(dir, i)
           name == IF i > MaxName THEN i - MaxName ELSE i
<1>1. /\ dir \in Paths /\ Len(dir) \in Nat /\ MaxName \in Nat \ {0} /\ i \in Nat
      /\ Places = MaxName + MaxName
  BY HolderShape, PlacesNat
<1>2. node \in TreeNodes /\ node = Append(dir, name) /\ name \in 1..MaxName /\ name \in Nat \ {0}
  BY <1>1, OrderIs
<1>3. /\ node \in Paths /\ Len(node) = Len(dir) + 1 /\ node # <<>> /\ Front(node) = dir
      /\ Last(node) = name
  BY <1>1, <1>2, AppendOf
<1>4. InDir(node, dir)
  BY <1>1, <1>3, PathOf DEF InDir
<1>5. Pre(node, Len(dir) + 1) = node
  BY <1>3, PrefixWhole
<1>6. i <= MaxName <=> node \in Dirs
  BY <1>1, OrderIs, DocShape DEF DataTyped
<1>7. PlaceIn(node, Len(dir)) = i
  BY <1>1, <1>3, <1>5, <1>6 DEF PlaceIn, Last
<1> QED
  BY <1>2, <1>3, <1>4, <1>7

\* What is inside the node at a place is in its directory, at that place.
LEMMA InsidePlace ==
  ASSUME DataTyped, NEW dir \in Holders, NEW i \in 1..Places, Kept(Order(dir, i)),
         NEW n \in TreeNodes, InDir(n, Order(dir, i))
  PROVE  InDir(n, dir) /\ PlaceIn(n, Len(dir)) = i
<1> DEFINE node == Order(dir, i)
<1>1. /\ node \in TreeNodes /\ node \in Paths /\ InDir(node, dir) /\ PlaceIn(node, Len(dir)) = i
      /\ Len(node) = Len(dir) + 1 /\ Len(dir) \in Nat /\ dir \in Paths
  BY OrderPlace, NodeShape, HolderShape
<1>2. n \in Paths /\ Len(n) \in Nat /\ Len(node) < Len(n) /\ Pre(n, Len(node)) = node
  BY NodeShape DEF InDir
<1>3. Len(node) \in 0..Len(n) /\ Len(dir) \in 0..Len(node) /\ Len(node) \in 1..Len(node)
  BY <1>1, <1>2
<1>4. Pre(n, Len(dir)) = Pre(node, Len(dir))
  BY <1>2, <1>3, PrefixOfPrefix
<1>5. InDir(n, dir)
  BY <1>1, <1>2, <1>4 DEF InDir
<1>6. n[Len(node)] = node[Len(node)] /\ Pre(node, Len(node)) = node
  BY <1>1, <1>2, <1>3, PrefixFacts, PrefixWhole
<1> QED
  BY <1>1, <1>2, <1>5, <1>6 DEF PlaceIn

\* Up to a place there is what was there up to the one before, the node at the place
\* and, if it is expanded, what is under it.
LEMMA UnderStep ==
  ASSUME DataTyped, NEW dir \in Holders, NEW i \in 1..Places
  PROVE  Under(dir, i) = Under(dir, i - 1) \cup
           (IF ~Kept(Order(dir, i)) THEN {}
            ELSE {Order(dir, i)} \cup (IF Order(dir, i) \in expandedPaths
                                         THEN Under(Order(dir, i), Places) ELSE {}))
<1> DEFINE node == Order(dir, i)
<1>1. dir \in Paths /\ Len(dir) \in Nat /\ Places \in Nat
  BY HolderShape, PlacesNat
<1>2. ASSUME NEW n \in Under(dir, i), n \notin Under(dir, i - 1)
      PROVE  /\ Kept(node)
             /\ n # node => node \in expandedPaths /\ n \in Under(node, Places)
  <2>1. /\ n \in TreeNodes /\ Kept(n) /\ InDir(n, dir) /\ PlaceIn(n, Len(dir)) <= i
        /\ OpenBetween(n, Len(dir)) /\ n \in Paths /\ Len(n) \in Nat /\ Len(dir) < Len(n)
    BY <1>2, NodeShape DEF Under, InDir
  <2>2. PlaceIn(n, Len(dir)) \in 1..Places
    BY <1>1, <2>1, PlaceBound
  <2>3. PlaceIn(n, Len(dir)) = i
    <3>1. ~(PlaceIn(n, Len(dir)) <= i - 1)
      BY <1>2, <2>1 DEF Under
    <3> QED
      BY <2>1, <2>2, <3>1
  <2>4. /\ Kept(node) /\ node = Pre(n, Len(dir) + 1)
        /\ n # node => Len(n) > Len(dir) + 1
    BY <2>1, <2>3, AtPlace
  <2>5. ASSUME n # node PROVE node \in expandedPaths /\ n \in Under(node, Places)
    <3>1. Len(dir) + 1 \in (Len(dir) + 1)..(Len(n) - 1) /\ Len(dir) + 1 \in 0..Len(n)
      BY <1>1, <2>1, <2>4, <2>5
    <3>2. node \in expandedPaths
      BY <2>1, <2>4, <3>1 DEF OpenBetween
    <3>3. Len(node) = Len(dir) + 1
      BY <2>1, <2>4, <3>1, PrefixFacts
    <3>4. InDir(n, node)
      BY <2>4, <2>5, <3>3 DEF InDir
    <3>5. PlaceIn(n, Len(node)) <= Places
      <4>1. Len(node) \in 0..(Len(n) - 1)
        BY <3>1, <3>3, <1>1
      <4> QED
        BY <2>1, <4>1, PlaceBound, <1>1
    <3>6. OpenBetween(n, Len(node))
      BY <1>1, <2>1, <3>3 DEF OpenBetween
    <3> QED
      BY <2>1, <3>2, <3>4, <3>5, <3>6 DEF Under
  <2> QED
    BY <2>4, <2>5
<1>3. ASSUME NEW n \in Under(dir, i - 1) PROVE n \in Under(dir, i)
  <2>1. PlaceIn(n, Len(dir)) \in 1..Places
    BY <1>1, <1>3, NodeShape, PlaceBound DEF Under, InDir
  <2> QED
    BY <1>3, <2>1 DEF Under
<1>4. ASSUME Kept(node) PROVE node \in Under(dir, i)
  BY <1>1, <1>4, OrderPlace DEF Under, OpenBetween
<1>5. ASSUME Kept(node), node \in expandedPaths, NEW n \in Under(node, Places)
      PROVE  n \in Under(dir, i)
  <2>1. /\ node \in TreeNodes /\ node \in Paths /\ InDir(node, dir)
        /\ PlaceIn(node, Len(dir)) = i /\ Len(node) = Len(dir) + 1
    BY <1>5, OrderPlace, NodeShape
  <2>2. /\ n \in TreeNodes /\ Kept(n) /\ n \in Paths /\ Len(n) \in Nat /\ Len(node) < Len(n)
        /\ Pre(n, Len(node)) = node /\ OpenBetween(n, Len(node))
    BY <1>5, NodeShape DEF Under, InDir
  <2>3. InDir(n, dir) /\ PlaceIn(n, Len(dir)) = i
    BY <1>5, <2>2, InsidePlace DEF InDir
  <2>4. OpenBetween(n, Len(dir))
    <3> SUFFICES ASSUME NEW j \in (Len(dir) + 1)..(Len(n) - 1) PROVE Pre(n, j) \in expandedPaths
      BY DEF OpenBetween
    <3>1. CASE j = Len(node)
      BY <1>5, <2>2, <3>1
    <3>2. CASE j # Len(node)
      <4>1. j \in (Len(node) + 1)..(Len(n) - 1)
        BY <1>1, <2>1, <3>2
      <4> QED
        BY <2>2, <4>1 DEF OpenBetween
    <3> QED
      BY <3>1, <3>2
  <2>5. i <= i
    BY <1>1
  <2> QED
    BY <2>2, <2>3, <2>4, <2>5 DEF Under
<1> HIDE DEF node
<1>6. Under(dir, i) = Under(dir, i - 1) \cup
        (IF ~Kept(node) THEN {}
         ELSE {node} \cup (IF node \in expandedPaths THEN Under(node, Places) ELSE {}))
  BY <1>2, <1>3, <1>4, <1>5
<1> QED
  BY <1>6 DEF node

\* Before the first place there is nothing.
LEMMA UnderNone ==
  ASSUME NEW dir \in Holders PROVE Under(dir, 0) = {}
<1> SUFFICES ASSUME NEW n \in Under(dir, 0) PROVE FALSE
  OBVIOUS
<1>1. n \in TreeNodes /\ Len(dir) < Len(n) /\ PlaceIn(n, Len(dir)) <= 0
  BY DEF Under, InDir
<1>2. PlaceIn(n, Len(dir)) \in 1..Places
  BY <1>1, HolderShape, NodeShape, PlaceBound
<1> QED
  BY <1>1, <1>2, PlacesNat

\* Before, once it is known how long the paths agree.
LEMMA BeforeAt ==
  ASSUME NEW a \in Paths, NEW b \in Paths, NEW k \in 0..Len(a), k <= Len(b),
         Pre(a, k) = Pre(b, k),
         k < Len(a) /\ k < Len(b) => Pre(a, k + 1) # Pre(b, k + 1),
         \/ k = Len(a)
         \/ /\ k < Len(b)
            /\ IF (Pre(a, k + 1) \in Dirs) = (Pre(b, k + 1) \in Dirs)
                 THEN a[k + 1] < b[k + 1] ELSE Pre(a, k + 1) \in Dirs
  PROVE  Before(a, b)
<1> DEFINE shared == {i \in 0..Len(a) : IsPrefix(SubSeq(a, 1, i), b)}
           most == CHOOSE i \in shared : \A j \in shared : j <= i
<1>1. Len(a) \in Nat /\ Len(b) \in Nat /\ k \in Nat
  BY DEF Paths
<1>2. \A i \in 0..Len(a) : i \in shared <=> (i <= Len(b) /\ Pre(b, i) = Pre(a, i))
  <2> SUFFICES ASSUME NEW i \in 0..Len(a)
               PROVE IsPrefix(Pre(a, i), b) <=> (i <= Len(b) /\ Pre(b, i) = Pre(a, i))
    BY DEF Pre
  <2> QED
    BY PrefixFacts, PrefixMeans
<1>3. k \in shared
  BY <1>1, <1>2
<1>4. \A j \in shared : j <= k
  <2> SUFFICES ASSUME NEW j \in shared, k < j PROVE FALSE
    BY <1>1
  <2>1. j \in 0..Len(a) /\ j <= Len(b) /\ Pre(b, j) = Pre(a, j)
    BY <1>2
  <2>2. k + 1 \in 0..j /\ k < Len(a) /\ k < Len(b) /\ j \in 0..Len(b)
    BY <1>1, <2>1
  <2>3. Pre(a, k + 1) = Pre(Pre(a, j), k + 1) /\ Pre(b, k + 1) = Pre(Pre(b, j), k + 1)
    BY <2>1, <2>2, PrefixOfPrefix
  <2> QED
    BY <2>1, <2>2, <2>3
<1>5. most = k
  <2>1. most \in shared /\ \A j \in shared : j <= most
    BY <1>3, <1>4
  <2> QED
    BY <1>1, <1>3, <1>4, <2>1
<1> QED
  BY <1>5 DEF Before, Pre

\* A directory is before what it holds.
LEMMA BeforeInside ==
  ASSUME NEW a \in Paths, NEW b \in Paths, InDir(b, a)
  PROVE  Before(a, b)
<1>1. Len(a) \in Nat /\ Len(b) \in Nat /\ Len(a) \in 0..Len(a) /\ Pre(a, Len(a)) = a
  BY PrefixWhole DEF Paths
<1> QED
  BY <1>1, BeforeAt DEF InDir

\* What is at a lower place is before what is at a higher one.
LEMMA BeforeBeside ==
  ASSUME NEW a \in TreeNodes, NEW b \in TreeNodes, NEW dir \in Holders, InDir(a, dir), InDir(b, dir),
         PlaceIn(a, Len(dir)) < PlaceIn(b, Len(dir))
  PROVE  Before(a, b)
<1> DEFINE k == Len(dir)
<1>1. /\ a \in Paths /\ b \in Paths /\ k \in Nat /\ Len(a) \in Nat /\ Len(b) \in Nat
      /\ k < Len(a) /\ k < Len(b) /\ Pre(a, k) = dir /\ Pre(b, k) = dir
      /\ a[k + 1] \in 1..MaxName /\ b[k + 1] \in 1..MaxName /\ MaxName \in Nat
  BY NodeShape, HolderShape, PlacesNat DEF InDir
<1>2. Pre(a, k + 1) # Pre(b, k + 1)
  <2> SUFFICES ASSUME Pre(a, k + 1) = Pre(b, k + 1) PROVE FALSE
    OBVIOUS
  <2>1. k + 1 \in 0..Len(a) /\ k + 1 \in 0..Len(b) /\ k + 1 \in 1..(k + 1)
    BY <1>1
  <2>2. Pre(a, k + 1)[k + 1] = a[k + 1]
    BY <1>1, <2>1, PrefixFacts
  <2>3. Pre(b, k + 1)[k + 1] = b[k + 1]
    BY <1>1, <2>1, PrefixFacts
  <2> QED
    BY <1>1, <2>2, <2>3 DEF PlaceIn
<1>3. IF (Pre(a, k + 1) \in Dirs) = (Pre(b, k + 1) \in Dirs)
        THEN a[k + 1] < b[k + 1] ELSE Pre(a, k + 1) \in Dirs
  BY <1>1 DEF PlaceIn
<1>4. k \in 0..Len(a) /\ k <= Len(b)
  BY <1>1
<1> QED
  BY <1>1, <1>2, <1>3, <1>4, BeforeAt

BeforePairs == {p \in TreeNodes \X TreeNodes : Before(p[1], p[2])}

\* A sequence of one node.
LEMMA ShortFacts ==
  ASSUME NEW S, NEW R, NEW x \in S
  PROVE  /\ <<x>> \in Seq(S) /\ Range(<<x>>) = {x} /\ InOrder(<<x>>, R)
  BY DEF Range, InOrder

\* What a directory shows up to a place: the nodes under it, in order.
Shows(at) == /\ flatten[at] \in Seq(TreeNodes)
             /\ Range(flatten[at]) = Under(at[1], at[2])
             /\ InOrder(flatten[at], BeforePairs)

\* A place shows what it should if those of a lower rank do.
LEMMA ShowsNext ==
  ASSUME DataTyped, NEW at \in Corners, at[2] # 0,
         \A b \in Corners : Rank(b) < Rank(at) => Shows(b)
  PROVE  Shows(at)
<1> DEFINE dir == at[1]
           i == at[2]
           node == Order(dir, i)
           left == flatten[<<dir, i - 1>>]
           here == IF ~Kept(node) THEN <<>>
                   ELSE IF node \in expandedPaths THEN <<node>> \o flatten[<<node, Places>>]
                   ELSE <<node>>
           new == IF ~Kept(node) THEN {}
                  ELSE {node} \cup (IF node \in expandedPaths THEN Under(node, Places) ELSE {})
<1>1. dir \in Holders /\ i \in 1..Places /\ i \in Nat
  BY PlacesNat DEF Corners
<1>2. flatten[at] = left \o here
  BY FlattenIs DEF Layout
<1>3. /\ left \in Seq(TreeNodes) /\ Range(left) = Under(dir, i - 1) /\ InOrder(left, BeforePairs)
  BY RankLeft DEF Shows
<1>4. Under(dir, i) = Under(dir, i - 1) \cup new
  BY <1>1, UnderStep
<1>5. ASSUME Kept(node)
      PROVE  /\ node \in TreeNodes /\ InDir(node, dir) /\ PlaceIn(node, Len(dir)) = i
             /\ Len(node) = Len(dir) + 1
  BY <1>1, <1>5, OrderPlace
<1>6. here \in Seq(TreeNodes) /\ Range(here) = new /\ InOrder(here, BeforePairs)
  <2>1. CASE ~Kept(node)
    <3>1. here = <<>> /\ new = {}
      BY <2>1
    <3>2. /\ <<>> \in Seq(TreeNodes) /\ Range(<<>>) = {} /\ InOrder(<<>>, BeforePairs)
      BY DEF Range, InOrder
    <3> HIDE DEF here, new, node
    <3> QED
      BY <3>1, <3>2, Zenon
  <2>2. CASE Kept(node) /\ node \notin expandedPaths
    <3>1. here = <<node>> /\ new = {node} /\ node \in TreeNodes
      BY <1>5, <2>2
    <3> HIDE DEF here, new, node
    <3>2. /\ <<node>> \in Seq(TreeNodes) /\ Range(<<node>>) = {node}
          /\ InOrder(<<node>>, BeforePairs)
      BY <3>1, ShortFacts
    <3> QED
      BY <3>1, <3>2, Zenon
  <2>3. CASE Kept(node) /\ node \in expandedPaths
    <3> DEFINE below == flatten[<<node, Places>>]
    <3>1. here = <<node>> \o below /\ new = {node} \cup Under(node, Places)
      BY <2>3
    <3>2. node \in TreeNodes /\ node \in Dirs /\ Len(node) = Len(at[1]) + 1
      BY <1>5, <2>3 DEF DataTyped
    <3>3. <<node, Places>> \in Corners /\ Rank(<<node, Places>>) < Rank(at)
      BY <3>2, RankDown
    <3>4. /\ below \in Seq(TreeNodes) /\ Range(below) = Under(node, Places)
          /\ InOrder(below, BeforePairs)
      BY <3>3 DEF Shows
    <3>5. ASSUME NEW b \in Under(node, Places) PROVE <<node, b>> \in BeforePairs
      <4>1. b \in TreeNodes /\ InDir(b, node)
        BY DEF Under
      <4> QED
        BY <3>2, <4>1, NodeShape, BeforeInside DEF BeforePairs
    <3> HIDE DEF here, new, node, below
    <3>6. /\ <<node>> \in Seq(TreeNodes) /\ Range(<<node>>) = {node}
          /\ InOrder(<<node>>, BeforePairs)
      BY <3>2, ShortFacts
    <3> DEFINE first == <<node>>
    <3>7. /\ first \in Seq(TreeNodes) /\ Range(first) = {node} /\ InOrder(first, BeforePairs)
          /\ here = first \o below
      BY <3>1, <3>6
    <3> HIDE DEF first
    <3>8. \A a \in Range(first), b \in Range(below) : <<a, b>> \in BeforePairs
      BY <3>4, <3>5, <3>7
    <3>9. /\ first \o below \in Seq(TreeNodes)
          /\ Range(first \o below) = Range(first) \cup Range(below)
          /\ InOrder(first \o below, BeforePairs)
      BY <3>4, <3>7, <3>8, ConcatFacts
    <3> QED
      BY <3>1, <3>4, <3>7, <3>9, Zenon
  <2> QED
    BY <2>1, <2>2, <2>3
<1>7. ASSUME NEW a \in Under(dir, i - 1), NEW b \in new PROVE <<a, b>> \in BeforePairs
  <2>1. Kept(node) /\ (b = node \/ b \in Under(node, Places))
    BY <1>7
  <2>2. b \in TreeNodes /\ InDir(b, dir) /\ PlaceIn(b, Len(dir)) = i
    <3>1. CASE b = node
      BY <1>5, <2>1, <3>1
    <3>2. CASE b \in Under(node, Places)
      BY <1>1, <2>1, <3>2, InsidePlace DEF Under
    <3> QED
      BY <2>1, <3>1, <3>2
  <2>3. /\ a \in TreeNodes /\ InDir(a, dir) /\ PlaceIn(a, Len(dir)) \in 1..Places
        /\ PlaceIn(a, Len(dir)) <= i - 1
    BY <1>1, <1>7, HolderShape, NodeShape, PlaceBound DEF Under, InDir
  <2>4. Before(a, b)
    BY <1>1, <2>2, <2>3, BeforeBeside
  <2> QED
    BY <2>2, <2>3, <2>4 DEF BeforePairs
<1> HIDE DEF here, new, left, node
<1>8. /\ left \o here \in Seq(TreeNodes) /\ Range(left \o here) = Under(dir, i)
      /\ InOrder(left \o here, BeforePairs)
  BY <1>3, <1>4, <1>6, <1>7, ConcatFacts
<1> QED
  BY <1>2, <1>8 DEF Shows

\* Every place shows what it should.
LEMMA AllShow ==
  ASSUME DataTyped
  PROVE  \A at \in Corners : Shows(at)
<1> DEFINE Good == {at \in Corners : Shows(at)}
<1>1. ASSUME NEW at \in Corners, \A b \in Corners : Rank(b) < Rank(at) => b \in Good
      PROVE  at \in Good
  <2>1. CASE at[2] = 0
    <3>1. flatten[at] = <<>>
      BY <2>1, FlattenIs DEF Layout
    <3>2. at[1] \in Holders /\ Under(at[1], at[2]) = {}
      BY <2>1, UnderNone DEF Corners
    <3>3. <<>> \in Seq(TreeNodes) /\ Range(<<>>) = {} /\ InOrder(<<>>, BeforePairs)
      BY DEF Range, InOrder
    <3> QED
      BY <3>1, <3>2, <3>3 DEF Shows
  <2>2. CASE at[2] # 0
    BY <1>1, <2>2, ShowsNext
  <2> QED
    BY <2>1, <2>2
<1>2. Corners \subseteq Good
  <2> HIDE DEF Good
  <2> QED
    BY <1>1, RankInduction
<1> QED
  BY <1>2

\* What is on the screen, and in which order.
LEMMA ScreenIs ==
  ASSUME DataTyped
  PROVE  /\ flatNodes \in Seq(TreeNodes) /\ OnScreen = Under(Root, Places)
         /\ \A i, j \in DOMAIN flatNodes : i < j => Before(flatNodes[i], flatNodes[j])
<1>1. <<Root, Places>> \in Corners
  BY PlacesNat DEF Corners, Holders
<1>2. /\ flatNodes \in Seq(TreeNodes) /\ OnScreen = Under(Root, Places)
      /\ InOrder(flatNodes, BeforePairs)
  BY <1>1, AllShow DEF Shows, flatNodes, OnScreen
<1>3. DOMAIN flatNodes = 1..Len(flatNodes)
  BY <1>2
<1> QED
  BY <1>2, <1>3 DEF InOrder, BeforePairs

\* With nothing under way that is not expected to be seen, the tree is the server's.
LEMMA FreshTreeShows ==
  ASSUME DataTyped, docs \subseteq Docs, treeDocs = docs
  PROVE  TreeShowsDocuments
<1> DEFINE visible(n) ==
             /\ \A i \in 1..(Len(n) - 1) : SubSeq(n, 1, i) \in expandedPaths
             /\ \/ searchQuery = NoQuery
                \/ \E d \in docs : Last(d) \in searchQuery /\ (d = n \/ (n \in Dirs /\ IsPrefix(n, d)))
<1>1. /\ OnScreen = Under(Root, Places)
      /\ \A i, j \in DOMAIN flatNodes : i < j => Before(flatNodes[i], flatNodes[j])
  BY ScreenIs
<1>2. Dirs \cup docs \subseteq TreeNodes
  BY DEF TreeNodes
<1>3. ASSUME NEW n \in TreeNodes PROVE n \in Under(Root, Places) <=> (n \in Dirs \cup docs /\ visible(n))
  <2>1. Len(n) \in Nat \ {0} /\ n \in Paths /\ Len(Root) = 0 /\ Places \in Nat
    BY NodeShape, PlacesNat DEF Root
  <2>2. Pre(n, 0) = Root
    BY <2>1, SubSeqEmpty DEF Pre, Root
  <2>3. InDir(n, Root) /\ PlaceIn(n, Len(Root)) <= Places
    BY <2>1, <2>2, PlaceBound DEF InDir
  <2>4. n \in Under(Root, Places) <=> Kept(n) /\ OpenBetween(n, 0)
    BY <2>1, <2>3 DEF Under
  <2>5. OpenBetween(n, 0) <=> \A i \in 1..(Len(n) - 1) : SubSeq(n, 1, i) \in expandedPaths
    BY DEF OpenBetween, Pre
  <2>6. Kept(n) <=> /\ n \in Dirs \cup docs
                    /\ \/ searchQuery = NoQuery
                       \/ \E d \in docs : /\ Last(d) \in searchQuery
                                          /\ d = n \/ (n \in Dirs /\ IsPrefix(n, d))
    <3>1. CASE n \in Dirs
      <4>1. n \notin docs
        BY <3>1, DocShape
      <4>2. Kept(n) <=> (searchQuery = NoQuery \/ \E d \in docs : IsPrefix(n, d) /\ Matches(d))
        BY <3>1 DEF Kept
      <4>3. CASE searchQuery = NoQuery
        BY <3>1, <4>2, <4>3
      <4>4. CASE searchQuery # NoQuery
        <5>1. Kept(n) <=> \E d \in docs : IsPrefix(n, d) /\ Last(d) \in searchQuery
          BY <4>2, <4>4 DEF Matches
        <5> QED
          BY <3>1, <4>1, <4>4, <5>1
      <4> QED
        BY <4>3, <4>4
    <3>2. CASE n \notin Dirs
      BY <3>2 DEF Kept, Matches
    <3> QED
      BY <3>1, <3>2
  <2> QED
    BY <2>4, <2>5, <2>6
<1>4. Under(Root, Places) = {n \in Dirs \cup docs : visible(n)}
  <2>1. Under(Root, Places) \subseteq TreeNodes
    BY DEF Under
  <2> HIDE DEF visible
  <2> QED
    BY <1>2, <1>3, <2>1
<1> QED
  BY <1>1, <1>4 DEF TreeShowsDocuments

-------------------------------------------------------------------------------
(* The invariant of the tree.                                              *)

\* The calls of the toolbar and the dialogs.
JobRecords == [op : {"create", "delete", "move", "bulkReindex", "reindex"},
               paths : SUBSET Docs, into : Holders, stage : {"sent", "done", "refused"}]

\* The types the arguments need; only a creation is refused.
ServedTypes == docs \subseteq Docs /\ treeNotices \in Nat /\ changes \in 0..MaxChanges
QueryTypes == /\ treeDocs \subseteq Docs /\ treeRead \subseteq Docs
              /\ treeFetch \in {"idle", "asked", "read"}
LookTypes == /\ expandedPaths \subseteq Dirs /\ searchQuery \in Queries \cup {NoQuery}
             /\ focusedPath \in Dirs \cup Docs \cup {NoPath}
WorkTypes == /\ selectedPaths \subseteq Docs
             /\ dialog \in {"none", "create", "delete", "move", "reindex", "reindexing",
                            "reindexed"}
             /\ jobs \subseteq JobRecords
             /\ \A j \in jobs : j.stage = "refused" => j.op = "create"
FlagsTyped == treeLoaded \in BOOLEAN /\ unseen \in BOOLEAN /\ operating \in BOOLEAN

\* What the tree will still learn of, or may never: an event on its way, a bulk
\* call whose answer refetches, or something unseen.
TreeBehind == treeNotices > 0 \/ unseen \/ \E j \in jobs : j.op \in {"delete", "move"}
FreshTree == /\ (treeLoaded /\ treeFetch = "idle") => treeDocs = docs \/ TreeBehind
             /\ treeFetch = "read" => treeRead = docs \/ TreeBehind
TreeInv == ServedTypes /\ QueryTypes /\ LookTypes /\ WorkTypes /\ FlagsTyped /\ FreshTree

\* The first state.
LEMMA TreeFirst == TreeInit => TreeInv
<1> SUFFICES ASSUME TreeInit PROVE TreeInv
  OBVIOUS
<1> USE DEF TreeInit
<1>1. ServedTypes
  BY FirstShape, TreeAssumption DEF ServedTypes
<1>2. QueryTypes /\ LookTypes /\ WorkTypes /\ FlagsTyped
  BY DEF QueryTypes, LookTypes, WorkTypes, FlagsTyped
<1>3. FreshTree
  BY DEF FreshTree
<1> QED
  BY <1>1, <1>2, <1>3 DEF TreeInv

\* What changes only what is looked at.
LEMMA LookKeeps ==
  ASSUME TreeInv, UNCHANGED <<docs, treeQuery, treeNotices, treeWork, changes, unseen>>, LookTypes'
  PROVE  TreeInv'
<1>1. UNCHANGED <<docs, treeDocs, treeLoaded, treeFetch, treeRead, treeNotices, selectedPaths,
                  operating, dialog, jobs, changes, unseen>>
  BY DEF treeQuery, treeWork
<1>2. ServedTypes' /\ QueryTypes' /\ WorkTypes' /\ FlagsTyped'
  BY <1>1 DEF TreeInv, ServedTypes, QueryTypes, WorkTypes, FlagsTyped
<1>3. FreshTree'
  BY <1>1 DEF TreeInv, FreshTree, TreeBehind
<1> QED
  BY <1>2, <1>3 DEF TreeInv

\* Fetching again promises nothing but what is unseen.
LEMMA RefetchKeeps ==
  ASSUME QueryTypes, treeLoaded \in BOOLEAN, unseen \in BOOLEAN, Refetch
  PROVE  /\ QueryTypes' /\ treeLoaded' \in BOOLEAN /\ unseen' \in BOOLEAN
         /\ unseen => unseen'
         /\ treeFetch' = "idle" => FALSE
         /\ treeFetch' = "read" => unseen'
<1>1. CASE treeLoaded \/ treeFetch = "idle"
  BY <1>1 DEF Refetch, QueryTypes
<1>2. CASE ~(treeLoaded \/ treeFetch = "idle")
  BY <1>2 DEF Refetch, QueryTypes
<1> QED
  BY <1>1, <1>2

\* The query, what others do, and opening directories.
LEMMA BrowseKeeps ==
  ASSUME TreeInv, BrowseNext
  PROVE  TreeInv'
<1> USE DEF TreeInv, ServedTypes, QueryTypes, WorkTypes, FlagsTyped, FreshTree, TreeBehind,
            treeQuery, treeView, treeWork
<1>1. CASE ReadTree
  BY <1>1 DEF ReadTree, LookTypes
<1>2. CASE TreeArrives
  BY <1>2 DEF TreeArrives, LookTypes
<1>3. CASE TreeFails
  BY <1>3, TreeAssumption DEF TreeFails, Change, LookTypes
<1>4. CASE TreeNotified
  <2>1. /\ QueryTypes' /\ treeLoaded' \in BOOLEAN /\ unseen' \in BOOLEAN
        /\ treeFetch' # "idle" /\ (treeFetch' = "read" => unseen')
    BY <1>4, RefetchKeeps DEF TreeNotified
  <2> QED
    BY <1>4, <2>1 DEF TreeNotified, LookTypes
<1>5. CASE NoticeLost
  BY <1>5, TreeAssumption DEF NoticeLost, Change, LookTypes
<1>6. CASE \E dir \in Dirs : ClickDirectory(dir)
  <2>1. LookTypes'
    BY <1>6 DEF ClickDirectory, ToggleExpand, LookTypes
  <2>2. UNCHANGED <<docs, treeQuery, treeNotices, treeWork, changes, unseen>>
    BY <1>6 DEF ClickDirectory, ViewOnly
  <2> QED
    BY <2>1, <2>2, LookKeeps
<1>7. CASE \E path \in Docs : OthersChange(path)
  <2> PICK path \in Docs : OthersChange(path)
    BY <1>7
  <2>1. docs' \subseteq Docs /\ changes' \in 0..MaxChanges
    BY TreeAssumption DEF OthersChange, Change
  <2>2. treeNotices' \in Nat /\ unseen' \in BOOLEAN /\ (treeNotices' > 0 \/ unseen')
    <3>1. CASE treeNotices' = treeNotices + 1 /\ unseen' = unseen
      BY <3>1
    <3>2. CASE unseen' = TRUE /\ treeNotices' = treeNotices
      BY <3>2
    <3> QED
      BY <3>1, <3>2 DEF OthersChange
  <2> QED
    BY <2>1, <2>2 DEF OthersChange, LookTypes
<1> QED
  BY <1>1, <1>2, <1>3, <1>4, <1>5, <1>6, <1>7 DEF BrowseNext

\* The keys move along what is shown.
LEMMA KeyKeeps ==
  ASSUME TreeInv, KeyNext
  PROVE  TreeInv'
<1>1. DataTyped
  BY DEF TreeInv, QueryTypes, LookTypes, DataTyped
<1>2. CASE \E query \in Queries \cup {NoQuery} : Search(query)
  <2>1. LookTypes' /\ UNCHANGED <<docs, treeQuery, treeNotices, treeWork, changes, unseen>>
    BY <1>2 DEF TreeInv, Search, ViewOnly, LookTypes
  <2> QED
    BY <2>1, LookKeeps
<1>3. CASE \E key \in TreeKeys : Key(key)
  <2> PICK key \in TreeKeys : Key(key)
    BY <1>3
  <2> DEFINE nodes == flatNodes
             shown == {i \in DOMAIN nodes : nodes[i] = focusedPath}
             at == IF shown = {} THEN 0 ELSE CHOOSE i \in shown : TRUE
             last == Len(nodes)
             onDir == at # 0 /\ focusedPath \in Dirs
  <2>1. /\ nodes \in Seq(TreeNodes) /\ DOMAIN nodes = 1..last /\ last \in Nat
        /\ \A i \in 1..last : nodes[i] \in Dirs \cup Docs
    <3>1. nodes \in Seq(TreeNodes)
      BY <1>1, ScreenIs
    <3> HIDE DEF nodes
    <3>2. DOMAIN nodes = 1..Len(nodes) /\ Len(nodes) \in Nat /\ \A i \in 1..Len(nodes) : nodes[i] \in TreeNodes
      BY <3>1, LenProperties, ElementOfSeq
    <3> QED
      BY <3>1, <3>2 DEF TreeNodes
  <2>2. at # 0 => at \in DOMAIN nodes /\ nodes[at] = focusedPath
    <3> HIDE DEF nodes
    <3> QED
      OBVIOUS
  <2>3. at # 0 => focusedPath \in Dirs \cup Docs /\ Front(focusedPath) \in Dirs \cup {Root}
    <3>1. at # 0 => focusedPath \in Dirs \cup Docs
      BY <2>1, <2>2
    <3> HIDE DEF at
    <3> QED
      BY <3>1, DirShape, DocShape DEF Holders
  <2>4. /\ nodes # <<>>
        /\ \/ \E i \in 1..last : Focus(nodes[i])
           \/ onDir /\ ToggleExpand(focusedPath)
           \/ at # 0 /\ Front(focusedPath) # Root /\ Focus(Front(focusedPath))
    <3>1. nodes # <<>> /\ UNCHANGED searchQuery
      BY DEF Key
    <3>2. at \in 0..last /\ last \in Nat \ {0} /\ 1 \in 1..last
      <4> HIDE DEF nodes
      <4>1. last # 0
        BY <2>1, <3>1
      <4>2. at = 0 \/ at \in 1..last
        BY <2>1, <2>2
      <4> QED
        BY <2>1, <4>1, <4>2
    <3> HIDE DEF nodes, at, last
    <3>3. (IF at < last THEN at + 1 ELSE 1) \in 1..last /\ (IF at > 1 THEN at - 1 ELSE last) \in 1..last
          /\ (at < last => at + 1 \in 1..last) /\ last \in 1..last
      BY <3>2
    <3> QED
      BY <3>1, <3>2, <3>3 DEF Key, nodes, at, last
  <2>5. UNCHANGED searchQuery /\ UNCHANGED <<docs, treeQuery, treeNotices, treeWork, changes, unseen>>
    BY DEF Key, ViewOnly
  <2>6. LookTypes'
    <3> HIDE DEF nodes, at, last
    <3>1. CASE \E i \in 1..last : Focus(nodes[i])
      BY <2>1, <2>5, <3>1 DEF Focus, LookTypes, TreeInv
    <3>2. CASE onDir /\ ToggleExpand(focusedPath)
      BY <2>5, <3>2 DEF ToggleExpand, LookTypes, TreeInv
    <3>3. CASE at # 0 /\ Front(focusedPath) # Root /\ Focus(Front(focusedPath))
      BY <2>3, <2>5, <3>3 DEF Focus, LookTypes, TreeInv
    <3> QED
      BY <2>4, <3>1, <3>2, <3>3
  <2> QED
    BY <2>5, <2>6, LookKeeps
<1> QED
  BY <1>2, <1>3 DEF KeyNext

\* What leaves the documents, the tree and the calls alone.
LEMMA WorkKeeps ==
  ASSUME TreeInv, UNCHANGED <<docs, treeQuery, treeNotices, treeView, changes, unseen>>,
         WorkTypes', operating' \in BOOLEAN, jobs' = jobs
  PROVE  TreeInv'
<1>1. UNCHANGED <<docs, treeDocs, treeLoaded, treeFetch, treeRead, treeNotices, expandedPaths,
                  searchQuery, focusedPath, changes, unseen>>
  BY DEF treeQuery, treeView
<1>2. ServedTypes' /\ QueryTypes' /\ LookTypes' /\ FlagsTyped'
  BY <1>1 DEF TreeInv, ServedTypes, QueryTypes, LookTypes, FlagsTyped
<1>3. FreshTree'
  BY <1>1 DEF TreeInv, FreshTree, TreeBehind
<1> QED
  BY <1>2, <1>3 DEF TreeInv

\* A call is made: it changes nothing yet.
LEMMA CallKeeps ==
  ASSUME TreeInv, NEW op \in {"create", "delete", "move", "bulkReindex", "reindex"},
         NEW paths \in SUBSET Docs, NEW into \in Holders, Call(op, paths, into),
         UNCHANGED <<operating, dialog>>
         \/ (operating' = TRUE /\ UNCHANGED dialog)
         \/ (dialog' = "reindexing" /\ UNCHANGED operating)
  PROVE  TreeInv'
<1> DEFINE job == [op |-> op, paths |-> paths, into |-> into, stage |-> "sent"]
<1>1. job \in JobRecords /\ job.stage # "refused"
  BY DEF JobRecords
<1>2. /\ UNCHANGED <<docs, treeDocs, treeLoaded, treeFetch, treeRead, treeNotices, expandedPaths,
                     searchQuery, focusedPath, selectedPaths, unseen>>
      /\ jobs' = jobs \cup {job} /\ Change
  BY DEF Call, treeQuery, treeView
<1> HIDE DEF job
<1>3. ServedTypes' /\ QueryTypes' /\ LookTypes'
  BY <1>2, TreeAssumption DEF Change, TreeInv, ServedTypes, QueryTypes, LookTypes
<1>4. WorkTypes' /\ FlagsTyped'
  BY <1>1, <1>2 DEF TreeInv, WorkTypes, FlagsTyped
<1>5. FreshTree'
  BY <1>2 DEF TreeInv, FreshTree, TreeBehind
<1> QED
  BY <1>3, <1>4, <1>5 DEF TreeInv

\* bulk-move keeps documents documents.
LEMMA MovedAreDocs ==
  ASSUME docs \subseteq Docs, NEW paths, NEW into \in Holders, MoveAll(paths, into)
  PROVE  docs' \subseteq Docs
<1>1. PICK moved \in SUBSET docs : docs' = (docs \ moved) \cup {Append(into, Last(d)) : d \in moved}
  BY DEF MoveAll
<1>2. \A d \in moved : Append(into, Last(d)) \in Docs
  BY DocShape DEF Docs, Holders
<1> QED
  BY <1>1, <1>2

\* The server handles a call: of what it changes, the tree is told or will refetch.
LEMMA HandleKeeps ==
  ASSUME TreeInv, NEW j \in jobs, HandleJob(j)
  PROVE  TreeInv'
<1> DEFINE refused == j.op = "create" /\ j.paths \subseteq docs
           after == [j EXCEPT !.stage = IF refused THEN "refused" ELSE "done"]
<1>1. j \in JobRecords
  BY DEF TreeInv, WorkTypes
<1>2. /\ after \in JobRecords /\ after.op = j.op /\ after.paths = j.paths
      /\ after.stage = "refused" => j.op = "create"
  BY <1>1 DEF JobRecords
<1>3. /\ jobs' = (jobs \ {j}) \cup {after}
      /\ treeNotices' = IF j.op = "create" /\ ~refused THEN treeNotices + 1 ELSE treeNotices
      /\ UNCHANGED <<treeDocs, treeLoaded, treeFetch, treeRead, expandedPaths, searchQuery,
                     focusedPath, selectedPaths, operating, dialog, changes, unseen>>
  BY DEF HandleJob, treeQuery, treeView
<1>4. /\ j.op = "create" => docs' = docs \cup j.paths
      /\ j.op = "delete" => docs' = docs \ j.paths
      /\ j.op = "move" => MoveAll(j.paths, j.into)
      /\ j.op \in {"bulkReindex", "reindex"} => docs' = docs
  BY DEF HandleJob
<1>5. docs' \subseteq Docs
  <2>1. docs \subseteq Docs /\ j.paths \subseteq Docs /\ j.into \in Holders
        /\ j.op \in {"create", "delete", "move", "bulkReindex", "reindex"}
    BY <1>1 DEF JobRecords, TreeInv, ServedTypes
  <2>2. j.op = "move" => docs' \subseteq Docs
    BY <1>4, <2>1, MovedAreDocs
  <2> QED
    BY <1>4, <2>1, <2>2
<1>6. docs' = docs \/ treeNotices' > 0 \/ j.op \in {"delete", "move"}
  <2>1. treeNotices \in Nat /\ j.op \in {"create", "delete", "move", "bulkReindex", "reindex"}
    BY <1>1 DEF JobRecords, TreeInv, ServedTypes
  <2>2. CASE j.op = "create" /\ refused
    BY <1>4, <2>2
  <2>3. CASE j.op = "create" /\ ~refused
    BY <1>3, <2>1, <2>3
  <2> QED
    BY <1>4, <2>1, <2>2, <2>3
<1> HIDE DEF after, refused
<1>7. ServedTypes' /\ QueryTypes' /\ LookTypes'
  BY <1>3, <1>5 DEF TreeInv, ServedTypes, QueryTypes, LookTypes
<1>8. WorkTypes' /\ FlagsTyped'
  BY <1>2, <1>3 DEF TreeInv, WorkTypes, FlagsTyped
<1>9. TreeBehind => TreeBehind'
  <2>1. treeNotices > 0 => treeNotices' > 0
    BY <1>3 DEF TreeInv, ServedTypes
  <2>2. ASSUME NEW k \in jobs, k.op \in {"delete", "move"} PROVE TreeBehind'
    <3>1. CASE k = j
      BY <1>2, <1>3, <2>2, <3>1 DEF TreeBehind
    <3>2. CASE k # j
      BY <1>3, <2>2, <3>2 DEF TreeBehind
    <3> QED
      BY <3>1, <3>2
  <2> QED
    BY <1>3, <2>1, <2>2 DEF TreeBehind
<1>10. docs' = docs \/ TreeBehind'
  BY <1>2, <1>3, <1>6 DEF TreeBehind
<1>11. FreshTree'
  BY <1>3, <1>9, <1>10 DEF TreeInv, FreshTree
<1> QED
  BY <1>7, <1>8, <1>11 DEF TreeInv

\* The answer: the tree is fetched again for what the call may have changed.
LEMMA AnsweredKeeps ==
  ASSUME TreeInv, NEW j \in jobs, JobAnswered(j)
  PROVE  TreeInv'
<1>1. j \in JobRecords /\ (j.stage = "refused" => j.op = "create")
  BY DEF TreeInv, WorkTypes
<1>2. /\ jobs' = jobs \ {j} /\ j.stage \in {"done", "refused"}
      /\ UNCHANGED <<docs, treeNotices, expandedPaths, searchQuery, focusedPath, changes>>
  BY DEF JobAnswered, treeView
<1>3. ServedTypes' /\ LookTypes'
  BY <1>2 DEF TreeInv, ServedTypes, LookTypes
<1>4. WorkTypes'
  <2>1. selectedPaths' \subseteq Docs
    BY DEF JobAnswered, TreeInv, WorkTypes
  <2>2. dialog' \in {"none", "create", "delete", "move", "reindex", "reindexing", "reindexed"}
    BY DEF JobAnswered, TreeInv, WorkTypes
  <2> QED
    BY <1>2, <2>1, <2>2 DEF TreeInv, WorkTypes
<1>5. operating' \in BOOLEAN
  BY Zenon DEF JobAnswered
<1>6. CASE j.stage = "done" /\ j.op \in {"create", "delete", "move"}
  <2>1. Refetch
    BY <1>6 DEF JobAnswered
  <2>2. /\ QueryTypes' /\ treeLoaded' \in BOOLEAN /\ unseen' \in BOOLEAN
        /\ treeFetch' # "idle" /\ (treeFetch' = "read" => unseen')
    BY <2>1, RefetchKeeps DEF TreeInv, FlagsTyped
  <2>3. FreshTree'
    BY <2>2 DEF FreshTree, TreeBehind
  <2> QED
    BY <1>3, <1>4, <1>5, <2>2, <2>3 DEF TreeInv, FlagsTyped
<1>7. CASE ~(j.stage = "done" /\ j.op \in {"create", "delete", "move"})
  <2>1. UNCHANGED <<treeDocs, treeLoaded, treeFetch, treeRead, unseen>>
    BY <1>7 DEF JobAnswered, treeQuery
  <2>2. j.op \notin {"delete", "move"}
    BY <1>1, <1>2, <1>7
  <2>3. TreeBehind => TreeBehind'
    BY <1>2, <2>1, <2>2 DEF TreeBehind
  <2>4. QueryTypes' /\ FlagsTyped'
    BY <1>5, <2>1 DEF TreeInv, QueryTypes, FlagsTyped
  <2>5. FreshTree'
    BY <1>2, <2>1, <2>3 DEF TreeInv, FreshTree
  <2> QED
    BY <1>3, <1>4, <2>4, <2>5 DEF TreeInv
<1> QED
  BY <1>6, <1>7

\* A call is repeated: its change is then due once more.
LEMMA RepeatedKeeps ==
  ASSUME TreeInv, NEW j \in jobs, JobRepeated(j)
  PROVE  TreeInv'
<1> DEFINE again == [j EXCEPT !.stage = "sent"]
<1>1. j \in JobRecords
  BY DEF TreeInv, WorkTypes
<1>2. again \in JobRecords /\ again.op = j.op /\ again.stage # "refused"
  BY <1>1 DEF JobRecords
<1>3. /\ jobs' = (jobs \ {j}) \cup {again} /\ Change
      /\ UNCHANGED <<docs, treeDocs, treeLoaded, treeFetch, treeRead, treeNotices, expandedPaths,
                     searchQuery, focusedPath, selectedPaths, operating, dialog, unseen>>
  BY DEF JobRepeated, treeQuery, treeView
<1> HIDE DEF again
<1>4. ServedTypes' /\ QueryTypes' /\ LookTypes'
  BY <1>3, TreeAssumption DEF Change, TreeInv, ServedTypes, QueryTypes, LookTypes
<1>5. WorkTypes' /\ FlagsTyped'
  BY <1>2, <1>3 DEF TreeInv, WorkTypes, FlagsTyped
<1>6. TreeBehind => TreeBehind'
  <2>1. ASSUME NEW k \in jobs, k.op \in {"delete", "move"} PROVE TreeBehind'
    <3>1. CASE k = j
      BY <1>2, <1>3, <2>1, <3>1 DEF TreeBehind
    <3>2. CASE k # j
      BY <1>3, <2>1, <3>2 DEF TreeBehind
    <3> QED
      BY <3>1, <3>2
  <2> QED
    BY <1>3, <2>1 DEF TreeBehind
<1>7. FreshTree'
  BY <1>3, <1>6 DEF TreeInv, FreshTree
<1> QED
  BY <1>4, <1>5, <1>7 DEF TreeInv

\* A call fails: what it did is unseen.
LEMMA FailedKeeps ==
  ASSUME TreeInv, NEW j \in jobs, JobFails(j)
  PROVE  TreeInv'
<1>1. /\ jobs' = jobs \ {j} /\ Change /\ unseen' = TRUE
      /\ UNCHANGED <<docs, treeDocs, treeLoaded, treeFetch, treeRead, treeNotices, expandedPaths,
                     searchQuery, focusedPath, selectedPaths>>
  BY DEF JobFails, treeQuery, treeView
<1>2. operating' \in BOOLEAN
  BY Zenon DEF JobFails
<1>3. dialog' \in {"none", "create", "delete", "move", "reindex", "reindexing", "reindexed"}
  BY DEF JobFails, TreeInv, WorkTypes
<1>4. ServedTypes' /\ QueryTypes' /\ LookTypes' /\ WorkTypes'
  BY <1>1, <1>3, TreeAssumption
     DEF Change, TreeInv, ServedTypes, QueryTypes, LookTypes, WorkTypes
<1>5. FlagsTyped'
  BY <1>1, <1>2 DEF TreeInv, FlagsTyped
<1>6. FreshTree'
  BY <1>1 DEF FreshTree, TreeBehind
<1> QED
  BY <1>4, <1>5, <1>6 DEF TreeInv

\* What is checked, the dialogs and the calls.
LEMMA BulkKeeps ==
  ASSUME TreeInv, BulkNext
  PROVE  TreeInv'
<1>1. CASE \E path \in Docs : Check(path)
  <2>1. WorkTypes'
    BY <1>1 DEF Check, TreeInv, WorkTypes
  <2> QED
    BY <1>1, <2>1, WorkKeeps DEF Check, TreeInv, FlagsTyped
<1>2. CASE ClearSelection
  <2>1. WorkTypes'
    BY <1>2 DEF ClearSelection, TreeInv, WorkTypes
  <2> QED
    BY <1>2, <2>1, WorkKeeps DEF ClearSelection, TreeInv, FlagsTyped
<1>3. CASE \E kind \in {"create", "delete", "move", "reindex"} : OpenTreeDialog(kind)
  <2>1. WorkTypes'
    BY <1>3 DEF OpenTreeDialog, TreeInv, WorkTypes
  <2> QED
    BY <1>3, <2>1, WorkKeeps DEF OpenTreeDialog, TreeInv, FlagsTyped
<1>4. CASE CloseTreeDialog
  <2>1. WorkTypes'
    BY <1>4 DEF CloseTreeDialog, TreeInv, WorkTypes
  <2>2. CASE dialog = "reindexed"
    <3>1. Refetch
      BY <1>4, <2>2 DEF CloseTreeDialog
    <3>2. /\ QueryTypes' /\ treeLoaded' \in BOOLEAN /\ unseen' \in BOOLEAN
          /\ treeFetch' # "idle" /\ (treeFetch' = "read" => unseen')
      BY <3>1, RefetchKeeps DEF TreeInv, FlagsTyped
    <3>3. FreshTree'
      BY <3>2 DEF FreshTree, TreeBehind
    <3>4. ServedTypes' /\ LookTypes' /\ operating' \in BOOLEAN
      BY <1>4 DEF CloseTreeDialog, treeView, TreeInv, ServedTypes, LookTypes, FlagsTyped
    <3> QED
      BY <2>1, <3>2, <3>3, <3>4 DEF TreeInv, FlagsTyped
  <2>3. CASE dialog # "reindexed"
    BY <1>4, <2>1, <2>3, WorkKeeps DEF CloseTreeDialog, treeQuery, TreeInv, FlagsTyped
  <2> QED
    BY <2>2, <2>3
<1>5. CASE \E name \in Names : SubmitCreate(name)
  <2> PICK name \in Names : SubmitCreate(name)
    BY <1>5
  <2>1. {<<name>>} \subseteq Docs
    <3>1. <<name>> = Append(Root, name)
      BY DEF Root
    <3> QED
      BY <3>1 DEF Docs
  <2> QED
    BY <2>1, CallKeeps DEF SubmitCreate, Holders
<1>6. CASE \E into \in Dirs \cup {Root} : SubmitBulk(into)
  <2> PICK into \in Dirs \cup {Root} : SubmitBulk(into)
    BY <1>6
  <2> QED
    BY CallKeeps DEF SubmitBulk, Holders, TreeInv, WorkTypes
<1>7. CASE SubmitBulkReindex
  BY <1>7, CallKeeps DEF SubmitBulkReindex, Holders, TreeInv, WorkTypes
<1>8. CASE SubmitReindex
  BY <1>8, CallKeeps DEF SubmitReindex, Holders
<1>9. CASE \E j \in jobs : HandleJob(j) \/ JobAnswered(j) \/ JobRepeated(j) \/ JobFails(j)
  BY <1>9, HandleKeeps, AnsweredKeeps, RepeatedKeeps, FailedKeeps
<1> QED
  BY <1>1, <1>2, <1>3, <1>4, <1>5, <1>6, <1>7, <1>8, <1>9 DEF BulkNext

\* Every step keeps the invariant ...
LEMMA TreeStep == TreeInv /\ [TreeNext]_treeVars => TreeInv'
<1> SUFFICES ASSUME TreeInv, [TreeNext]_treeVars PROVE TreeInv'
  OBVIOUS
<1>1. CASE UNCHANGED treeVars
  <2>1. UNCHANGED <<docs, treeQuery, treeNotices, treeView, treeWork, changes, unseen>>
    BY <1>1 DEF treeVars
  <2>2. LookTypes'
    BY <2>1 DEF treeView, TreeInv, LookTypes
  <2> QED
    BY <2>1, <2>2, LookKeeps
<1> QED
  BY <1>1, BrowseKeeps, KeyKeeps, BulkKeeps DEF TreeNext

\* ... so it holds for ever.
LEMMA TreeKept == TreeSpec => []TreeInv
  BY TreeFirst, TreeStep, PTL DEF TreeSpec

\* The variables of the tree have their types: the keys only focus what is on the
\* screen or a directory (TreeTypeOK).
THEOREM TreeTyping == TreeSpec => []TreeTypeOK
<1>1. TreeInv => TreeTypeOK
  BY DEF TreeInv, TreeTypeOK, ServedTypes, QueryTypes, LookTypes, WorkTypes, FlagsTyped,
         JobRecords
<1> QED
  BY <1>1, TreeKept, PTL

\* The screen shows, in order and once each, the server's documents that match and lie
\* in expanded directories, whatever the directories, names, searches and changes
\* (TreeShowsDocuments).
THEOREM TreeShown == TreeSpec => []TreeShowsDocuments
<1>1. TreeInv => TreeShowsDocuments
  <2> SUFFICES ASSUME TreeInv PROVE TreeShowsDocuments
    OBVIOUS
  <2>1. DataTyped /\ docs \subseteq Docs
    BY DEF TreeInv, DataTyped, ServedTypes, QueryTypes, LookTypes
  <2>2. CASE treeLoaded /\ treeFetch = "idle" /\ treeNotices = 0 /\ jobs = {} /\ ~unseen
    <3>1. treeDocs = docs
      BY <2>2 DEF TreeInv, FreshTree, TreeBehind
    <3> QED
      BY <2>1, <3>1, FreshTreeShows
  <2>3. CASE ~(treeLoaded /\ treeFetch = "idle" /\ treeNotices = 0 /\ jobs = {} /\ ~unseen)
    BY <2>3 DEF TreeShowsDocuments
  <2> QED
    BY <2>2, <2>3
<1> QED
  BY <1>1, TreeKept, PTL
===============================================================================
