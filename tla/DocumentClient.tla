---------------------------- MODULE DocumentClient ----------------------------
(***************************************************************************)
(* One document on the documents page: pages/Documents.tsx, DocumentEditor,*)
(* useDocument with its React Query cache entry, useDocumentWebSocket, and *)
(* withRetry of lib/documents-api.ts around the PUT.                       *)
(*                                                                         *)
(* A text is a number, new for every text somebody writes; 0 is no text.   *)
(* What other users and the endpoints that announce nothing do to the      *)
(* document is the environment.                                            *)
(***************************************************************************)
EXTENDS Naturals

CONSTANTS MaxTexts,      \* bound: texts written
          MaxFaults,     \* bound: lost answers, dropped sockets
          MaxRetries     \* withRetry's maxRetries

ASSUME DocumentAssumption == MaxTexts \in Nat \ {0} /\ MaxFaults \in Nat /\ MaxRetries \in Nat

VARIABLES docText,       \* the server's text of the document, 0 once deleted
          texts,         \* texts written so far
          socket,        \* the document socket
          docEvents,     \* events on their way through it
          cached,        \* the cache entry's data, 0 before the first load
          stale,         \* the cache entry is invalidated
          fetch,         \* the query in flight
          fetched,       \* the text it read
          mode,          \* viewMode
          content,       \* DocumentEditor: the text area
          dirty,         \* DocumentEditor: isDirty
          saving,        \* DocumentEditor: the PUT its isSaving is about, 0 if none
          recovery,      \* localStorage: the recovery text of the document
          put,           \* the PUTs under way: stage, text and attempts
          faults,        \* faults so far
          missed,        \* history: a change reached no cache entry
          unsaved,       \* history: what the user typed and neither saved nor gave up
          overlapped     \* history: typed with a save under way

remote == <<docText, texts>>
stream == <<socket, docEvents>>
entry == <<cached, stale, fetch, fetched>>
editor == <<mode, content, dirty, saving, recovery>>
docHistory == <<faults, missed, unsaved, overlapped>>
docVars == <<remote, stream, entry, editor, put, docHistory>>

Puts == 1..2             \* bound: PUTs under way at a time
NoPut == [stage |-> "idle", text |-> 0, tries |-> 0]
Texts == 0..MaxTexts

DocumentTypeOK ==
    /\ docText \in Texts /\ texts \in Texts
    /\ socket \in {"connecting", "open", "waiting"} /\ docEvents \in Nat
    /\ cached \in Texts /\ stale \in BOOLEAN
    /\ fetch \in {"idle", "asked", "read"} /\ fetched \in Texts
    /\ mode \in {"browse", "view", "edit"}
    /\ content \in Texts /\ dirty \in BOOLEAN /\ saving \in {0} \cup Puts
    /\ recovery \in Texts
    /\ put \in [Puts -> [stage : {"idle", "asked", "answered", "failed"},
                         text : Texts, tries : 0..MaxRetries]]
    /\ faults \in 0..MaxFaults
    /\ missed \in BOOLEAN /\ unsaved \in Texts /\ overlapped \in BOOLEAN

DocumentInit ==
    /\ docText = 1 /\ texts = 1
    /\ socket = "connecting" /\ docEvents = 0
    /\ cached = 0 /\ stale = FALSE /\ fetch = "idle" /\ fetched = 0
    /\ mode = "browse" /\ content = 0 /\ dirty = FALSE /\ saving = 0 /\ recovery = 0
    /\ put = [i \in Puts |-> NoPut]
    /\ faults = 0 /\ missed = FALSE /\ unsaved = 0 /\ overlapped = FALSE

Saving == {i \in Puts : put[i].stage # "idle"}
Fault == faults < MaxFaults /\ faults' = faults + 1

-------------------------------------------------------------------------------
(* The document socket.                                                    *)

\* connect() succeeded: onopen.
SocketOpens ==
    /\ socket = "connecting"
    /\ socket' = "open"
    /\ UNCHANGED <<remote, docEvents, entry, editor, put, docHistory>>

\* onclose: what was on its way is lost, and a timer set.
SocketCloses ==
    /\ socket # "waiting" /\ Fault
    /\ socket' = "waiting" /\ docEvents' = 0
    /\ missed' = (missed \/ docEvents > 0)
    /\ UNCHANGED <<remote, entry, editor, put, unsaved, overlapped>>

\* The timer calls connect() again; nothing asks for what was missed.
Reconnect ==
    /\ socket = "waiting"
    /\ socket' = "connecting"
    /\ UNCHANGED <<remote, docEvents, entry, editor, put, docHistory>>

\* broadcast_to_all reaches the sockets that are open.
Announce ==
    /\ docEvents' = IF socket = "open" THEN docEvents + 1 ELSE docEvents
    /\ missed' = (missed \/ socket # "open")

\* handleMessage: invalidateQueries starts the fetch of a shown document again,
\* unless it is its first one; that one, and one that nobody watches any more,
\* goes on with what it may have read before and counts as fresh.
Notified ==
    /\ socket = "open" /\ docEvents > 0
    /\ docEvents' = docEvents - 1
    /\ IF mode = "browse" THEN /\ missed' = (missed \/ fetch = "read")
                               /\ stale' = TRUE
                               /\ UNCHANGED <<fetch, fetched>>
       ELSE IF cached = 0 THEN /\ missed' = (missed \/ fetch = "read")
                               /\ fetch' = IF fetch = "idle" THEN "asked" ELSE fetch
                               /\ UNCHANGED <<stale, fetched>>
       ELSE /\ stale' = TRUE /\ fetch' = "asked" /\ fetched' = 0
            /\ UNCHANGED missed
    /\ UNCHANGED <<remote, socket, cached, editor, put, faults, unsaved, overlapped>>

-------------------------------------------------------------------------------
(* The query of the document.                                              *)

\* GET /documents/{path}.
ReadDocument ==
    /\ fetch = "asked" /\ docText # 0
    /\ fetch' = "read" /\ fetched' = docText
    /\ missed' = FALSE
    /\ UNCHANGED <<remote, stream, cached, stale, editor, put, faults, unsaved, overlapped>>

\* Mutant: a new document drops what is kept for recovery.
EditorGetsAnew(d, kept) ==
    /\ content' = d /\ dirty' = FALSE /\ recovery' = 0
    /\ UNCHANGED unsaved

\* The editor's effects on a new document d: its text replaces what is typed,
\* which was kept for recovery; what is kept and differs is offered again.
EditorGets(d, kept) ==
    \/ /\ kept \in {0, d}
       /\ content' = d /\ dirty' = FALSE /\ recovery' = kept
       /\ UNCHANGED unsaved
    \/ /\ kept \notin {0, d}                       \* confirmed: recovered
       /\ content' = kept /\ dirty' = TRUE /\ recovery' = kept
       /\ UNCHANGED unsaved
    \/ /\ kept \notin {0, d}                       \* declined: given up
       /\ content' = d /\ dirty' = FALSE /\ recovery' = 0
       /\ unsaved' = IF unsaved = kept THEN 0 ELSE unsaved

\* The data arrives: a document that differs is a new one for the editor.
Arrived ==
    /\ fetch = "read"
    /\ cached' = fetched /\ stale' = FALSE /\ fetch' = "idle" /\ fetched' = 0
    /\ IF mode = "edit" /\ cached # fetched
       THEN EditorGets(fetched, IF dirty THEN content ELSE recovery)
       ELSE UNCHANGED <<content, dirty, recovery, unsaved>>
    /\ UNCHANGED <<remote, stream, mode, saving, put, faults, missed, overlapped>>

\* It fails for good, as for a deleted document: the old data stays.
FetchFails ==
    /\ fetch # "idle"
    /\ IF docText = 0 THEN UNCHANGED faults ELSE Fault
    /\ fetch' = "idle" /\ fetched' = 0
    /\ missed' = TRUE
    /\ UNCHANGED <<remote, stream, cached, stale, editor, put, unsaved, overlapped>>

\* Mutant: what is cached will do.
ObserveCached == UNCHANGED fetch

\* The query gets an observer again: an invalidated or missing entry is fetched.
Observe ==
    IF (stale \/ cached = 0) /\ fetch = "idle" THEN fetch' = "asked" ELSE UNCHANGED fetch

-------------------------------------------------------------------------------
(* The page and the editor.                                                *)

\* The editor is not mounted any more; what it kept for recovery stays.
Unmount == content' = 0 /\ dirty' = FALSE /\ saving' = 0

\* handleSelectDocument, from the tree, at any time: an editor is not asked.
SelectDocument ==
    /\ mode' = "view"
    /\ Unmount
    /\ Observe
    /\ UNCHANGED <<remote, stream, cached, stale, fetched, recovery, put, docHistory>>

\* handleClose of the viewer.
CloseViewer ==
    /\ mode = "view" /\ cached # 0
    /\ mode' = "browse"
    /\ UNCHANGED <<remote, stream, entry, content, dirty, saving, recovery, put, docHistory>>

\* handleEdit: the editor is mounted with the document of the cache.
Edit ==
    /\ mode = "view" /\ cached # 0
    /\ mode' = "edit" /\ saving' = 0
    /\ EditorGets(cached, recovery)
    /\ UNCHANGED <<remote, stream, entry, put, faults, missed, overlapped>>

\* handleContentChange: a new text, also kept for recovery.
Type ==
    /\ mode = "edit" /\ texts < MaxTexts
    /\ texts' = texts + 1
    /\ content' = texts' /\ dirty' = TRUE /\ recovery' = texts' /\ unsaved' = texts'
    /\ overlapped' = (overlapped \/ Saving # {})
    /\ UNCHANGED <<docText, stream, entry, mode, saving, put, faults, missed>>

\* The user types the document's text again: nothing to save, but what was kept
\* before stays.
TypeBack ==
    /\ mode = "edit" /\ dirty
    /\ content' = cached /\ dirty' = FALSE /\ unsaved' = 0
    /\ UNCHANGED <<remote, stream, entry, mode, saving, recovery, put, faults, missed,
                   overlapped>>

\* handleCancel, confirmed if something is typed.
CancelEdit ==
    /\ mode = "edit"
    /\ mode' = "view" /\ recovery' = 0 /\ unsaved' = 0
    /\ Unmount
    /\ UNCHANGED <<remote, stream, entry, put, faults, missed, overlapped>>

\* handleSave of the editor: the button is disabled while it saves.
Save(i) ==
    /\ mode = "edit" /\ dirty /\ saving = 0
    /\ put[i].stage = "idle" /\ \A j \in Puts : j < i => j \in Saving
    /\ saving' = i
    /\ put' = [put EXCEPT ![i] = [stage |-> "asked", text |-> content, tries |-> 0]]
    /\ UNCHANGED <<remote, stream, entry, mode, content, dirty, recovery, docHistory>>

\* PUT /documents/{path}: no version is compared.
PutStores(i) ==
    /\ put[i].stage = "asked" /\ docText # 0
    /\ docText' = put[i].text
    /\ put' = [put EXCEPT ![i].stage = "answered"]
    /\ Announce
    /\ UNCHANGED <<texts, socket, entry, editor, faults, unsaved, overlapped>>

\* Mutant: one attempt too many.
RetryOnceMore(i) ==
    put' = [put EXCEPT ![i] = [@ EXCEPT !.stage = IF @ # "failed" THEN "asked" ELSE @,
                                       !.tries = @ + 1]]

\* withRetry: another attempt, whatever the error, or none is left.
Retry(i) ==
    LET again == put[i].tries < MaxRetries
    IN put' = [put EXCEPT ![i] = [@ EXCEPT
                 !.stage = IF again THEN "asked" ELSE "failed",
                 !.tries = IF again THEN put[i].tries + 1 ELSE put[i].tries]]

\* The document is gone: 404, which is tried again.
PutRefused(i) ==
    /\ put[i].stage = "asked" /\ docText = 0
    /\ Retry(i)
    /\ UNCHANGED <<remote, stream, entry, editor, docHistory>>

\* The request or its answer is lost.
PutLost(i) ==
    /\ put[i].stage \in {"asked", "answered"} /\ Fault
    /\ Retry(i)
    /\ UNCHANGED <<remote, stream, entry, editor, missed, unsaved, overlapped>>

\* handleSave of the page, then the editor's: the document is fetched again, the
\* viewer shown, and what is kept for recovery removed, whatever it is by now.
\* (With the document closed the viewer has nothing to show.)
Saved(i) ==
    /\ put[i].stage = "answered"
    /\ put' = [put EXCEPT ![i] = NoPut]
    /\ recovery' = 0
    /\ Unmount
    /\ unsaved' = IF unsaved = put[i].text THEN 0 ELSE unsaved
    /\ IF mode = "browse" THEN UNCHANGED <<mode, fetch, fetched>>
       ELSE mode' = "view" /\ fetch' = "asked" /\ fetched' = 0
    /\ UNCHANGED <<remote, stream, cached, stale, faults, missed, overlapped>>

\* Every attempt failed: the text stays, isSaving ends.
SaveFailed(i) ==
    /\ put[i].stage = "failed"
    /\ put' = [put EXCEPT ![i] = NoPut]
    /\ saving' = IF saving = i THEN 0 ELSE saving
    /\ UNCHANGED <<remote, stream, entry, mode, content, dirty, recovery, docHistory>>

\* handleDeleteConfirm, or the bulk deletion of the document: the viewer closes.
DeleteDocument ==
    /\ mode = "view" /\ docText # 0 /\ texts < MaxTexts
    /\ docText' = 0 /\ texts' = texts + 1
    /\ Announce
    /\ mode' = "browse"
    /\ UNCHANGED <<socket, entry, content, dirty, saving, recovery, put, faults, unsaved,
                   overlapped>>

-------------------------------------------------------------------------------
(* The environment.                                                        *)

\* Another user's PUT or POST.
OtherWrites ==
    /\ texts < MaxTexts
    /\ texts' = texts + 1 /\ docText' = texts'
    /\ Announce
    /\ UNCHANGED <<socket, entry, editor, put, faults, unsaved, overlapped>>

\* A conflict resolved, or a bulk move or deletion: no event is sent.
SilentWrite ==
    /\ texts < MaxTexts /\ docText # 0
    /\ texts' = texts + 1 /\ docText' \in {0, texts'}
    /\ missed' = TRUE
    /\ UNCHANGED <<stream, entry, editor, put, faults, unsaved, overlapped>>

\* The page is loaded again; the recovery text is all that is left.
ReloadPage ==
    /\ Fault
    /\ socket' = "connecting" /\ docEvents' = 0
    /\ cached' = 0 /\ stale' = FALSE /\ fetch' = "idle" /\ fetched' = 0
    /\ mode' = "browse" /\ Unmount
    /\ put' = [i \in Puts |-> NoPut]
    /\ UNCHANGED <<remote, recovery, missed, unsaved, overlapped>>

-------------------------------------------------------------------------------
DocumentNext ==
    \/ SocketOpens \/ SocketCloses \/ Reconnect \/ Notified
    \/ ReadDocument \/ Arrived \/ FetchFails
    \/ SelectDocument \/ CloseViewer \/ Edit \/ Type \/ TypeBack \/ CancelEdit
    \/ \E i \in Puts : Save(i) \/ PutStores(i) \/ PutRefused(i) \/ PutLost(i)
                       \/ Saved(i) \/ SaveFailed(i)
    \/ DeleteDocument \/ OtherWrites \/ SilentWrite \/ ReloadPage

DocumentSpec == DocumentInit /\ [][DocumentNext]_docVars

-------------------------------------------------------------------------------
\* What is shown of a document is what the server has, once every event, fetch
\* and save has been dealt with: an event that overlaps a fetch of older data
\* does not leave that data, unless an event was lost, sent by nobody, or came
\* during the first load or one nobody watched.
WatchedIsFresh ==
    (mode # "browse" /\ fetch = "idle" /\ docEvents = 0 /\ Saving = {} /\ docText # 0 /\ ~missed)
        => cached = docText

\* What the user typed is in the editor or kept for recovery until it is saved
\* or given up, whatever is fetched, opened or reloaded meanwhile, unless it was
\* typed while a save was under way.
TypedIsKept ==
    (unsaved # 0 /\ ~overlapped) => ((mode = "edit" /\ content = unsaved) \/ recovery = unsaved)
===============================================================================
