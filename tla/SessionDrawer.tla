----------------------------- MODULE SessionDrawer -----------------------------
(***************************************************************************)
(* The admin's view of one session: SessionDetailDrawer with useSession    *)
(* and useSessionHistory of useGateway.ts, SendMessageDialog and           *)
(* SessionCompactionInterface, and the session endpoints they call.        *)
(*                                                                         *)
(* A message is the session it belongs to, the edition of that session's   *)
(* log (a compaction and a reset delete all rows; what is written          *)
(* afterwards are other messages) and its place in the log, oldest first;  *)
(* a page holds PageSize of them.  Closing the drawer keeps all of its     *)
(* state, so it is not a step of its own.                                  *)
(***************************************************************************)
EXTENDS Naturals, Sequences

CONSTANTS Sessions,
          NoSession,
          PageSize,      \* initialLimit
          MaxLog,        \* bound: messages of a session
          MaxClicks,     \* bound: sessions opened, pages asked for, calls posted
          MaxUpsets      \* bound: failed calls and deletions

ASSUME DrawerAssumption ==
    /\ NoSession \notin Sessions
    /\ PageSize \in Nat \ {0} /\ MaxLog \in Nat
    /\ MaxClicks \in Nat /\ MaxUpsets \in Nat

VARIABLES sessionLog,    \* the server's messages of every session, their number
          edition,       \* how often they were all deleted
          drawerSession, \* selectedSessionId
          drawerLog,     \* useSessionHistory: messages
          hasMore,
          offset,
          pageLoading,   \* useSessionHistory: loading
          pages,         \* history calls
          detail,        \* useSession: session
          details,       \* sessions whose detail is being fetched
          desk,          \* the open dialog
          post,          \* the dialog's call
          clicks,        \* clicks so far
          upsets,        \* upsets so far
          skewed         \* history: the pages need not fit the opened session

drawerView == <<drawerSession, drawerLog, hasMore, offset, pageLoading, pages, detail, details>>
drawerVars == <<sessionLog, edition, drawerView, desk, post, clicks, upsets, skewed>>

Slots2 == 1..2           \* bound: calls of a kind under way at a time
NoPage == [stage |-> "none", session |-> NoSession, from |-> 0, append |-> FALSE, upTo |-> 0,
           edition |-> 0]
NoPost == [stage |-> "none", op |-> "message", session |-> NoSession, by |-> NoSession]
Someone == Sessions \cup {NoSession}

Smaller(a, b) == IF a < b THEN a ELSE b
PagesOut == {i \in Slots2 : pages[i].stage # "none"}
DrawerQuiet == PagesOut = {} /\ details = {} /\ post.stage = "none"

DrawerTypeOK ==
    /\ sessionLog \in [Sessions -> 0..MaxLog]
    /\ drawerSession \in Someone /\ detail \in Someone
    /\ edition \in [Sessions -> Nat]
    /\ drawerLog \in Seq(Sessions \X Nat \X (1..MaxLog))
    /\ hasMore \in BOOLEAN /\ pageLoading \in BOOLEAN /\ skewed \in BOOLEAN
    /\ offset \in Nat /\ clicks \in 0..MaxClicks /\ upsets \in 0..MaxUpsets
    /\ \A i \in Slots2 : /\ pages[i].stage \in {"none", "asked", "read"}
                         /\ pages[i].session \in Someone /\ pages[i].upTo \in 0..MaxLog
    /\ details \subseteq Sessions
    /\ desk \in {"none", "message", "compact"}
    /\ post.stage \in {"none", "sent", "done"} /\ post.session \in Someone

DrawerInit ==
    /\ sessionLog \in {[s \in Sessions |-> n] : n \in 1..MaxLog}
    /\ edition = [s \in Sessions |-> 0]
    /\ drawerSession = NoSession /\ drawerLog = <<>> /\ hasMore = FALSE /\ offset = 0
    /\ pageLoading = FALSE /\ pages = [i \in Slots2 |-> NoPage]
    /\ detail = NoSession /\ details = {}
    /\ desk = "none"
    /\ post = NoPost /\ clicks = 0 /\ upsets = 0 /\ skewed = FALSE

Click == clicks < MaxClicks /\ clicks' = clicks + 1
Upset1 == upsets < MaxUpsets /\ upsets' = upsets + 1

-------------------------------------------------------------------------------
(* The two hooks.                                                          *)

\* fetchHistory and fetchSession are called: nothing cancels the calls before.
FetchPage(s, from, append) ==
    /\ pageLoading' = TRUE
    /\ \E i \in Slots2 \ PagesOut :
         /\ \A j \in Slots2 \ PagesOut : i <= j
         /\ pages' = [pages EXCEPT ![i] = [stage |-> "asked", session |-> s, from |-> from,
                                        append |-> append, upTo |-> 0, edition |-> 0]]

FetchDetail(s) == details' = details \cup {s}

\* GET /sessions/{id}/history: a slice of the oldest messages.
ReadPage(i) ==
    /\ pages[i].stage = "asked"
    /\ pages' = [pages EXCEPT ![i] = [@ EXCEPT
                   !.stage = "read",
                   !.edition = edition[pages[i].session],
                   !.upTo = Smaller(sessionLog[pages[i].session], pages[i].from + PageSize)]]
    /\ UNCHANGED <<sessionLog, edition, drawerSession, drawerLog, hasMore, offset, pageLoading, detail,
                   details, desk, post, clicks, upsets, skewed>>

\* The page replaces what is shown or goes behind it, whatever session is
\* opened by now.
ShowPage(i) ==
    /\ pages[i].stage = "read"
    /\ LET p == pages[i]
           size == IF p.upTo > p.from THEN p.upTo - p.from ELSE 0
           loaded == [j \in 1..size |-> <<p.session, p.edition, p.from + j>>]
       IN /\ drawerLog' = IF p.append THEN drawerLog \o loaded ELSE loaded
          /\ hasMore' = (size = PageSize)
    /\ pageLoading' = FALSE
    /\ pages' = [pages EXCEPT ![i] = NoPage]
    /\ UNCHANGED <<sessionLog, edition, drawerSession, offset, detail, details, desk, post, clicks,
                   upsets, skewed>>

ShowDetail(s) ==
    /\ s \in details
    /\ detail' = s
    /\ details' = details \ {s}
    /\ UNCHANGED <<sessionLog, edition, drawerSession, drawerLog, hasMore, offset, pageLoading, pages,
                   desk, post, clicks, upsets, skewed>>

\* A call fails: what was shown stays, and so does the offset of loadMore.
PageFails(i) ==
    /\ pages[i].stage # "none" /\ Upset1
    /\ pages' = [pages EXCEPT ![i] = NoPage]
    /\ pageLoading' = FALSE /\ skewed' = TRUE
    /\ UNCHANGED <<sessionLog, edition, drawerSession, drawerLog, hasMore, offset, detail, details, desk,
                   post, clicks>>

DetailFails(s) ==
    /\ s \in details /\ Upset1
    /\ details' = details \ {s}
    /\ skewed' = TRUE
    /\ UNCHANGED <<sessionLog, edition, drawerSession, drawerLog, hasMore, offset, pageLoading, pages,
                   detail, desk, post, clicks>>

-------------------------------------------------------------------------------
(* The drawer.                                                             *)

\* handleViewHistory of SessionsTable: another session starts from offset 0;
\* what was shown of the one before stays until the answers are there.
OpenSession(s) ==
    /\ s # drawerSession /\ desk = "none" /\ Click
    /\ drawerSession' = s /\ offset' = 0
    /\ FetchPage(s, 0, FALSE) /\ FetchDetail(s)
    /\ skewed' = ~DrawerQuiet
    /\ UNCHANGED <<sessionLog, edition, drawerLog, hasMore, detail, desk, post, upsets>>

\* Mutant: the page of the old offset is fetched.
LoadSame ==
    /\ drawerSession # NoSession /\ details = {} /\ detail # NoSession
    /\ drawerLog # <<>> /\ hasMore /\ ~pageLoading /\ desk = "none" /\ Click
    /\ offset' = offset + PageSize
    /\ FetchPage(drawerSession, offset, TRUE)
    /\ skewed' = (skewed \/ PagesOut # {})
    /\ UNCHANGED <<sessionLog, edition, drawerSession, drawerLog, hasMore, detail, details, desk, post,
                   upsets>>

\* "Load More": the offset moves before the answer is there.
LoadMore ==
    /\ drawerSession # NoSession /\ details = {} /\ detail # NoSession
    /\ drawerLog # <<>> /\ hasMore /\ ~pageLoading /\ desk = "none" /\ Click
    /\ offset' = offset + PageSize
    /\ FetchPage(drawerSession, offset', TRUE)
    /\ skewed' = (skewed \/ PagesOut # {})
    /\ UNCHANGED <<sessionLog, edition, drawerSession, drawerLog, hasMore, detail, details, desk, post,
                   upsets>>

-------------------------------------------------------------------------------
(* The dialogs of the drawer.                                              *)

OpenDialog(kind) ==
    /\ desk = "none" /\ detail # NoSession
    /\ desk' = kind
    /\ UNCHANGED <<sessionLog, edition, drawerView, post, clicks, upsets, skewed>>

\* Closed, also while its call is under way.
CloseDialog ==
    /\ desk # "none"
    /\ desk' = "none"
    /\ UNCHANGED <<sessionLog, edition, drawerView, post, clicks, upsets, skewed>>

Post(op, s) == Click /\ post' = [stage |-> "sent", op |-> op, session |-> s, by |-> drawerSession]

\* handleSubmit of SendMessageDialog: the message goes to the session of its
\* combobox, which offers the one the drawer was first opened with; the refresh
\* afterwards to the session opened at this moment.
SubmitMessage(session) ==
    /\ desk = "message" /\ post.stage = "none"
    /\ Post("message", session)
    /\ UNCHANGED <<sessionLog, edition, drawerView, desk, upsets, skewed>>

\* handleCompact: whatever strategy is chosen, the session of the detail is
\* archived; the figures of the result are computed here.
Compact ==
    /\ desk = "compact" /\ details = {} /\ post.stage = "none"
    /\ Post("archive", detail)
    /\ UNCHANGED <<sessionLog, edition, drawerView, desk, upsets, skewed>>

\* POST /sessions/{id}/messages; POST /sessions/{id}/archive, which changes
\* nothing the drawer shows.
HandlePost ==
    /\ post.stage = "sent"
    /\ \/ /\ post.op = "message" /\ sessionLog[post.session] < MaxLog
          /\ sessionLog' = [sessionLog EXCEPT ![post.session] = @ + 1]
       \/ /\ post.op = "archive"
          /\ UNCHANGED sessionLog
    /\ post' = [post EXCEPT !.stage = "done"]
    /\ UNCHANGED <<edition, drawerView, desk, clicks, upsets, skewed>>

\* onSuccess: detail and first page are fetched again; the offset stays, so that
\* the next "Load More" leaves out what the first page replaced.
PostDone ==
    /\ post.stage = "done"
    /\ desk' = IF post.op = "message" THEN "none" ELSE desk
    /\ FetchPage(post.by, 0, FALSE) /\ FetchDetail(post.by)
    /\ skewed' = (skewed \/ offset > 0 \/ PagesOut # {})
    /\ post' = NoPost
    /\ UNCHANGED <<sessionLog, edition, drawerSession, drawerLog, hasMore, offset, detail, clicks, upsets>>

\* The call throws, whether it was handled or not: the dialog stays.
PostFails ==
    /\ post.stage # "none" /\ Upset1
    /\ post' = NoPost
    /\ UNCHANGED <<sessionLog, edition, drawerView, desk, clicks, skewed>>

\* The session's own channel adds a message.
SessionMoves(s) ==
    /\ sessionLog[s] < MaxLog
    /\ sessionLog' = [sessionLog EXCEPT ![s] = @ + 1]
    /\ UNCHANGED <<edition, drawerView, desk, post, clicks, upsets, skewed>>

\* clear_session_messages, by /reset or a compaction, which then adds what it
\* keeps.
SessionCleared(s) ==
    /\ Upset1
    /\ sessionLog' = [sessionLog EXCEPT ![s] = 0]
    /\ edition' = [edition EXCEPT ![s] = @ + 1]
    /\ UNCHANGED <<drawerView, desk, post, clicks, skewed>>

DrawerNext ==
    \/ \E i \in Slots2 : ReadPage(i) \/ ShowPage(i) \/ PageFails(i)
    \/ \E s \in Sessions : OpenSession(s) \/ ShowDetail(s) \/ DetailFails(s)
                             \/ SubmitMessage(s) \/ SessionMoves(s) \/ SessionCleared(s)
    \/ \E kind \in {"message", "compact"} : OpenDialog(kind)
    \/ LoadMore \/ CloseDialog \/ Compact
    \/ HandlePost \/ PostDone \/ PostFails

DrawerSpec == DrawerInit /\ [][DrawerNext]_drawerVars

-------------------------------------------------------------------------------
\* No messages were deleted since the first page that is shown was read.
StillThere == drawerLog = <<>> \/ drawerLog[1][2] = edition[drawerSession]

\* Once its calls are answered the drawer shows the opened session's messages
\* only, place by place as its pages found them, without a gap or a repetition of
\* a place; the beginning of the log there is when nothing was deleted from it
\* since the first page.  (Pages read before and after a deletion are put behind
\* each other as one log: the code does not notice.)  Only a call that failed, one
\* under way when the session was changed or the next page asked for, or a refresh
\* after "Load More" can spoil it.
DrawerShowsLog ==
    (drawerSession # NoSession /\ DrawerQuiet /\ ~skewed) =>
        /\ detail = drawerSession
        /\ \A j \in DOMAIN drawerLog : drawerLog[j][1] = drawerSession /\ drawerLog[j][3] = j
        /\ StillThere =>
              /\ Len(drawerLog) <= sessionLog[drawerSession]
              /\ \A j \in DOMAIN drawerLog : drawerLog[j][2] = edition[drawerSession]
        /\ hasMore => Len(drawerLog) = offset + PageSize
===============================================================================
