# Verification of w7-ragKB

TLA+ models of the service's stateful components, TLC runs that check them on
small instances, and proofs checked by TLAPS.

    tlc -config sync_serial.cfg MCDocumentSync.tla     # one run
    tlapm DocumentSyncProofs.tla                       # one proof module

`PROJECT.json` is the index: components, runs, the mutants that show each
property can fail, the source lines behind every definition, hazards, theorems.

## 1. The system

Three programs. The server is one asyncio process (`backend_agent_api/main.py`);
its tasks interleave only at `await`, and every statement on the asyncpg pool
commits by itself, so an operation of several statements is not atomic, with or
without a crash. A second process (`backend_rag_pipeline`) watches folders and
writes to the same tables. The web client (`frontend`, React, two thirds of the
code) is a single thread with many calls in flight: every page and dialog keeps
copies of what the server has, and what arrives late is applied to whatever is
on the page by then.

| Component | State | Operations | What makes it correct |
|---|---|---|---|
| **SyncManager** `sync_manager.py` | markdown files, `.md.bak`, `.md.deleted`; rows of `documents`; `document_sync_status`; a lock per path, a semaphore | create, update, delete, re-index, resolve a conflict | one request at a time per document; a failed request has no effect; `in_sync` means file and chunks agree; every request ends |
| Document endpoints `documents_router.py` | none | the above, bulk operations | the version a client edited is the one replaced |
| **Control plane** `gateway_server.py` | per channel: websocket, status, outbound queue; per connection: where its handler is | deliver, register, flush, report, unregister, stop | no message lost, doubled or reordered; bounded queue; a connected adapter's queue drains |
| Channel adapters `adapters/*.py` | the connection to the control plane, the platform's offset, retry times | receive loop, reconnect, send in parts, back off | comes back after every disconnection; each part sent once |
| Message handler `gateway_message_handler.py` | none; one task per inbound message | pair, find the session, ask the agent, store, answer | answers of one session in order |
| Sessions `session.py`, `session_manager.py` | rows of messages, cached logs, the map of Session objects, a cleanup task | add, read, compact, clear, archive | the log is what was said; compaction loses only what it summarises; one object per session |
| Browser pool `tools/browser_tool.py` | a global lock, playwright, browser, contexts by session | get, close, clean up | every waiter is served |
| Cron scheduler `cron_scheduler.py` | rows, the map of scheduled jobs | create, update, pause, resume, delete, run | scheduled iff enabled in its row |
| DM pairing `dm_pairing.py` | one row per user: approved, code, expiry | issue, validate, approve, revoke | approval only through a live code; not undone by another message |
| Authentication `auth_router.py` | refresh and reset tokens | login, refresh, logout, reset | a refresh or reset token is used once |
| Document events `websocket_manager.py` | sockets per user, missed messages | connect, broadcast, flush | limit per user; a client that reconnects misses nothing |
| Webhooks, chat, conversations | rows | one request at a time | - |
| RAG pipeline `backend_rag_pipeline` | known files, time of the last check, both persisted | scan, process, delete, save | every change is indexed in the end |
| Agent, retrieval, chunking, extraction | none | pure functions and remote calls | - |
| **Session** `auth-client.ts`, `useAuth.tsx`, `App.tsx` | access token, user, route; the cookie | sign in, out, restore, refresh on 401 | overlapping refreshes keep a session alive; a sign-out ends it |
| **Chat page** `MessageHandling.tsx`, `Chat.tsx` | selected conversation, messages shown, what is awaited | send, open, new chat | the page shows the log; one conversation stays one |
| **Documents page** `DocumentEditor.tsx`, `DocumentTree.tsx`, `documents-api.ts` | cached queries, the editor's text and its recovery copy, the tree, checked documents | edit, save, create, move, delete; events through a socket | fresh after every event; what is typed is not lost |
| **Admin tables and dialogs** `useGateway.ts`, `components/admin` | the list of a hook, its filter, an edited row | fetch, write, fetch again | the list is the rows once calls are answered |
| Session drawer and graph | pages of a log; histories of all sessions | load more, send, compact; refresh | one session's log without gaps; counts of the present list |
| Webhook rules, cron dialog | three copies of the rules; a schedule and the verdict on it | edit in two tabs; preview, build | what is shown is what is saved |
| Viewers, dashboard, rating, palette, toasts | what is chosen and what came last | choose, poll, answer | what is shown is of what is chosen |

Interactions. An adapter is a websocket client of the control plane: inbound
messages become tasks of the message handler, which reads and appends to a
session through the session manager, asks the agent and hands the answer to
`deliver_outbound_message`. Webhooks and cron jobs only append to a session. The
document endpoints call SyncManager and then broadcast an event. The file
watcher writes the same `documents` and `document_sync_status` rows as
SyncManager without its locks. The parts of the web client share the access
token and the server and nothing else: React Router mounts one page at a time,
and a component's state is its own.

Where it is hard, in one line each (PROJECT.json "hazards" has them at their
source lines): statements that commit one by one; locks that some callers do not
take; state read before an await and used after it; a connection replaced while
its predecessor's handler still runs; put-backs after a failed send; rollbacks
that run after the thing they would restore is gone; retries and time-outs; in
the client, answers that arrive out of order, after another choice, or never.

## 2. What is modelled

### DocumentSync (`DocumentSync.tla`)

Every path of SyncManager that changes state. A request has a place (`pc`) and a
job; each action is the code between two awaits, or one awaited statement.

| Code | Actions |
|---|---|
| `create_/update_/delete_document_atomic` | `RequestCreate/Update/Delete`, `Acquire` or `Refuse` (lock, existence, `check_conflict`), `Mark` (processing), `CreateFile` / `ReplaceFile` / `MoveAside`, `Purge`, `Embed`, `Insert` (one row a step), `CleanUp` (backup unlinked, stat), `Commit`, `Report` (the status read inside the try) |
| except clauses | `Rollback` (files) or `RollbackFails` (its unlink or rename raises, and no status is written), `Fail` (error status) |
| `reindex_document`, `_do_reindex` | `RequestReindex`, the same stages under the semaphore, `Timeout` |
| `resolve_conflict` | `ResolveKeepFilesystem`, `ResolveKeepDatabase` (reads before the lock) |
| `bulk_delete_documents` | `RequestBulkDelete`, `Purge`, `CleanUp` without lock or status |
| other programs; the process | `ExternalEdit`; `Crash` |

A file is a text and a modification time, both numbers from one clock. The index
of a text is a chain of `Levels` rows, each with the former as its parent, which
is what the properties distinguish of the hierarchical chunks. `Faults` says
which awaited calls may raise, `Ops` which operations are called.

`AtomicDocStore.tla` states what "atomic" promises of the files: a request takes
effect at one instant or not at all. `DocumentSyncRefinement.tla` has the
mapping: a document is worth its backup as long as there is one, and a create
does not count before IN_SYNC is written, because until then it may be undone.

### ControlPlane (`ControlPlane.tla`)

One channel; channels share only counters. `websocket`, `status`, `queue` are
the `ChannelAdapter`, `handler[c]` is where `_handle_connection` is for
connection `c`, `link[c]` is the network's side of it, `sends` are the
`websocket.send` calls that have not returned.

| Code | Actions |
|---|---|
| `deliver_outbound_message` | `Deliver` (unknown channel, send now, send raises at once, queue or refuse) and `SendEnds` for its end |
| `_flush_message_queue` | `Flush`, run by `Register` and continued by each `SendEnds` |
| `_handle_connection` | `Connect`, `GiveUp`, `Register`, `Report`, `InboundRaises`, `Unregister` |
| `stop` | `Stop`; the network: `Close` |

On an open connection `send` writes the frame and then may wait; on a closed one
it raises. That is how the `websockets` library behaves and why `Write` requires
an open link. `FifoChannel.tla` is the abstract channel: a bounded queue in front
of a connection.

### SessionLog (`SessionLog.tla`)

One session: its row (`row` is `message_count`), its messages, the `Session`
objects built from the row, the entry of `SessionManager.sessions`, and the
tasks that use them. A message is its number in the order of storing; a summary
is the set of messages it tells of.

| Code | Actions |
|---|---|
| `get_or_create_session`, `get_session`, `create_session` | `Request`, `Find`, `Found`, `Recheck`, `Create`, `Load` |
| `add_message` and the trigger on `session_messages` | `Store`, `Stored` |
| `compact` | `Fetch`, `Fetched`, `Wipe`, `Zero`, `Rebuild`, `Compacted` |
| `clear_history` | `Wipe`, `Zero`, `Cleared` |
| `get_history` | `Read`, `ReadBack` |
| `process_inbound_message` | the phases of a job: the user's message, the agent or the command, the answer |
| `archive_session`, whoever calls it | `Archive`, at any time |
| a statement that raises; the end of the process | `StatementFails`, `Crash` |

Webhooks, cron jobs and `sessions_send` add one message to a session that exists:
the request `note`. A task keeps the object it has while others replace the one
in the map; that is why `count` and `cache` belong to objects. Roles, contents,
activation, token usage, the commands that do not touch the log, and
`delete_session`, which nothing calls, are left out.

### The web client

One module for each part that keeps state of its own. In all of them a call has
stages (sent, done by the server, answered), so that calls overlap, overtake each
other and get lost; server and client steps are separate actions; and where the
code is known to show something wrong, a history variable records that the
situation arose (a call overlapped, was lost, or was of another choice) and the
property says that nothing else can cause it. Each of those variables names a
behaviour listed under "Found" below, and only narrows the property to the rest.

| Module | Code | Actions |
|---|---|---|
| `WebSession` | `auth-client.ts`, `useAuth.tsx`, `App.tsx`, forms, `auth_router.py` | `Load`, `RestoreRefused/Refreshed/GetsUser`, `Submit`, `FormAnswered`, `Request`, `Unauthorised`, `Refreshed`, `Returned`, `SignOut`, `SignedOut`, `GoogleReturns/Refuses`; server: `LookUp` (also of an expired token), `Drop`, `Issue` (each may fail), `ServerSignsIn`, `ServerLogsOut`; `Expire`, `Age`, `Lose`, `Reload` |
| `ChatPage` | `MessageHandling.tsx`, `Chat.tsx`, `POST /agent` | `Send...`, `StoreQuestion`, `StoreAnswer`, `ShowAnswer` (with `Reply`: a client built for streaming and this server), `SelectNew`, `Select` and `Open` (loads only another conversation), `NewChat`, `ShowMessages`, `Fail`, `Leave` |
| `DocumentClient` | `DocumentEditor.tsx`, `useDocument`, `useDocumentWebSocket.ts`, `withRetry` | `Observe`, `Arrived`, `Notified`, `Edit`, `Type`, `Save`, `PutStores`, `Retry`, `Saved`, `SaveFailed`, socket and page loads, `OtherWrites`, `SilentWrite` |
| `DocumentTree` | `DocumentTree.tsx`, `useTreeKeyboard.ts`, `BulkActionsToolbar.tsx`, dialogs | `Order` and `flatten` (the layout), `Refetch`, `TreeArrives`, `TreeNotified`, `Key`, `ToggleExpand`, `Search`, `Check`, `Submit...`, `HandleJob`, `JobAnswered/Repeated/Fails` |
| `GatewayTables` | `useGateway.ts`, the tables, `ChannelConfigWizard.tsx` and other dialogs | list calls and their answers, filters, forms, writes, edits of users in place, the wizard's steps |
| `SessionDrawer` | `SessionDetailDrawer.tsx`, `useSessionHistory` | `OpenSession`, `LoadMore`, `ShowPage`, `ShowDetail`, `SubmitMessage`, `Compact`, `PostDone`; server: `SessionMoves`, `SessionCleared` |
| `SessionGraph` | `SessionRelationshipGraph.tsx` | `CallList`, `RefreshGraph`, `NodesAnswered`, `ListChanged` (a batch for the new list), `HistoryAnswered/Fails`; server: `SessionStarts`, `MessageAdded`, `MessagesCleared` |
| `RuleEditor` | `WebhookDialog.tsx`, `WebhookTransformEditor.tsx` | `OpenHook`, `TypeRules`, `ToggleEditor`, `AddRule`, `RemoveRule`, `UpdateRule`, `TypeRaw`, `ToVisual`, `ToJson`, `SubmitRules` |
| `CronForm` | `CronJobDialog.tsx`, `CronExpressionBuilder.tsx` | `OpenJob`, `TypeSchedule` (or clear it), `ShowBuilder`, `BuildSchedule`, `LeaveBuilder`, `AskPreview`, `ShowPreview`, `SubmitJob`, `JobSaved` |
| `ClientPanels` | viewers, `ResourceUsageDashboard.tsx`, `useConversationRating.ts`, `CommandPalette.tsx`, `use-toast.ts` | `Choose...`, `Arrives`, `ViewFails`; `RefreshNow`, `ChangeRefresh`, `HookAnswered`, `HookFails` (any call under way, in any order); `AnswersChange`, `RatingDone`; `ExecuteCommand`; `RaiseToast`, `DismissToast`, `RemoveToast` |

`MCWebClient` puts them into one tab: `part` says which one a behaviour
exercises. That is a sum and not a product because the parts share no state: a
product would only multiply the states of one part by those of another, and no
property relates two of them.

## 3. The runs

| Run | Asks | States |
|---|---|---|
| `sync_serial` | With only the operations that lock, and any statement, call or file operation failing, those of the rollback too, and a crash: is `in_sync` ever said of a document whose chunks are not all there? No (`InSyncComplete`); locks belong to exactly the requests inside them (`LockOwnership`). | 138 k |
| `sync_atomic` | When embeddings fail, are the operations atomic on files (`FilesAreAtomic`), is the index exact (`InSyncExact`), does an update replace only the version it names (`NoLostUpdate`), is every request answered (`EveryRequestEnds`)? Yes. | 31 k |
| `sync_races` | With re-indexing and its time-out, bulk deletion and external edits, which take no lock, and with failing embeddings, row statements, reads and file calls: are chunks ever without their parent (`ChunksHaveParents`), does a document stay in `processing` (`ProcessingEnds`)? No. Status writes, the process and the rollback's own file calls do not fail here: each would leave it there. | 221 k |
| `sync_update_loses_file` | *Violation.* The backup goes before the IN_SYNC statement, so its failure loses the document. | |
| `sync_reindex_races` | *Violation.* A re-index mixes with an update, and both say `in_sync`. | |
| `gateway_any` | With overlapping connections, waiting and failing sends, status reports and failing inbound messages: is a message ever lost or doubled (`OnePlace`), how far can put-backs exceed the limit (`QueueBounded`), can something stay queued behind a connected adapter (`NothingLeftBehind`, `QueueDrains`), does `stop` end (`StopEnds`)? | 200 k |
| `gateway_fifo` | While no send waits, is the channel a bounded FIFO (`IsFifo`)? Yes. | 48 k |
| `gateway_overlap` | *Violation.* An adapter that reconnects early is marked disconnected by the handler of its old connection, though the new one is open (`OthersStayConnected`). | |
| `session_serial` | One request at a time, with archivals, failed statements and crashes at every step: does a compaction keep the most recent messages (`KeepsRecent`) and all in order and once (`OrderedOnce`), does the count it uses as a LIMIT cover the log (`CountCovers`), is a reset final (`NothingReturns`), is what is cached still in the log, without a gap (`CacheFresh`)? Yes; a failed statement or a crash inside a compaction loses what was not yet added again, and the next one may put a second summary before the first. | 552 k |
| `session_shared` | Two tasks, up to three objects of one session, no reset and no compaction: is the log everything stored (`LogWhole`), does no object count ahead of the row (`CountNeverAhead`)? | 306 k |
| `session_overlap` | *Violation.* A message stored while another task compacts is deleted with the rest and not added again. | |
| `web_client` | In every part of the client: do tokens survive overlapping refreshes and end with a sign-out (`CookieIsLive`, `SignOutLeavesNothing`), does the chat show the log and stay in its conversation (`QuietViewIsLog`, `FollowUpStays`), is a document fresh after every event and what is typed kept (`WatchedIsFresh`, `TypedIsKept`), are tree, tables, drawer, graph and viewers what the server has once calls are answered (`TreeShowsDocuments`, `TableIsCurrent`, `DrawerShowsLog`, `GraphIsCurrent`, `ShownIsChosen`), is what a dialog shows what it saves and judges (`EditorHoldsForm`, `VerdictIsCurrent`), does polling stay single, and nothing older replace a refresh made on its own (`DashboardKeepsUp`), is a rating asked for once (`AskedOnce`), does a toast outlive older ones (`NewestToastStays`)? Yes, but for the situations each property names. | 1.48 M |

Bounds. One document is enough because documents share no state but the semaphore;
two or three requests give every pair an interleaving and a third to queue behind
them; two or three saves give an old, a new and a newer text; two levels already
distinguish a partial index, three an interrupted chain. Two connections give one
overlap, three an overlap during a flush that follows another; a limit of one makes
the queue full after one message, and three messages give one queued, one in flight
and one that overtakes. For a session, seven requests reach a second compaction, of
a log that begins with a summary; a threshold of 5 that keeps 2 and tells of 2
stands for the code's 80, 16 and 50: a compaction drops something as there, and one
that failed half-way may leave as few as are kept, or fewer; an object more than
tasks leaves one for the map. `MaxWrites`, `MaxCrashes`, `MaxMessages`,
`MaxRequests`, `MaxMishaps` and the set `Conns` (each connection is used once) bound
the behaviours. In the client two calls of a kind give one overlap and one that
overtakes; a change needs an event, a fetch that misses it and one that does not;
two sends give a follow-up; three texts one that is saved, one typed meanwhile and
one of somebody else; two rows, sessions or conversations a wrong one (one row in
the tables, whose filter shows or hides it); pages of one message two of them; a
history of one message leaves the second out (`HistoryLimit`, in the code 100, and
`MaxMessages`); four polls give two that overlap and one made on its own, and a ring
of two snapshots one that is pushed out; each bound's comment names what it bounds.
Two names and two levels of directories give one inside another, and a document two
levels deep (`MaxName`, `MaxDepth`; the proofs are for any). The gateway, session
and client runs and `sync_update_loses_file` do not check deadlock: when all
messages and connections, all requests, all saves, or all clicks have been used, the
bounded model has nothing left to do. There is no liveness property of the client:
nothing in it answers a call but the server and nothing makes a user click, so
fairness would be assumed of both.

Fairness. `DocumentSync!FairSpec`: an awaited call returns or raises (weak
fairness per request), and `asyncio.Lock` and `Semaphore` serve waiters in
order, so a waiter that can be admitted again and again is admitted (strong
fairness). Requests, time-outs, edits and crashes are not fair.
`ControlPlane!FairSpec`: tasks that can run do run, and a send ends, because
`ping_timeout` closes a connection whose peer stops reading. That a connection
closes or comes back is not assumed. `PromptSpec` restricts the environment, not
the code: a send returns before anything else happens.

### Found while modelling

The four violations above, each with the sentence of the documentation it
contradicts (PROJECT.json "findings"). The rest is what the models show at once,
or what a property has to exclude.

Server. A failed update leaves the document without its index
(`sync_manager.py:428`), a failed create leaves its rows (`:386`), `keep_filesystem`
reads the file outside the lock (`:510`), `keep_database` looks up a path where a
file id is expected and may store the "not found" text (`:514`); the unlink or
rename of an except clause may raise itself, and then the document stays in
`processing`, unlocked (`:387`, `:450`, `:490`), where the runbook knows of a
crashed re-index only (`SYNC_RUNBOOK.md:18`); `get_history` is documented as
"Retrieve recent messages" (`session.py:209`) and reads the oldest ones
(`db_sessions.py`), and its cache, filled for a limit of 1, answers a limit of 3
with one message, so `sessions_history` shows an agent the beginning of a session
(`CacheFresh` only says that what is cached is still in the log); a compaction that
fails half-way loses the messages it has not added again (`session.py:303`); an
error in one inbound message stops delivery until the adapter reconnects
(`gateway_server.py:386`), and an adapter that reports connected itself gets no
flush (`:370`). In code that is not modelled: `get_session_browser` takes a lock its
caller holds (`tools/browser_tool.py:299`); cron operations race on their row
(`cron_scheduler.py:203`, `:259`); a new pairing code overwrites an approval
(`dm_pairing.py:298`); a reset token is checked and used in three statements
(`auth_router.py:302`); `execute_with_backoff` awaits a coroutine again and the
receive loop reconnects once (`telegram.py:88`, `:641`); a file counts as known
though processing failed, and a change during a scan is older than it
(`file_watcher.py:324`, `:393`); nothing fills the queue of missed events
(`websocket_manager.py:118`).

Session. A sign-out with an expired access token is refused by the server and
forgotten by the client: the next page load signs the user in again. A refresh
whose answer is lost ends the session, and so does a statement that fails after the
DELETE of a rotation (`auth_router.py:245`): the browser keeps a cookie the server has
forgotten. The second of two parallel refreshes drops
the access token. `sendMessage` does not refresh on 401.

Chat. A conversation's messages are shown without asking whether it is still
selected, and replace what a send has shown meanwhile; going away and back during
an answer doubles it; a client built with `VITE_ENABLE_STREAMING=true`, as
`frontend/.env.example:5` has it, waits for chunks of text where the server answers one
JSON object (`chat_router.py:229`), and shows empty answers until the conversation is
loaded again; a new conversation takes the selection from the
one opened meanwhile; a message of files only is offered and always refused.

Documents. What is typed while a save is under way is overwritten by its result; a
repeated PUT may overwrite a newer text; `error instanceof Response`
(`documents-api.ts:68-74`) is never true, so refusals are retried contrary to the
comment, and a create whose answer was lost fails as a duplicate; bulk operations
and resolved conflicts send no events, `metadata_updated` is ignored, and events
missed while disconnected are not made up for; deleted documents stay checked.

Admin. One failed poll of the metrics unmounts all tabs of the gateway with their
open dialogs (`GatewayManagement.tsx:32`); the filter object made in line
(`WebhooksTable.tsx:61`, `CronJobsTable.tsx:60`) is a new one at each rendering and
fetches for ever; the channel dialog is given `onSave` and calls `onSuccess`, so its
save is followed by no fetch; a write fetches with the filter it was started with;
`Refetch` of a session's log keeps the offset, so the next "Load More" skips a page;
compaction archives the session the detail is of, and shows invented numbers;
deleted messages shift the places of the others, and pages read before and after are
put together unnoticed; the graph counts among the oldest 100 messages of a session
only (`SessionRelationshipGraph.tsx:83`), and of two batches the one that ends last
is shown; text that is no JSON empties the rules, contrary to the comment
(`WebhookTransformEditor.tsx:253-261`); over a stored mapping, such as the
placeholder of `WebhookDialog.tsx:373`, the editor shows no rules, and replaces it
by `[]` at the first change or a look at the JSON tab and back; a cleared schedule
keeps the verdict of the former one (`CronJobDialog.tsx:171`); polls of the
dashboard that overlap are taken in the order of their answers
(`useGateway.ts:401-412`); the cron builder rewrites what it cannot show merely by
being opened; previews, messages of conversations, logs of a level and responses of
tested webhooks are taken in the order they arrive; the verdict of one answer count
dismissed is not that of the threshold.

## 4. The proofs

For every value of the constants, from the assumptions named in the modules
(`SyncAssumption`, `ControlPlaneAssumption`, `SessionAssumption`, ...). Every type
invariant, every other invariant and every step property that a passing run checks
is proved; what is left to the model checker is under "Not proved" at the end.

`DocumentSyncProofs.tla`
- `Typing`: `TypeOK` needs `Flow`, that a request is at a stage of its own
  operation and carries a text where it writes one.
- `LocksAreOwned`: `LockOwnership` is inductive given the types.
- `InSyncIsComplete`: if only locking operations are called and the final read
  does not fail. `SyncInv` adds what each stage of the request inside the lock
  guarantees: from `Mark` to `Commit` the document is not `in_sync`; after the
  file is written it holds the request's text; the first `done` rows of the
  request are there. `Frame` shows that nobody but the lock's owner touches
  these. The second assumption is needed: a failing final read rolls the files
  of a document back that has just been called `in_sync`.
- `HierarchyIsWhole`: `ChunksHaveParents` is inductive given the types, for every
  operation and failure: `RowsChange` shows the two statements that touch the rows.
- `UpdatesReplaceWhatTheySaw`: from `check_conflict` until the file is replaced it
  has the mtime the client named (`VersionHeld`), because only the lock's owner
  writes it; that needs every operation to lock and an exact comparison.
- `InSyncIsExact`: `Prepared` adds to `SyncInv` which rows there are at each stage,
  no more and no less, and `Settled` that a path nobody works on has no rows
  without a file. A row statement, status write, file operation or final read that
  fails, or a crash, leaves rows that a later create does not purge; hence the
  assumptions.
- `OperationsAreAtomic`: the refinement. `Kept` says when the backup or the file
  moved aside is there, `FilesMove` what a step does to the files, and
  `MoveImplements` that each is one abstract step or a stutter; the effect falls on
  the drop of the backup, for a create on the IN_SYNC write. The assumptions are
  those under which the except clauses undo everything: a failed status write or
  file operation is not undone (run `sync_update_loses_file`).

`ControlPlaneProofs.tla`
- `ChannelTyping`: `TypeOK` needs `OneFlush` (a handler has at most one send of
  its own in flight) and `Accepted` (a connection is new as long as it has no
  handler).
- `ReconnectLeavesNothing`: `NothingLeftBehind`, on top of the typing invariant.
- `QueueIsBounded`: only a flush that fails puts a message back, and each puts
  back the one it holds. `FirstIsIdle` says why that is fewer than there are
  connections: a channel nobody has registered has an empty queue, so the first
  handler has nothing to flush, and a registered one has a handler past its flush.
- `MessagesAreInOnePlace`: `OnePlace`, also inductive given the types: `Placed`
  names the four places, and `FlushPlaced` and `EnqueuePlaced` follow a message
  from one to the next.
- `ChannelIsFifo`: under `PromptSpec` without reports, initial states map to
  initial states and every step of ControlPlane to a step of FifoChannel or a
  stutter. `PromptInv` adds to the typing and to `NothingLeftBehind` that at most
  one send is open (`OneOpenSend`): a message that would overtake the queue would
  have to be sent while a flush awaits, which this environment excludes and
  `gateway_any`'s does not.

`SessionLogProofs.tla`
- The types (`TypeInv`), with what each stage of a task has in its job (`Fits`)
  and that an object implies a row (`HasRow`); `SomeUnused` is the pigeonhole that
  a load finds an object.
- `CompactionReadsAll`, `CompactionKeepsRecent`, for one task (`OneTask`):
  `LogCovered` says at each stage how the log, the row, the object's count and the
  list a compaction has read are related. The count is not equal to the log: a
  failed compaction leaves it larger, and that is why the invariant is `<=`. With
  two tasks it fails, which is the run `session_overlap`.
- `LogInOrder`, `ResetIsFinal`, for one task: `LogTells` says that the log, and the
  log followed by what a compaction has still to insert, tells of messages in order
  and of none from before the last reset (`Tells`); `TellsRebuilt` is the lemma on
  what compact makes of a list. That there is only one summary is not among it: a
  compaction that fails and leaves as many entries as are kept is done again with
  nothing to leave out, and adds an empty summary before the old one.
- `SessionCacheIsFresh`, for one task: a failed compaction leaves deleted messages
  in the cache; `LogFresh` says that the log is then shorter than the object counts.
  That needs a threshold above the number kept (`LongEnough`, `RebuiltShorter`).
- `NothingLostBelowThreshold`, `NoObjectCountsAhead`, for any number of tasks
  without resets: `Below` adds to each object's count the tasks that have stored a
  message it does not count yet (`Pending`), and bounds the sum by the row; so
  nobody finds the threshold reached before the row has.

`DocumentClientProofs.tla`
- `ShownIsFresh`: `FreshInv` relates what a fetch has read to the server's text
  and the events on their way (`ReadIsFresh`), then the cache entry
  (`CacheIsFresh`); a document somebody watches is loaded and valid, or being
  fetched (`WatchedIsValid`).
- `TypingSurvives`: `KeepInv` says that a dirty text area is what is kept for
  recovery, and that every save under way carries the text not saved yet, so what
  `Saved` removes is what was stored.

- `DocumentTyping`: which texts there are, and that no save is tried more often than
  `withRetry` allows.
- `TreeShown`, in two halves. That the data are the server's: `FreshTree` says that
  the tree, and what its query has read, is the server's documents or that
  something is to come (`TreeBehind`): an event, a bulk call whose answer fetches
  again, or what is marked unseen. That the screen shows the data: `flatten` is a
  recursive function, so its existence is proved first (`LayoutExists`: the layout
  of a place refers to places of a lower `Rank` only), and then by induction on the
  rank that a directory shows the nodes under it and no others (`UnderStep`), in
  order (`BeforeBeside`, `BeforeInside`). The induction is `NatSetInduction`, for a
  set of numbers, from the library's theorem on least elements (`WFMin`).
- `TreeTyping`: what the keys focus is on the screen, hence a directory or a document.

`SessionAndChatProofs.tla`
- `CookieStaysLive`, `SignOutIsComplete`: `SessionInv`. While nothing was lost and no
  sign-out met a refresh (`Calm`), a token on its way to the browser is known to the
  server and to no other call (`TokensUnderWay`), and the browser's token is known
  or has such a successor (`CookieOrSuccessor`): this is what survives two refreshes
  that overlap. After a complete sign-out only refreshes without a token remain
  (`NothingLeft`).
- `QuietPageShowsLog`, `FollowUpsStay`: an undisturbed page is in one of four
  `Phases` (nothing under way; a conversation is loaded; an answer is awaited; the
  list with the new conversation is), each of which says how what is shown and the
  log are related. `SlotsSuffice` shows that a load always finds a place among the
  bounded ones, so that the bound hides no step.
- `SessionTyping`, `ChatTyping`.

`AdminPageProofs.tla`
- `TableStaysCurrent`: `TablesInv`. Unless the page is `behind`, the list is what the
  server has, or a write was handled whose answer will fetch (`Owed`), or the one
  fetch under way has read, or will read, what is current (`FetchFits`). Users are
  edited in place, without a fetch: `UsersApart` keeps their writes apart.
- `DrawerShowsSession`: `DrawerInv`; of the opened session at most one page is under
  way, it continues what is shown (`PageFits`), and without one the messages fill the
  places from the first on (`Placed`). A deletion begins another edition of the log;
  what is shown is never of one before its first page's (`Dated`), so that all of it is
  of the present one if that is (`StillThere`).
- `GraphStaysCurrent`: a session whose messages were not deleted since the list was
  read has only gained some (`ThenIsPast`), so that a count taken later lies between
  the two; the batch started last is of the list on the page (`LastIsOfList`), and what
  is counted is among the oldest messages (`OldestOnly`). `VerdictStaysCurrent`: unless
  previews have overlapped, the only one under way is of the form's schedule
  (`PreviewIsOfSchedule`). `EditorKeepsForm`: what ties the editor's two copies to the
  form's is inductive given the types (`CopyTypes`, `FrameTypes`).
- `RuleTyping`, `CronTyping`, `GraphTyping`, `DrawerTypesKept`, `TablesTyping`.

`ClientPanelsProofs.tla`
- `ViewersShowChoice`: the calls under way are for what is chosen (`ViewerInv`).
  `DashboardStaysUp`: polls are numbered when they are sent and answered in any
  order. No call under way is older than the last one sent alone (`LaterOnly`), so
  what takes the place of that one's answer is no older (`Steady`, `SnapshotKeeps`).
  `ThresholdsAskOnce`: a threshold that has asked is closed, or open now
  (`RatingInv`). `NewestToastRemains`: the ids descend, and a closed toast is due to
  be removed (`ToastInv`), so that no timeout meets the newest one.
- `ViewerTyping`, `DashboardTyping`, `RatingTyping`, `PaletteTyping`, `ToastTyping`;
  the palette's says that no recent command is there twice (`PaletteInv`).

`WebClientProofs.tla`
- `TabRunsItsParts`: the specification that the run `web_client` checks implements
  that of every part, because a part that is not exercised stutters from one of its
  initial states. Hence `TabKeepsPromises` and `TabKeepsTypes`: the run's
  invariants, each proved of its part alone, hold in the tab.

Several updates of one record are written `[f EXCEPT ![i] = [@ EXCEPT !.a = x, !.b = y]]`
and not with `![i]` twice: the two mean the same, and the provers need the former.

Not proved. Liveness (`EveryRequestEnds`, `ProcessingEnds`, `QueueDrains`,
`StopEnds`) is beyond the prover and stays with TLC, as are the four violations,
which are behaviours and not theorems.

## 5. The plan

Done, in this order: DocumentSync with AtomicDocStore; ControlPlane with
FifoChannel; SessionLog; the web client's session, chat page, documents page, admin
tables, drawer, dialogs, graph and panels; the proofs above, of which the
client's parts and the tab came last.

Next, if the project goes on: the adapters as the environment of ControlPlane; the
cron scheduler's map against its rows.

## 6. Not modelled

- The agent, retrieval, chunking and extraction: pure functions over text, and
  remote calls whose answers are data.
- Channel adapters, browsers, cron scheduler, pairing, watchers: PROJECT.json gives
  the reason for each, and their hazards are under "Found" above.
- The HTTP endpoints that validate and call one operation, metrics and the log
  buffer, which are only read for display, and the schema beyond the constraints an
  operation relies on.
- In the client: panels that draw what the modelled hooks hold
  (`GatewayMetrics`, `MessageRoutingVisualization`, `ChannelActivityHeatmap`), pages
  whose endpoints the server does not have (pairing, browsers, security audit),
  invented data (`WebhookExecutionLogDrawer`), components used by nothing
  (`ConflictResolutionDialog`, `DocumentPreview`), settings, the library of user
  interface elements, and all layout.
