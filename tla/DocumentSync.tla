---------------------------- MODULE DocumentSync ----------------------------
(***************************************************************************)
(* The SyncManager of backend_agent_api/sync_manager.py: documents kept    *)
(* both as markdown files and as embedded chunks in PostgreSQL.  Requests  *)
(* are asyncio tasks of one event loop, so an action is the code that runs *)
(* between two awaits, or the effect of one awaited call; each statement   *)
(* on the pool is its own transaction (autocommit).                        *)
(*                                                                         *)
(* A file is its text and its mtime; both are drawn from one counter, so   *)
(* two saves never have the same mtime.  The index of a document is one    *)
(* row per level of the hierarchy (document, section, leaf); row i > 1 has *)
(* row i-1 as its parent.                                                  *)
(***************************************************************************)
EXTENDS Integers, FiniteSets

CONSTANTS
  Docs,                \* document paths
  Reqs,                \* concurrently served requests
  NoReq,               \* the owner of a free lock
  Ops,                 \* the operations that are called, a subset of AllOps
  Faults,              \* the calls that may fail, a subset of AllFaults
  Levels,              \* rows of a complete index
  ReindexConcurrency,  \* SYNC_REINDEX_CONCURRENCY
  WithinTolerance,     \* can two saves be less than 1 s apart?
  MaxWrites,           \* bound: saves requested in a behaviour
  MaxCrashes           \* bound: crashes of the process in a behaviour

LockedOps == {"create", "update", "delete", "keep_filesystem", "keep_database"}
AllOps    == LockedOps \cup {"reindex", "bulk", "edit"}
\* "disk": the file calls of a try; "undo": those of its except clause.
AllFaults == {"embed", "rows", "status", "report", "disk", "undo"}

ASSUME SyncAssumption ==
  /\ NoReq \notin Reqs
  /\ Docs # {}
  /\ Docs \cap Reqs = {}              \* a file_id (uuid4) is never a path
  /\ Ops \subseteq AllOps
  /\ Faults \subseteq AllFaults
  /\ Levels \in Nat \ {0}
  /\ ReindexConcurrency \in Nat \ {0}
  /\ WithinTolerance \in BOOLEAN
  /\ MaxWrites \in Nat
  /\ MaxCrashes \in Nat

VARIABLES
  file,      \* the markdown file of a path
  bak,       \* its .md.bak
  del,       \* its .md.deleted
  rows,      \* the documents table: chunks whose metadata names a path
  status,    \* document_sync_status.sync_status, "none" without a row
  lock,      \* _document_locks: the request that holds the lock of a path
  pc,        \* where a request is
  job,       \* what a request is about
  clock,     \* saves requested so far
  crashes    \* crashes so far

vars == <<file, bak, del, rows, status, lock, pc, job, clock, crashes>>
disk == <<file, bak, del>>
bounds == <<clock, crashes>>

NoText == 0
NotFoundText == MaxWrites + 1      \* "No content found for document: ..."
Texts == 1..NotFoundText
NoFile == [text |-> NoText, mtime |-> 0]
Files == [text : Texts, mtime : 1..MaxWrites]

\* A chunk: its path and file_id metadata, the text it was cut from, its level.
Row == [doc : Docs, fid : Reqs, text : Texts, level : 1..Levels]

Job == [op : {"none", "create", "update", "delete", "reindex", "bulk"},
        doc : Docs, text : Texts \cup {NoText}, mtime : 0..MaxWrites,
        seen : 0..MaxWrites, done : 0..Levels]
NoJob == [op |-> "none", doc |-> CHOOSE d \in Docs : TRUE, text |-> NoText,
          mtime |-> 0, seen |-> 0, done |-> 0]

PC == {"idle", "wait", "mark", "files", "purge", "embed", "insert",
       "cleanup", "commit", "report", "rollback", "fail"}

Doc(r) == job[r].doc
Op(r)  == job[r].op

\* Inside "async with lock": every operation but reindex and bulk delete.
Locked(r) == Op(r) \in {"create", "update", "delete"}
            /\ pc[r] \notin {"idle", "wait"}
Reindexing == {r \in Reqs : Op(r) = "reindex" /\ pc[r] \notin {"idle", "wait"}}

RowsOf(d) == {c \in rows : c.doc = d}

Goto(r, l) == pc' = [pc EXCEPT ![r] = l]

\* Mutant: the lock is not released.
FinishLeakingLock(r) ==
  /\ pc' = [pc EXCEPT ![r] = "idle"]
  /\ job' = [job EXCEPT ![r] = NoJob]
  /\ UNCHANGED lock

\* The request answers or raises; it leaves "async with lock" if it is inside.
Finish(r) ==
  /\ pc' = [pc EXCEPT ![r] = "idle"]
  /\ job' = [job EXCEPT ![r] = NoJob]
  /\ lock' = [lock EXCEPT ![Doc(r)] = IF lock[Doc(r)] = r THEN NoReq ELSE @]

\* Mutant: no except clause.
RaiseWithoutRollback(r) == Finish(r)

\* An exception inside the try: a locked operation rolls its files back first,
\* a re-index has none, bulk delete only notes the failure.
Raise(r) ==
  IF Op(r) = "bulk" THEN Finish(r)
  ELSE /\ Goto(r, IF Op(r) = "reindex" THEN "fail" ELSE "rollback")
       /\ UNCHANGED <<job, lock>>

-----------------------------------------------------------------------------
(***************************************************************************)
(* Requests arrive                                                         *)
(***************************************************************************)
NewJob(r, o, d, t, m, s) ==
  /\ pc[r] = "idle"
  /\ job' = [job EXCEPT ![r] = [op |-> o, doc |-> d, text |-> t, mtime |-> m,
                                seen |-> s, done |-> 0]]
  /\ UNCHANGED <<file, bak, del, rows, status, lock, crashes>>

\* create_document_atomic and update_document_atomic up to the lock.  The
\* client of an update may name the mtime of the version it edited.
RequestWrite(r, o, d) ==
  /\ o \in Ops
  /\ clock < MaxWrites
  /\ clock' = clock + 1
  /\ \E s \in {0, file[d].mtime} :
       NewJob(r, o, d, clock + 1, clock + 1, IF o = "update" THEN s ELSE 0)
  /\ Goto(r, "wait")

RequestCreate(r, d) == RequestWrite(r, "create", d)
RequestUpdate(r, d) == RequestWrite(r, "update", d)

RequestDelete(r, d) ==
  /\ "delete" \in Ops
  /\ NewJob(r, "delete", d, NoText, 0, 0)
  /\ Goto(r, "wait")
  /\ UNCHANGED clock

RequestReindex(r, d) ==
  /\ "reindex" \in Ops
  /\ NewJob(r, "reindex", d, NoText, 0, 0)
  /\ Goto(r, "wait")
  /\ UNCHANGED clock

\* resolve_conflict reads the text it keeps before it asks for the lock, and
\* then is an update without an expected mtime.
Resolve(r, o, d, t) ==
  /\ o \in Ops
  /\ clock < MaxWrites
  /\ clock' = clock + 1
  /\ NewJob(r, "update", d, t, clock + 1, 0)
  /\ Goto(r, "wait")

ResolveKeepFilesystem(r, d) ==
  /\ file[d] # NoFile
  /\ Resolve(r, "keep_filesystem", d, file[d].text)

\* get_document_content is given a path and selects on file_id.
DatabaseText(key) ==
  LET found == {c \in rows : c.fid = key}
  IN  IF found = {} THEN NotFoundText ELSE (CHOOSE c \in found : TRUE).text

ResolveKeepDatabase(r, d) == Resolve(r, "keep_database", d, DatabaseText(d))

\* One path of bulk_delete_documents: no lock, no status row.
RequestBulkDelete(r, d) ==
  /\ "bulk" \in Ops
  /\ file[d] # NoFile
  /\ NewJob(r, "bulk", d, NoText, 0, 0)
  /\ Goto(r, "purge")
  /\ UNCHANGED clock

\* Somebody saves the file with another program.
ExternalEdit(d) ==
  /\ "edit" \in Ops
  /\ file[d] # NoFile
  /\ clock < MaxWrites
  /\ clock' = clock + 1
  /\ file' = [file EXCEPT ![d] = [text |-> clock + 1, mtime |-> clock + 1]]
  /\ UNCHANGED <<bak, del, rows, status, lock, pc, job, crashes>>

-----------------------------------------------------------------------------
(***************************************************************************)
(* The lock, the semaphore and the checks made under them                  *)
(***************************************************************************)
\* Mutant: the lock of the path is not awaited.
AdmittedWithoutLock(r) ==
  Op(r) = "reindex" => Cardinality(Reindexing) < ReindexConcurrency

Admitted(r) ==
  IF Op(r) = "reindex" THEN Cardinality(Reindexing) < ReindexConcurrency
                       ELSE lock[Doc(r)] = NoReq

\* Mutant: the conflict check is gone.
NeverConflicting(r) == FALSE

\* check_conflict: the mtimes differ by more than a second.
Conflicting(r) == job[r].seen # 0 /\ file[Doc(r)].mtime # job[r].seen

\* Mutant: a create does not look whether the file exists.
MustRefuseNoExistsCheck(r) == Op(r) # "create" /\ file[Doc(r)] = NoFile

MustRefuse(r) ==
  IF Op(r) = "create" THEN file[Doc(r)] # NoFile
  ELSE \/ file[Doc(r)] = NoFile
       \/ Op(r) = "update" /\ Conflicting(r) /\ ~WithinTolerance

MayRefuse(r) == MustRefuse(r) \/ (Op(r) = "update" /\ Conflicting(r))

\* DocumentConflictError, DocumentNotFoundError.
Refuse(r) ==
  /\ pc[r] = "wait"
  /\ Admitted(r)
  /\ MayRefuse(r)
  /\ Finish(r)
  /\ UNCHANGED <<disk, rows, status, bounds>>

Acquire(r) ==
  /\ pc[r] = "wait"
  /\ Admitted(r)
  /\ ~MustRefuse(r)
  /\ lock' = IF Op(r) = "reindex" THEN lock ELSE [lock EXCEPT ![Doc(r)] = r]
  /\ Goto(r, "mark")
  /\ UNCHANGED <<disk, rows, status, job, bounds>>

\* Mutant: the document is not marked before it is changed.
MarkNothing(r) ==
  /\ pc[r] = "mark"
  /\ Goto(r, "files")
  /\ UNCHANGED <<disk, rows, status, lock, job, bounds>>

\* update_sync_status(PROCESSING), outside the try: a failure just raises.
Mark(r) ==
  /\ pc[r] = "mark"
  /\ \/ /\ status' = [status EXCEPT ![Doc(r)] = "processing"]
        /\ Goto(r, "files")
        /\ UNCHANGED <<lock, job>>
     \/ /\ "status" \in Faults
        /\ Finish(r)
        /\ UNCHANGED status
  /\ UNCHANGED <<disk, rows, bounds>>

-----------------------------------------------------------------------------
(***************************************************************************)
(* The filesystem half                                                     *)
(***************************************************************************)
NewFile(r) == [text |-> job[r].text, mtime |-> job[r].mtime]

CreateFile(r) ==
  /\ pc[r] = "files" /\ Op(r) = "create"
  /\ \/ /\ file' = [file EXCEPT ![Doc(r)] = NewFile(r)]
        /\ Goto(r, "embed")
        /\ UNCHANGED <<lock, job>>
     \/ /\ "disk" \in Faults
        /\ Raise(r)
        /\ UNCHANGED file
  /\ UNCHANGED <<bak, del, rows, status, bounds>>

\* rename to .md.bak, then write_text; either may fail.
ReplaceFile(r) ==
  LET d == Doc(r) IN
  /\ pc[r] = "files" /\ Op(r) = "update"
  /\ \/ /\ file[d] # NoFile
        /\ bak' = [bak EXCEPT ![d] = file[d]]
        /\ \/ /\ file' = [file EXCEPT ![d] = NewFile(r)]
              /\ Goto(r, "purge")
              /\ UNCHANGED <<lock, job>>
           \/ /\ "disk" \in Faults
              /\ file' = [file EXCEPT ![d] = NoFile]
              /\ Raise(r)
     \/ /\ file[d] = NoFile \/ "disk" \in Faults
        /\ Raise(r)
        /\ UNCHANGED <<file, bak>>
  /\ UNCHANGED <<del, rows, status, bounds>>

\* rename to .md.deleted
MoveAside(r) ==
  LET d == Doc(r) IN
  /\ pc[r] = "files" /\ Op(r) = "delete"
  /\ \/ /\ file[d] # NoFile
        /\ del' = [del EXCEPT ![d] = file[d]]
        /\ file' = [file EXCEPT ![d] = NoFile]
        /\ Goto(r, "purge")
        /\ UNCHANGED <<lock, job>>
     \/ /\ file[d] = NoFile \/ "disk" \in Faults
        /\ Raise(r)
        /\ UNCHANGED <<file, del>>
  /\ UNCHANGED <<bak, rows, status, bounds>>

\* _do_reindex reads the text it will index.
ReadFile(r) ==
  LET d == Doc(r) IN
  /\ pc[r] = "files" /\ Op(r) = "reindex"
  /\ \/ /\ file[d] # NoFile
        /\ job' = [job EXCEPT ![r].text = file[d].text]
        /\ Goto(r, "purge")
        /\ UNCHANGED lock
     \/ /\ file[d] = NoFile \/ "disk" \in Faults
        /\ Raise(r)
  /\ UNCHANGED <<disk, rows, status, bounds>>

-----------------------------------------------------------------------------
(***************************************************************************)
(* The database half                                                       *)
(***************************************************************************)
\* Mutant: the rows are selected by file_id instead of by path.
PurgedByFileId(d) == {c \in rows : c.fid = d}

\* delete_document_by_path
Purged(d) == RowsOf(d)

Purge(r) ==
  /\ pc[r] = "purge"
  /\ \/ /\ rows' = rows \ Purged(Doc(r))
        /\ Goto(r, IF Op(r) \in {"update", "reindex"} THEN "embed" ELSE "cleanup")
        /\ UNCHANGED <<lock, job>>
     \/ /\ "rows" \in Faults
        /\ Raise(r)
        /\ UNCHANGED rows
  /\ UNCHANGED <<disk, status, bounds>>

\* _get_embeddings_batch: every embedding is computed before the first row;
\* it raises when three attempts have failed.
Embed(r) ==
  /\ pc[r] = "embed"
  /\ \/ Goto(r, "insert") /\ UNCHANGED <<lock, job>>
     \/ "embed" \in Faults /\ Raise(r)
  /\ UNCHANGED <<disk, rows, status, bounds>>

\* Mutant: levels are counted from zero.
NextRowFromZero(r) == [doc |-> Doc(r), fid |-> r, text |-> job[r].text,
                       level |-> job[r].done]

NextRow(r) == [doc |-> Doc(r), fid |-> r, text |-> job[r].text,
               level |-> job[r].done + 1]

\* Mutant: no foreign key.
NoForeignKey(r) == TRUE

\* The foreign key parent_chunk_id REFERENCES documents(id).
ParentPresent(r) ==
  job[r].done = 0 \/ [NextRow(r) EXCEPT !.level = job[r].done] \in rows

Insert(r) ==
  /\ pc[r] = "insert"
  /\ \/ /\ ParentPresent(r)
        /\ rows' = rows \cup {NextRow(r)}
        /\ job' = [job EXCEPT ![r].done = @ + 1]
        /\ Goto(r, IF job[r].done + 1 = Levels THEN "cleanup" ELSE "insert")
        /\ UNCHANGED lock
     \/ /\ ~ParentPresent(r) \/ "rows" \in Faults
        /\ Raise(r)
        /\ UNCHANGED rows
  /\ UNCHANGED <<disk, status, bounds>>

\* The synchronous code after the last row statement: unlink the backup (bulk
\* delete: the file, and is done), then stat the file.
CleanUp(r) ==
  LET d == Doc(r) IN
  /\ pc[r] = "cleanup"
  /\ \/ /\ bak' = IF Op(r) = "update" THEN [bak EXCEPT ![d] = NoFile] ELSE bak
        /\ del' = IF Op(r) = "delete" THEN [del EXCEPT ![d] = NoFile] ELSE del
        /\ file' = IF Op(r) = "bulk" THEN [file EXCEPT ![d] = NoFile] ELSE file
        /\ \/ /\ Op(r) # "bulk" /\ (Op(r) # "delete" => file[d] # NoFile)
              /\ Goto(r, "commit")
              /\ UNCHANGED <<lock, job>>
           \/ /\ Op(r) = "bulk" \/ (Op(r) # "delete" /\ (file[d] = NoFile \/ "disk" \in Faults))
              /\ Raise(r)
     \/ /\ "disk" \in Faults /\ Op(r) \in {"update", "delete", "bulk"}
        /\ Raise(r)
        /\ UNCHANGED disk
  /\ UNCHANGED <<rows, status, bounds>>

\* update_sync_status(IN_SYNC); for a delete, the status row goes.
Commit(r) ==
  /\ pc[r] = "commit"
  /\ \/ /\ Op(r) = "delete"
        /\ status' = [status EXCEPT ![Doc(r)] = "none"]
        /\ Finish(r)
     \/ /\ Op(r) # "delete"
        /\ status' = [status EXCEPT ![Doc(r)] = "in_sync"]
        /\ Goto(r, "report")
        /\ UNCHANGED <<lock, job>>
     \/ /\ "status" \in Faults
        /\ Raise(r)
        /\ UNCHANGED status
  /\ UNCHANGED <<disk, rows, bounds>>

\* return await self.get_sync_status(...), still inside the try.
Report(r) ==
  /\ pc[r] = "report"
  /\ \/ Finish(r)
     \/ "report" \in Faults /\ Raise(r)
  /\ UNCHANGED <<disk, rows, status, bounds>>

-----------------------------------------------------------------------------
(***************************************************************************)
(* Failure                                                                 *)
(***************************************************************************)
\* The file half of the except clauses.
Rollback(r) ==
  LET d == Doc(r) IN
  /\ pc[r] = "rollback"
  /\ \/ /\ Op(r) = "create"
        /\ file' = [file EXCEPT ![d] = NoFile]
        /\ UNCHANGED <<bak, del>>
     \/ /\ Op(r) = "update"
        /\ file' = [file EXCEPT ![d] = bak[d]]
        /\ bak' = [bak EXCEPT ![d] = NoFile]
        /\ UNCHANGED del
     \/ /\ Op(r) = "delete"
        /\ file' = [file EXCEPT ![d] = IF del[d] = NoFile THEN @ ELSE del[d]]
        /\ del' = [del EXCEPT ![d] = NoFile]
        /\ UNCHANGED bak
  /\ Goto(r, "fail")
  /\ UNCHANGED <<rows, status, lock, job, bounds>>

\* The unlink or the rename of an except clause raises in its turn: the new
\* exception leaves the lock, and ERROR is never written.
RollbackFails(r) ==
  LET d == Doc(r) IN
  /\ pc[r] = "rollback"
  /\ "undo" \in Faults
  /\ \/ /\ IF Op(r) = "delete" THEN del[d] # NoFile ELSE file[d] # NoFile
        /\ UNCHANGED file
     \/ /\ Op(r) = "update" /\ bak[d] # NoFile
        /\ file' = [file EXCEPT ![d] = NoFile]
  /\ Finish(r)
  /\ UNCHANGED <<bak, del, rows, status, bounds>>

\* asyncio.wait_for gives up on _do_reindex.
Timeout(r) ==
  /\ Op(r) = "reindex"
  /\ pc[r] \in {"purge", "embed", "insert", "cleanup", "commit", "report"}
  /\ Goto(r, "fail")
  /\ UNCHANGED <<disk, rows, status, lock, job, bounds>>

\* update_sync_status(ERROR), and the exception leaves the lock or semaphore.
Fail(r) ==
  /\ pc[r] = "fail"
  /\ \/ status' = [status EXCEPT ![Doc(r)] = "error"]
     \/ "status" \in Faults /\ UNCHANGED status
  /\ Finish(r)
  /\ UNCHANGED <<disk, rows, bounds>>

\* The process dies; the locks and the requests die with it.
Crash ==
  /\ crashes < MaxCrashes
  /\ crashes' = crashes + 1
  /\ pc' = [r \in Reqs |-> "idle"]
  /\ lock' = [d \in Docs |-> NoReq]
  /\ job' = [r \in Reqs |-> NoJob]
  /\ UNCHANGED <<disk, rows, status, clock>>

-----------------------------------------------------------------------------
Init ==
  /\ file = [d \in Docs |-> NoFile]
  /\ bak = [d \in Docs |-> NoFile]
  /\ del = [d \in Docs |-> NoFile]
  /\ rows = {}
  /\ status = [d \in Docs |-> "none"]
  /\ lock = [d \in Docs |-> NoReq]
  /\ pc = [r \in Reqs |-> "idle"]
  /\ job = [r \in Reqs |-> NoJob]
  /\ clock = 0
  /\ crashes = 0

Request(r) ==
  \E d \in Docs :
    \/ RequestCreate(r, d)
    \/ RequestUpdate(r, d)
    \/ RequestDelete(r, d)
    \/ RequestReindex(r, d)
    \/ RequestBulkDelete(r, d)
    \/ ResolveKeepFilesystem(r, d)
    \/ ResolveKeepDatabase(r, d)

\* What the event loop, the pool and the embedding service do for a request.
Serve(r) ==
  \/ Mark(r)
  \/ CreateFile(r)
  \/ ReplaceFile(r)
  \/ MoveAside(r)
  \/ ReadFile(r)
  \/ Purge(r)
  \/ Embed(r)
  \/ Insert(r)
  \/ CleanUp(r)
  \/ Commit(r)
  \/ Report(r)
  \/ Rollback(r)
  \/ RollbackFails(r)
  \/ Fail(r)

Next ==
  \/ \E r \in Reqs : Request(r) \/ Refuse(r) \/ Acquire(r) \/ Serve(r) \/ Timeout(r)
  \/ \E d \in Docs : ExternalEdit(d)
  \/ Crash

Spec == Init /\ [][Next]_vars

\* Awaited calls return or raise, and asyncio hands a lock or a semaphore to
\* its waiters in the order they came, so no waiter is passed over for ever.
FairSpec ==
  /\ Spec
  /\ \A r \in Reqs : WF_vars(Serve(r)) /\ SF_vars(Refuse(r) \/ Acquire(r))


-----------------------------------------------------------------------------
(***************************************************************************)
(* Properties                                                              *)
(***************************************************************************)
\* Every variable has its type.
TypeOK ==
  /\ file \in [Docs -> Files \cup {NoFile}]
  /\ bak \in [Docs -> Files \cup {NoFile}]
  /\ del \in [Docs -> Files \cup {NoFile}]
  /\ rows \subseteq Row
  /\ status \in [Docs -> {"none", "processing", "in_sync", "error"}]
  /\ lock \in [Docs -> Reqs \cup {NoReq}]
  /\ pc \in [Reqs -> PC]
  /\ job \in [Reqs -> Job]
  /\ clock \in 0..MaxWrites
  /\ crashes \in 0..MaxCrashes

\* The requests inside "async with lock" are exactly the owners of the locks:
\* no path is worked on by two of them, and no lock outlives its request.
LockOwnership ==
  /\ \A r \in Reqs : Locked(r) => lock[Doc(r)] = r
  /\ \A d \in Docs : lock[d] # NoReq => Locked(lock[d]) /\ Doc(lock[d]) = d

\* Row set f is a complete index of the file of d.
IsIndex(f, d) ==
  \E q \in Reqs : f = {[doc |-> d, fid |-> q, text |-> file[d].text, level |-> i]
                         : i \in 1..Levels}

\* A document reported in_sync has its file, and every chunk of that file is
\* searchable: PROCESSING is written before the first destructive step and
\* IN_SYNC after the last, whatever fails or crashes in between.
InSyncComplete ==
  \A d \in Docs : status[d] = "in_sync" =>
    /\ file[d] # NoFile
    /\ \E q \in Reqs : \A i \in 1..Levels :
         [doc |-> d, fid |-> q, text |-> file[d].text, level |-> i] \in rows

\* A document reported in_sync has the chunks of its file and no others: no
\* search finds text the document no longer contains.
InSyncExact ==
  \A d \in Docs : status[d] = "in_sync" => file[d] # NoFile /\ IsIndex(RowsOf(d), d)

\* validate_chunk_hierarchy finds every parent_chunk_id among the chunks of
\* the document, whoever inserts and deletes concurrently.
ChunksHaveParents ==
  \A c \in rows : c.level > 1 => [c EXCEPT !.level = c.level - 1] \in rows

\* An update that names the version it edited replaces that version only.
NoLostUpdate ==
  [][\A r \in Reqs :
       (Op(r) = "update" /\ pc[r] = "files" /\ pc'[r] = "purge" /\ job[r].seen # 0)
         => file[Doc(r)].mtime = job[r].seen]_vars

\* Every request that is accepted is answered.
EveryRequestEnds == \A r \in Reqs : pc[r] # "idle" ~> pc[r] = "idle"

\* A document does not stay in "processing": whichever call of an operation
\* fails or times out, a status is written at the end, as long as the process
\* lives, the status table can be written and the except clauses can restore
\* the files.  (A rollback that raises, a crash or a failing statement leaves
\* it there.)
ProcessingEnds ==
  \A d \in Docs : status[d] = "processing" ~> status[d] # "processing"

Failing(r, o) == Op(r) = o /\ pc[r] = "fail" /\ pc'[r] = "idle"

\* A failed update leaves the document's file in place.
\* ("Update: .md.bak (renamed back on failure)")
FailedUpdateKeepsFile ==
  [][\A r \in Reqs : Failing(r, "update") => file[Doc(r)] # NoFile]_vars

=============================================================================
