------------------------- MODULE DocumentSyncProofs -------------------------
(***************************************************************************)
(* Theorems about DocumentSync.                                            *)
(***************************************************************************)
EXTENDS DocumentSyncRefinement, TLAPS

\* Where a request of each operation can be.
Stage(o, p) ==
  /\ o = "none" <=> p = "idle"
  /\ o = "create" => p # "purge"
  /\ o = "delete" => p \notin {"embed", "insert", "report"}
  /\ o = "reindex" => p # "rollback"
  /\ o = "bulk" => p \in {"purge", "cleanup"}

\* A request follows its operation, carries the text it will store or index,
\* and counts the rows it has inserted.
Flow ==
  \A r \in Reqs :
    /\ Stage(job[r].op, pc[r])
    /\ job[r].op \in {"create", "update"} =>
         job[r].text \in Texts /\ job[r].mtime \in 1..MaxWrites
    /\ (job[r].op = "reindex" /\ pc[r] \in {"purge", "embed", "insert"}) =>
         job[r].text \in Texts
    /\ pc[r] \in {"wait", "mark", "files", "purge", "embed"} => job[r].done = 0
    /\ pc[r] = "insert" => job[r].done < Levels

TypeInv == TypeOK /\ Flow

LEMMA NoJobType == NoJob \in Job /\ NoJob.op = "none"
  BY SyncAssumption DEF NoJob, Job, Texts, NotFoundText, NoText

LEMMA TypeInit == Init => TypeInv
  BY NoJobType, SyncAssumption DEF Init, TypeInv, TypeOK, Flow, Files, NoFile, Stage, PC, NoText

\* Leaving keeps the types: the request is idle without a job.
LEMMA FinishType ==
  ASSUME TypeInv, NEW r \in Reqs, Finish(r)
  PROVE  /\ pc' \in [Reqs -> PC] /\ job' \in [Reqs -> Job]
         /\ lock' \in [Docs -> Reqs \cup {NoReq}]
         /\ Flow'
  BY NoJobType DEF TypeInv, TypeOK, Flow, Finish, Stage, PC, Doc, Job

LEMMA RaiseType ==
  ASSUME TypeInv, NEW r \in Reqs, Raise(r), pc[r] \notin {"idle", "wait", "mark"}
  PROVE  /\ pc' \in [Reqs -> PC] /\ job' \in [Reqs -> Job]
         /\ lock' \in [Docs -> Reqs \cup {NoReq}]
         /\ Flow'
  <1>1. CASE Op(r) = "bulk"
    BY <1>1, FinishType DEF Raise
  <1>2. CASE Op(r) # "bulk"
    BY <1>2 DEF TypeInv, TypeOK, Flow, Raise, Goto, Stage, PC, Op, Job
  <1> QED BY <1>1, <1>2

LEMMA NewJobType ==
  ASSUME TypeInv, NEW r \in Reqs, NEW o, NEW d \in Docs, NEW t, NEW m, NEW s,
         NewJob(r, o, d, t, m, s), NEW l, Goto(r, l), l # "insert",
         o \in {"create", "update", "delete", "reindex", "bulk"},
         t \in Texts \cup {NoText}, m \in 0..MaxWrites, s \in 0..MaxWrites,
         o \in {"create", "update"} => t \in Texts /\ m \in 1..MaxWrites,
         l \in PC, Stage(o, l), l = "purge" => o = "bulk",
         l # "embed"
  PROVE  /\ pc' \in [Reqs -> PC] /\ job' \in [Reqs -> Job]
         /\ UNCHANGED <<file, bak, del, rows, status, lock, crashes>>
         /\ Flow'
  BY SyncAssumption DEF TypeInv, TypeOK, Flow, NewJob, Goto, Stage, PC, Job

LEMMA RequestType ==
  ASSUME TypeInv, NEW r \in Reqs, Request(r)
  PROVE  TypeInv'
  <1> PICK d \in Docs :
        \/ RequestCreate(r, d) \/ RequestUpdate(r, d) \/ RequestDelete(r, d)
        \/ RequestReindex(r, d) \/ RequestBulkDelete(r, d)
        \/ ResolveKeepFilesystem(r, d) \/ ResolveKeepDatabase(r, d)
    BY DEF Request
  <1> USE SyncAssumption
  <1>m. file[d].mtime \in 0..MaxWrites
    BY DEF TypeInv, TypeOK, Files, NoFile
  <1>c. clock < MaxWrites => clock + 1 \in 1..MaxWrites /\ clock + 1 \in Texts
    BY DEF TypeInv, TypeOK, Texts, NotFoundText
  <1>1. ASSUME NEW o \in {"create", "update"}, RequestWrite(r, o, d)
        PROVE  TypeInv'
    <2> PICK s \in {0, file[d].mtime} :
          NewJob(r, o, d, clock + 1, clock + 1, IF o = "update" THEN s ELSE 0)
      BY <1>1 DEF RequestWrite
    <2>1. /\ pc' \in [Reqs -> PC] /\ job' \in [Reqs -> Job]
          /\ UNCHANGED <<file, bak, del, rows, status, lock, crashes>>
          /\ Flow'
      <3> DEFINE m == clock + 1
                 u == IF o = "update" THEN s ELSE 0
      <3>1. /\ NewJob(r, o, d, m, m, u) /\ Goto(r, "wait")
            /\ m \in 1..MaxWrites /\ m \in 0..MaxWrites /\ m \in Texts
            /\ u \in 0..MaxWrites
        BY <1>1, <1>m, <1>c DEF RequestWrite
      <3>2. Stage(o, "wait") /\ "wait" \in PC
        BY DEF Stage, PC
      <3> HIDE DEF m, u
      <3> QED BY <3>1, <3>2, NewJobType
    <2> QED BY <2>1, <1>1, <1>c DEF RequestWrite, TypeInv, TypeOK
  <1>2. ASSUME NEW o \in {"delete", "reindex", "bulk"}, NEW l \in {"wait", "purge"},
               o = "bulk" <=> l = "purge",
               NewJob(r, o, d, NoText, 0, 0), Goto(r, l), UNCHANGED clock
        PROVE  TypeInv'
    <2>1. /\ pc' \in [Reqs -> PC] /\ job' \in [Reqs -> Job]
          /\ UNCHANGED <<file, bak, del, rows, status, lock, crashes>>
          /\ Flow'
      BY <1>2, NewJobType DEF Stage, PC
    <2> QED BY <2>1, <1>2 DEF TypeInv, TypeOK
  <1>3. ASSUME NEW o, NEW t \in Texts, Resolve(r, o, d, t)
        PROVE  TypeInv'
    <2>1. /\ pc' \in [Reqs -> PC] /\ job' \in [Reqs -> Job]
          /\ UNCHANGED <<file, bak, del, rows, status, lock, crashes>>
          /\ Flow'
      <3>1. /\ NewJob(r, "update", d, t, clock + 1, 0) /\ Goto(r, "wait")
            /\ clock + 1 \in 1..MaxWrites /\ clock + 1 \in 0..MaxWrites
            /\ 0 \in 0..MaxWrites
        BY <1>3, <1>c DEF Resolve
      <3>2. Stage("update", "wait") /\ "wait" \in PC
        BY DEF Stage, PC
      <3> DEFINE m == clock + 1
      <3>3. NewJob(r, "update", d, t, m, 0) /\ m \in 1..MaxWrites /\ m \in 0..MaxWrites
        BY <3>1
      <3> HIDE DEF m
      <3> QED BY <3>1, <3>2, <3>3, NewJobType
    <2> QED BY <2>1, <1>3, <1>c DEF Resolve, TypeInv, TypeOK
  <1>4. CASE RequestCreate(r, d)
    BY <1>4, <1>1 DEF RequestCreate
  <1>5. CASE RequestUpdate(r, d)
    BY <1>5, <1>1 DEF RequestUpdate
  <1>6. CASE RequestDelete(r, d)
    BY <1>6, <1>2 DEF RequestDelete
  <1>7. CASE RequestReindex(r, d)
    BY <1>7, <1>2 DEF RequestReindex
  <1>8. CASE RequestBulkDelete(r, d)
    BY <1>8, <1>2 DEF RequestBulkDelete
  <1>9. CASE ResolveKeepFilesystem(r, d)
    <2>1. file[d].text \in Texts
      BY <1>9 DEF ResolveKeepFilesystem, TypeInv, TypeOK, Files
    <2> QED BY <2>1, <1>9, <1>3 DEF ResolveKeepFilesystem
  <1>10. CASE ResolveKeepDatabase(r, d)
    <2>1. DatabaseText(d) \in Texts
      BY DEF DatabaseText, TypeInv, TypeOK, Row, Texts, NotFoundText
    <2> QED BY <2>1, <1>10, <1>3 DEF ResolveKeepDatabase
  <1> QED BY <1>4, <1>5, <1>6, <1>7, <1>8, <1>9, <1>10

LEMMA ServeType ==
  ASSUME TypeInv, NEW r \in Reqs, Serve(r)
  PROVE  TypeInv'
  <1> USE SyncAssumption DEF TypeInv, TypeOK, bounds, disk
  <1> DEFINE Raised == /\ pc' \in [Reqs -> PC] /\ job' \in [Reqs -> Job]
                       /\ lock' \in [Docs -> Reqs \cup {NoReq}]
                       /\ Flow'
  <1>r. ASSUME Raise(r), pc[r] \notin {"idle", "wait", "mark"} PROVE Raised
    BY <1>r, RaiseType
  <1>f. ASSUME Finish(r) PROVE Raised
    BY <1>f, FinishType
  <1>d. Doc(r) \in Docs /\ job[r] \in Job
    BY DEF Doc, Job
  <1>1. CASE Mark(r)
    <2>1. CASE Finish(r)
      BY <2>1, <1>1, <1>f DEF Mark
    <2>2. CASE ~Finish(r)
      BY <2>2, <1>1, <1>d DEF Mark, Goto, Flow, Stage, PC
    <2> QED BY <2>1, <2>2
  <1>2. CASE CreateFile(r)
    <2>0. NewFile(r) \in Files
      BY <1>2, <1>d DEF CreateFile, NewFile, Files, Flow, Op
    <2>1. CASE Raise(r)
      BY <2>0, <2>1, <1>2, <1>d, <1>r DEF CreateFile
    <2>2. CASE ~Raise(r)
      BY <2>0, <2>2, <1>2, <1>d DEF CreateFile, Goto, Flow, Stage, PC, Op
    <2> QED BY <2>1, <2>2
  <1>3. CASE ReplaceFile(r)
    <2>0. NewFile(r) \in Files
      BY <1>3, <1>d DEF ReplaceFile, NewFile, Files, Flow, Op
    <2>1. CASE Raise(r)
      BY <2>0, <2>1, <1>3, <1>d, <1>r DEF ReplaceFile, NewFile, Files, Flow, Op
    <2>2. CASE ~Raise(r)
      BY <2>0, <2>2, <1>3, <1>d, SMTT(30) DEF ReplaceFile, Goto, Flow, Stage, PC, Op
    <2> QED BY <2>1, <2>2
  <1>4. CASE MoveAside(r)
    <2>1. CASE Raise(r)
      BY <2>1, <1>4, <1>d, <1>r DEF MoveAside
    <2>2. CASE ~Raise(r)
      BY <2>2, <1>4, <1>d DEF MoveAside, Goto, Flow, Stage, PC, Op
    <2> QED BY <2>1, <2>2
  <1>5. CASE ReadFile(r)
    <2>1. CASE Raise(r)
      BY <2>1, <1>5, <1>d, <1>r DEF ReadFile
    <2>2. CASE ~Raise(r)
      <3>1. file[Doc(r)].text \in Texts /\ file[Doc(r)] # NoFile
        BY <2>2, <1>5, <1>d DEF ReadFile, Files
      <3>2. /\ job' = [job EXCEPT ![r].text = file[Doc(r)].text]
            /\ pc' = [pc EXCEPT ![r] = "purge"]
            /\ job[r].op = "reindex" /\ pc[r] = "files"
        BY <2>2, <1>5 DEF ReadFile, Goto, Op
      <3>3. job' \in [Reqs -> Job] /\ pc' \in [Reqs -> PC]
        BY <3>1, <3>2, <1>d DEF Job, PC
      <3>4. Flow'
        BY <3>1, <3>2, <1>d DEF Flow, Stage, Job
      <3> QED BY <3>3, <3>4, <2>2, <1>5 DEF ReadFile
    <2> QED BY <2>1, <2>2
  <1>6. CASE Purge(r)
    <2>1. CASE Raise(r)
      BY <2>1, <1>6, <1>r DEF Purge, Purged, RowsOf
    <2>2. CASE ~Raise(r)
      BY <2>2, <1>6, <1>d DEF Purge, Purged, RowsOf, Goto, Flow, Stage, PC, Op
    <2> QED BY <2>1, <2>2
  <1>7. CASE Embed(r)
    <2>1. CASE Raise(r)
      BY <2>1, <1>7, <1>r DEF Embed
    <2>2. CASE ~Raise(r)
      BY <2>2, <1>7, <1>d DEF Embed, Goto, Flow, Stage, PC, Op
    <2> QED BY <2>1, <2>2
  <1>8. CASE Insert(r)
    <2>1. CASE Raise(r) /\ UNCHANGED rows
      BY <2>1, <1>8, <1>r DEF Insert
    <2>2. CASE ~(Raise(r) /\ UNCHANGED rows)
      <3>1. NextRow(r) \in Row
        <4>1. job[r].text \in Texts
          BY <1>8, <1>d DEF Insert, Flow, Stage, Job
        <4>2. job[r].done + 1 \in 1..Levels
          BY <1>8, <1>d DEF Insert, Flow, Job
        <4> QED BY <4>1, <4>2, <1>d DEF NextRow, Row
      <3>2. job[r].done + 1 \in 0..Levels /\ job[r].done \in 0..Levels
        BY <1>8, <1>d DEF Insert, Flow, Job
      <3>3. pc' \in [Reqs -> PC] /\ job' \in [Reqs -> Job] /\ rows' \subseteq Row
        BY <3>1, <3>2, <2>2, <1>8, <1>d DEF Insert, Goto, PC, Job
      <3>4. Flow'
        BY <3>2, <2>2, <1>8, <1>d DEF Insert, Goto, Flow, Stage, Job
      <3> QED BY <3>3, <3>4, <2>2, <1>8 DEF Insert
    <2> QED BY <2>1, <2>2
  <1>9. CASE CleanUp(r)
    <2>0. /\ file' \in [Docs -> Files \cup {NoFile}]
          /\ bak' \in [Docs -> Files \cup {NoFile}]
          /\ del' \in [Docs -> Files \cup {NoFile}]
      BY <1>9, <1>d DEF CleanUp
    <2>1. CASE Raise(r)
      BY <2>0, <2>1, <1>9, <1>r DEF CleanUp
    <2>2. CASE ~Raise(r)
      BY <2>0, <2>2, <1>9, <1>d DEF CleanUp, Goto, Flow, Stage, PC, Op
    <2> QED BY <2>1, <2>2
  <1>10. CASE Commit(r)
    <2>1. CASE Raise(r)
      BY <2>1, <1>10, <1>d, <1>r DEF Commit
    <2>2. CASE Finish(r)
      BY <2>2, <1>10, <1>d, <1>f DEF Commit
    <2>3. CASE ~Raise(r) /\ ~Finish(r)
      BY <2>3, <1>10, <1>d DEF Commit, Goto, Flow, Stage, PC, Op
    <2> QED BY <2>1, <2>2, <2>3
  <1>11. CASE Report(r)
    <2>1. CASE Raise(r)
      BY <2>1, <1>11, <1>r DEF Report
    <2>2. CASE Finish(r)
      BY <2>2, <1>11, <1>f DEF Report
    <2> QED BY <1>11, <2>1, <2>2 DEF Report
  <1>12. CASE Rollback(r)
    <2>1. /\ file' \in [Docs -> Files \cup {NoFile}]
          /\ bak' \in [Docs -> Files \cup {NoFile}]
          /\ del' \in [Docs -> Files \cup {NoFile}]
      BY <1>12, <1>d DEF Rollback
    <2>2. pc' \in [Reqs -> PC] /\ Flow'
      BY <1>12, <1>d DEF Rollback, Goto, Flow, Stage, PC, Op
    <2> QED BY <2>1, <2>2, <1>12 DEF Rollback
  <1>13. CASE Fail(r)
    BY <1>13, <1>d, <1>f DEF Fail
  <1>14. CASE RollbackFails(r)
    <2>1. file' \in [Docs -> Files \cup {NoFile}]
      BY <1>14, <1>d DEF RollbackFails
    <2> QED BY <2>1, <1>14, <1>f DEF RollbackFails
  <1> QED BY <1>1, <1>2, <1>3, <1>4, <1>5, <1>6, <1>7, <1>8, <1>9, <1>10,
             <1>11, <1>12, <1>13, <1>14 DEF Serve

LEMMA TypeStep == TypeInv /\ [Next]_vars => TypeInv'
  <1> SUFFICES ASSUME TypeInv, [Next]_vars PROVE TypeInv'
    OBVIOUS
  <1>1. ASSUME NEW r \in Reqs, Request(r) PROVE TypeInv'
    BY <1>1, RequestType
  <1>2. ASSUME NEW r \in Reqs, Refuse(r) PROVE TypeInv'
    BY <1>2, FinishType DEF Refuse, TypeInv, TypeOK, bounds, disk
  <1>3. ASSUME NEW r \in Reqs, Acquire(r) PROVE TypeInv'
    BY <1>3 DEF Acquire, Goto, TypeInv, TypeOK, Flow, Stage, PC, bounds, disk, Doc, Job
  <1>4. ASSUME NEW r \in Reqs, Serve(r) PROVE TypeInv'
    BY <1>4, ServeType
  <1>5. ASSUME NEW r \in Reqs, Timeout(r) PROVE TypeInv'
    BY <1>5 DEF Timeout, Goto, TypeInv, TypeOK, Flow, Stage, PC, bounds, disk, Op
  <1>6. ASSUME NEW d \in Docs, ExternalEdit(d) PROVE TypeInv'
    <2>1. clock + 1 \in 1..MaxWrites /\ clock + 1 \in Texts
      BY <1>6, SyncAssumption DEF ExternalEdit, TypeInv, TypeOK, Texts, NotFoundText
    <2> QED BY <2>1, <1>6, SyncAssumption DEF ExternalEdit, TypeInv, TypeOK, Flow, Files
  <1>7. CASE Crash
    BY <1>7, NoJobType, SyncAssumption DEF Crash, TypeInv, TypeOK, Flow, Stage, PC, disk
  <1>8. CASE UNCHANGED vars
    BY <1>8 DEF vars, TypeInv, TypeOK, Flow
  <1> QED BY <1>1, <1>2, <1>3, <1>4, <1>5, <1>6, <1>7, <1>8 DEF Next

\* Every reachable state is well typed (TypeOK), and every request is at a
\* stage of its own operation.
THEOREM Typing == Spec => [](TypeOK /\ Flow)
  <1>1. Init => TypeInv
    BY TypeInit
  <1>2. TypeInv /\ [Next]_vars => TypeInv'
    BY TypeStep
  <1> QED BY <1>1, <1>2, PTL DEF Spec, TypeInv

-----------------------------------------------------------------------------
(***************************************************************************)
(* The locks                                                               *)
(***************************************************************************)
LEMMA SameLock ==
  ASSUME LockOwnership, TypeInv, UNCHANGED lock,
         \A q \in Reqs : /\ Locked(q)' <=> Locked(q)
                         /\ Locked(q) => Doc(q)' = Doc(q)
  PROVE  LockOwnership'
  BY SyncAssumption DEF LockOwnership, TypeInv, TypeOK

LEMMA FinishLock ==
  ASSUME LockOwnership, TypeInv, NEW r \in Reqs, Finish(r)
  PROVE  LockOwnership'
  <1>1. \A q \in Reqs : q # r => (Locked(q)' <=> Locked(q)) /\ Doc(q)' = Doc(q)
    BY DEF Finish, Locked, Doc, Op, TypeInv, TypeOK
  <1>2. ~Locked(r)'
    BY DEF Finish, Locked, TypeInv, TypeOK
  <1>3. Doc(r) \in Docs
    BY DEF Doc, TypeInv, TypeOK, Job
  <1>4. \A d \in Docs : lock'[d] = IF d = Doc(r) /\ lock[d] = r THEN NoReq ELSE lock[d]
    BY <1>3 DEF Finish, TypeInv, TypeOK
  <1>5. \A q \in Reqs : Doc(q) \in Docs
    BY DEF Doc, TypeInv, TypeOK, Job
  <1> QED BY <1>1, <1>2, <1>3, <1>4, <1>5, SyncAssumption DEF LockOwnership, TypeInv, TypeOK

\* A step of a request between its first and its last one.
LEMMA InsideLock ==
  ASSUME LockOwnership, TypeInv, NEW r \in Reqs, NEW l, l \notin {"idle", "wait"},
         pc[r] \notin {"idle", "wait"}, Goto(r, l), UNCHANGED lock,
         \A q \in Reqs : job'[q].op = job[q].op /\ job'[q].doc = job[q].doc
  PROVE  LockOwnership'
  <1>1. \A q \in Reqs : /\ Locked(q)' <=> Locked(q)
                        /\ Doc(q)' = Doc(q)
    BY DEF Goto, Locked, Doc, Op, TypeInv, TypeOK
  <1> QED BY <1>1, SameLock

LEMMA RaiseLock ==
  ASSUME LockOwnership, TypeInv, NEW r \in Reqs, Raise(r), pc[r] \notin {"idle", "wait"}
  PROVE  LockOwnership'
  <1>1. CASE Op(r) = "bulk"
    BY <1>1, FinishLock DEF Raise
  <1>2. CASE Op(r) # "bulk"
    BY <1>2, InsideLock DEF Raise
  <1> QED BY <1>1, <1>2

LEMMA LockStep == TypeInv /\ LockOwnership /\ [Next]_vars => LockOwnership'
  <1> SUFFICES ASSUME TypeInv, LockOwnership, [Next]_vars PROVE LockOwnership'
    OBVIOUS
  <1>1. ASSUME NEW r \in Reqs, Request(r) PROVE LockOwnership'
    <2>1. UNCHANGED lock /\ pc[r] = "idle"
      BY <1>1 DEF Request, RequestCreate, RequestUpdate, RequestWrite, RequestDelete,
         RequestReindex, RequestBulkDelete, ResolveKeepFilesystem, ResolveKeepDatabase,
         Resolve, NewJob
    <2>2. \A q \in Reqs : q # r => pc'[q] = pc[q] /\ job'[q] = job[q]
      BY <1>1 DEF Request, RequestCreate, RequestUpdate, RequestWrite, RequestDelete,
         RequestReindex, RequestBulkDelete, ResolveKeepFilesystem, ResolveKeepDatabase,
         Resolve, NewJob, Goto, TypeInv, TypeOK
    <2>3. pc'[r] = "wait" \/ job'[r].op = "bulk"
      BY <1>1 DEF Request, RequestCreate, RequestUpdate, RequestWrite, RequestDelete,
         RequestReindex, RequestBulkDelete, ResolveKeepFilesystem, ResolveKeepDatabase,
         Resolve, NewJob, Goto, TypeInv, TypeOK
    <2> QED BY <2>1, <2>2, <2>3, SameLock DEF Locked, Op, Doc
  <1>2. ASSUME NEW r \in Reqs, Refuse(r) PROVE LockOwnership'
    BY <1>2, FinishLock DEF Refuse
  <1>3. ASSUME NEW r \in Reqs, Acquire(r) PROVE LockOwnership'
    <2>0. /\ Doc(r) \in Docs /\ r # NoReq
          /\ \A q \in Reqs : Doc(q)' = Doc(q) /\ Op(q)' = Op(q) /\ Doc(q) \in Docs
          /\ pc' = [pc EXCEPT ![r] = "mark"] /\ pc[r] = "wait"
      BY <1>3, SyncAssumption DEF Acquire, Goto, Doc, Op, TypeInv, TypeOK, Job
    <2>1. CASE Op(r) = "reindex"
      BY <2>0, <2>1, <1>3, SameLock DEF Acquire, Locked, TypeInv, TypeOK
    <2>2. CASE Op(r) # "reindex"
      <3>1. Op(r) \in {"create", "update", "delete"}
        BY <2>0, <2>2 DEF TypeInv, TypeOK, Flow, Stage, Op, Job
      <3>2. lock[Doc(r)] = NoReq /\ lock' = [lock EXCEPT ![Doc(r)] = r]
        BY <2>2, <1>3 DEF Acquire, Admitted
      <3>3. \A q \in Reqs : Locked(q)' <=> (Locked(q) \/ q = r)
        BY <2>0, <3>1 DEF Locked, TypeInv, TypeOK
      <3>4. \A d \in Docs : lock'[d] = IF d = Doc(r) THEN r ELSE lock[d]
        BY <2>0, <3>2 DEF TypeInv, TypeOK
      <3>5. \A q \in Reqs : Locked(q) => lock[Doc(q)] = q /\ Doc(q) # Doc(r)
        BY <3>2, SyncAssumption DEF LockOwnership
      <3>6. \A d \in Docs : lock[d] # NoReq => lock[d] \in Reqs /\ Locked(lock[d]) /\ Doc(lock[d]) = d
        BY DEF LockOwnership, TypeInv, TypeOK
      <3> QED BY <2>0, <3>3, <3>4, <3>5, <3>6 DEF LockOwnership
    <2> QED BY <2>1, <2>2
  <1>4. ASSUME NEW r \in Reqs, Serve(r) PROVE LockOwnership'
    <2>1. \/ Finish(r)
          \/ Raise(r) /\ pc[r] \notin {"idle", "wait"}
          \/ /\ \E l \in PC \ {"idle", "wait"} : Goto(r, l)
             /\ pc[r] \notin {"idle", "wait"} /\ UNCHANGED lock
             /\ \A q \in Reqs : job'[q].op = job[q].op /\ job'[q].doc = job[q].doc
      <3> DEFINE P == \/ Finish(r)
                      \/ Raise(r) /\ pc[r] \notin {"idle", "wait"}
                      \/ /\ \E l \in PC \ {"idle", "wait"} : Goto(r, l)
                         /\ pc[r] \notin {"idle", "wait"} /\ UNCHANGED lock
                         /\ \A q \in Reqs : job'[q].op = job[q].op /\ job'[q].doc = job[q].doc
      <3>1. CASE Mark(r) \/ CreateFile(r) \/ ReplaceFile(r) \/ MoveAside(r)
        BY <3>1 DEF Mark, CreateFile, ReplaceFile, MoveAside, PC
      <3>2. CASE ReadFile(r)
        <4>1. CASE Raise(r)
          BY <4>1, <3>2 DEF ReadFile
        <4>2. CASE ~Raise(r)
          <5>1. /\ job' = [job EXCEPT ![r].text = file[Doc(r)].text]
                /\ Goto(r, "purge") /\ UNCHANGED lock /\ pc[r] = "files"
            BY <4>2, <3>2 DEF ReadFile
          <5>2. \A q \in Reqs : job'[q].op = job[q].op /\ job'[q].doc = job[q].doc
            BY <5>1 DEF TypeInv, TypeOK, Job
          <5> QED BY <5>1, <5>2 DEF PC
        <4> QED BY <4>1, <4>2
      <3>3. CASE Purge(r) \/ Embed(r) \/ CleanUp(r)
        BY <3>3 DEF Purge, Embed, CleanUp, PC
      <3>4. CASE Insert(r)
        BY <3>4 DEF Insert, PC, TypeInv, TypeOK, Job
      <3>5. CASE Commit(r) \/ Report(r) \/ Rollback(r) \/ RollbackFails(r) \/ Fail(r)
        BY <3>5 DEF Commit, Report, Rollback, RollbackFails, Fail, PC
      <3> QED BY <1>4, <3>1, <3>2, <3>3, <3>4, <3>5 DEF Serve
    <2> QED BY <2>1, FinishLock, RaiseLock, InsideLock
  <1>5. ASSUME NEW r \in Reqs, Timeout(r) PROVE LockOwnership'
    BY <1>5, InsideLock DEF Timeout
  <1>6. ASSUME NEW d \in Docs, ExternalEdit(d) PROVE LockOwnership'
    BY <1>6, SameLock DEF ExternalEdit, Locked, Doc, Op
  <1>7. CASE Crash
    BY <1>7 DEF Crash, LockOwnership, Locked
  <1>8. CASE UNCHANGED vars
    BY <1>8, SameLock DEF vars, Locked, Doc, Op
  <1> QED BY <1>1, <1>2, <1>3, <1>4, <1>5, <1>6, <1>7, <1>8 DEF Next

\* For every set of documents and requests: no two requests are inside
\* "async with lock" for the same path, and every held lock has a live owner.
THEOREM LocksAreOwned == Spec => []LockOwnership
  <1>1. Init => LockOwnership
    BY NoJobType DEF Init, LockOwnership, Locked, Op
  <1>2. TypeInv /\ LockOwnership /\ [Next]_vars => LockOwnership'
    BY LockStep
  <1>3. Spec => []TypeInv
    BY Typing DEF TypeInv
  <1> QED BY <1>1, <1>2, <1>3, PTL DEF Spec

-----------------------------------------------------------------------------
(***************************************************************************)
(* in_sync means indexed, when every operation takes the lock and the last *)
(* read does not fail.  A request is followed through its stages: from the *)
(* PROCESSING mark until the commit the status is "processing", from the   *)
(* write of the file on the file is the request's, and the rows it has     *)
(* inserted stay.                                                          *)
(***************************************************************************)
RowAt(r, i) == [doc |-> Doc(r), fid |-> r, text |-> job[r].text, level |-> i]

Writing(r) == Op(r) \in {"create", "update"}

DocOK(d) ==
  status[d] = "in_sync" =>
    /\ file[d] # NoFile
    /\ \E q \in Reqs : \A i \in 1..Levels :
         [doc |-> d, fid |-> q, text |-> file[d].text, level |-> i] \in rows

ReqOK(r) ==
  /\ Op(r) \notin {"reindex", "bulk"}
  /\ pc[r] \in {"files", "purge", "embed", "insert", "cleanup", "commit",
                "rollback", "fail"} => status[Doc(r)] = "processing"
  /\ Writing(r) /\ pc[r] \in {"purge", "embed", "insert", "cleanup", "commit"}
       => file[Doc(r)] = NewFile(r)
  /\ Writing(r) /\ pc[r] = "insert" => \A i \in 1..job[r].done : RowAt(r, i) \in rows
  /\ Writing(r) /\ pc[r] \in {"cleanup", "commit"} =>
       \A i \in 1..Levels : RowAt(r, i) \in rows

SyncInv ==
  /\ \A d \in Docs : DocOK(d)
  /\ \A r \in Reqs : ReqOK(r)

Base == TypeInv /\ LockOwnership /\ SyncInv

\* What a request inside the lock of e leaves alone.
Outside(r, e) ==
  /\ \A d \in Docs : d # e => file'[d] = file[d] /\ status'[d] = status[d]
  /\ \A c \in Row : c.doc # e => (c \in rows' <=> c \in rows)
  /\ \A q \in Reqs : q # r => pc'[q] = pc[q] /\ job'[q] = job[q]

LEMMA RowAtType ==
  ASSUME TypeInv, NEW q \in Reqs, Writing(q), NEW i \in 1..Levels
  PROVE  RowAt(q, i) \in Row
  BY DEF RowAt, Row, Writing, TypeInv, TypeOK, Flow, Op, Doc, Job

LEMMA DoneType ==
  ASSUME TypeInv, NEW q \in Reqs, NEW i \in 1..job[q].done
  PROVE  i \in 1..Levels
  BY SyncAssumption DEF TypeInv, TypeOK, Job

LEMMA Frame ==
  ASSUME Base, NEW r \in Reqs, Locked(r), NEW e \in Docs, Doc(r) = e,
         Outside(r, e), DocOK(e)', ReqOK(r)'
  PROVE  SyncInv'
  <1> USE DEF Base
  <1>1. ASSUME NEW d \in Docs PROVE DocOK(d)'
    <2>1. CASE d # e
      <3>1. DocOK(d)
        BY DEF SyncInv
      <3>2. file'[d] = file[d] /\ status'[d] = status[d]
        BY <2>1 DEF Outside
      <3>3. ASSUME file[d] # NoFile, NEW q \in Reqs, NEW i \in 1..Levels
            PROVE  [doc |-> d, fid |-> q, text |-> file[d].text, level |-> i] \in Row
        BY <3>3 DEF Row, Files, TypeInv, TypeOK
      <3> QED BY <2>1, <3>1, <3>2, <3>3 DEF DocOK, Outside
    <2> QED BY <2>1
  <1>2. ASSUME NEW q \in Reqs PROVE ReqOK(q)'
    <2>1. CASE q # r
      <3>1. ReqOK(q)
        BY DEF SyncInv
      <3>2. pc'[q] = pc[q] /\ job'[q] = job[q]
        BY <2>1 DEF Outside
      <3>3. CASE pc[q] \in {"idle", "wait"}
        BY <3>1, <3>2, <3>3 DEF ReqOK, Op
      <3>4. CASE pc[q] \notin {"idle", "wait"}
        <4>1. Locked(q)
          BY <3>1, <3>4 DEF Locked, ReqOK, Op, TypeInv, TypeOK, Flow, Stage, Job
        <4>2. Doc(q) \in Docs /\ Doc(q) # e
          BY <4>1, <2>1 DEF LockOwnership, Doc, TypeInv, TypeOK, Job
        <4>3. file'[Doc(q)] = file[Doc(q)] /\ status'[Doc(q)] = status[Doc(q)]
          BY <4>2 DEF Outside
        <4>4. ASSUME Writing(q), NEW i \in 1..Levels
              PROVE  RowAt(q, i) \in rows' <=> RowAt(q, i) \in rows
          BY <4>2, <4>4, RowAtType DEF Outside, RowAt
        <4>5. Doc(q)' = Doc(q) /\ Op(q)' = Op(q) /\ NewFile(q)' = NewFile(q)
              /\ Writing(q)' = Writing(q)
          BY <3>2 DEF Doc, Op, NewFile, Writing
        <4>6. \A i : RowAt(q, i)' = [doc |-> Doc(q), fid |-> q, text |-> job[q].text, level |-> i]
          BY <3>2, <4>5 DEF RowAt
        <4> QED BY <3>1, <3>2, <4>3, <4>4, <4>5, <4>6, DoneType DEF ReqOK, RowAt
      <3> QED BY <3>3, <3>4
    <2> QED BY <2>1
  <1> QED BY <1>1, <1>2 DEF SyncInv

LEMMA FinishReq ==
  ASSUME TypeInv, NEW r \in Reqs, Finish(r)
  PROVE  /\ ReqOK(r)'
         /\ \A q \in Reqs : q # r => pc'[q] = pc[q] /\ job'[q] = job[q]
  BY NoJobType DEF Finish, ReqOK, Op, Writing, TypeInv, TypeOK

LEMMA RaiseReq ==
  ASSUME Base, NEW r \in Reqs, Raise(r), UNCHANGED status,
         pc[r] \in {"files", "purge", "embed", "insert", "cleanup", "commit"}
  PROVE  /\ ReqOK(r)'
         /\ \A q \in Reqs : q # r => pc'[q] = pc[q] /\ job'[q] = job[q]
         /\ status[Doc(r)] = "processing"
  <1>1. /\ Op(r) \notin {"reindex", "bulk"}
        /\ status[Doc(r)] = "processing"
    BY DEF Base, SyncInv, ReqOK
  <1>2. pc' = [pc EXCEPT ![r] = "rollback"] /\ UNCHANGED job
    BY <1>1 DEF Raise, Goto
  <1> QED BY <1>1, <1>2 DEF Base, TypeInv, TypeOK, ReqOK, Op, Doc, Writing

\* A step that moves the request on and keeps what it is about.
LEMMA GotoReq ==
  ASSUME TypeInv, NEW r \in Reqs, NEW l, Goto(r, l), UNCHANGED job
  PROVE  /\ pc'[r] = l
         /\ \A q \in Reqs : q # r => pc'[q] = pc[q] /\ job'[q] = job[q]
         /\ Op(r)' = Op(r) /\ Doc(r)' = Doc(r) /\ NewFile(r)' = NewFile(r)
         /\ Writing(r)' = Writing(r)
         /\ \A i : RowAt(r, i)' = RowAt(r, i)
         /\ job'[r] = job[r]
  BY DEF Goto, TypeInv, TypeOK, Op, Doc, NewFile, Writing, RowAt

\* While the status is "processing" nothing is promised about the document.
LEMMA NotInSync ==
  ASSUME NEW d \in Docs, status'[d] # "in_sync"
  PROVE  DocOK(d)'
  BY DEF DocOK

LEMMA SyncServe ==
  ASSUME Base, NEW r \in Reqs, Serve(r), "report" \notin Faults
  PROVE  SyncInv'
  <1> USE SyncAssumption DEF Base
  <1>e. PICK e \in Docs : e = Doc(r)
    BY DEF Doc, TypeInv, TypeOK, Job
  <1> USE <1>e
  <1>0. /\ e \in Docs /\ job[r] \in Job /\ ReqOK(r)
        /\ pc[r] \notin {"idle", "wait"}
        /\ Stage(Op(r), pc[r]) /\ Flow
        /\ Op(r) \in {"create", "update", "delete"}
    BY DEF Serve, Mark, CreateFile, ReplaceFile, MoveAside, ReadFile, Purge,
         Embed, Insert, CleanUp, Commit, Report, Rollback, RollbackFails, Fail,
         Doc, Op, TypeInv, TypeOK, Job, SyncInv, ReqOK, Flow, Stage
  <1>l. Locked(r)
    BY <1>0 DEF Locked
  <1>s. DocOK(e)
    BY <1>0 DEF SyncInv
  <1>t. /\ file \in [Docs -> Files \cup {NoFile}]
        /\ status \in [Docs -> {"none", "processing", "in_sync", "error"}]
    BY DEF TypeInv, TypeOK
  <1> SUFFICES Outside(r, e) /\ DocOK(e)' /\ ReqOK(r)'
    BY <1>0, <1>l, Frame
  <1>q. ASSUME Finish(r) PROVE ReqOK(r)' /\ \A q \in Reqs : q # r => pc'[q] = pc[q] /\ job'[q] = job[q]
    BY <1>q, FinishReq
  <1>r. ASSUME Raise(r), UNCHANGED <<rows, status>>,
               pc[r] \in {"files", "purge", "embed", "insert", "cleanup", "commit"},
               \A d \in Docs : d # e => file'[d] = file[d]
        PROVE Outside(r, e) /\ DocOK(e)' /\ ReqOK(r)'
    BY <1>r, <1>0, RaiseReq, NotInSync DEF Outside
  <1>1. CASE Mark(r)
    <2>1. CASE Finish(r) /\ UNCHANGED status
      BY <2>1, <1>1, <1>q, <1>s DEF Mark, Outside, DocOK, disk
    <2>2. CASE ~(Finish(r) /\ UNCHANGED status)
      <3>1. /\ status' = [status EXCEPT ![e] = "processing"]
            /\ Goto(r, "files") /\ UNCHANGED <<job, file, rows>>
        BY <2>2, <1>1 DEF Mark, disk
      <3>2. status'[e] = "processing" /\ \A d \in Docs : d # e => status'[d] = status[d]
        BY <3>1, <1>0, <1>t
      <3>3. ReqOK(r)'
        BY <3>1, <3>2, <1>0, GotoReq DEF ReqOK
      <3> QED BY <3>1, <3>2, <3>3, <1>0, GotoReq, NotInSync DEF Outside
    <2> QED BY <2>1, <2>2
  <1>p. pc[r] \in {"files", "purge", "embed", "insert", "cleanup", "commit", "rollback", "fail"}
          => status[e] = "processing"
    BY <1>0 DEF ReqOK
  <1>2. CASE CreateFile(r)
    <2>1. CASE Raise(r) /\ UNCHANGED file
      BY <2>1, <1>2, <1>r DEF CreateFile
    <2>2. CASE ~(Raise(r) /\ UNCHANGED file)
      <3>1. /\ file' = [file EXCEPT ![e] = NewFile(r)] /\ Goto(r, "embed")
            /\ UNCHANGED <<job, rows, status>> /\ pc[r] = "files"
        BY <2>2, <1>2 DEF CreateFile
      <3>2. file'[e] = NewFile(r) /\ \A d \in Docs : d # e => file'[d] = file[d]
        BY <3>1, <1>0, <1>t
      <3>3. ReqOK(r)'
        BY <3>1, <3>2, <1>0, <1>p, GotoReq DEF ReqOK
      <3> QED BY <3>1, <3>2, <3>3, <1>0, <1>p, GotoReq, NotInSync DEF Outside
    <2> QED BY <2>1, <2>2
  <1>3. CASE ReplaceFile(r)
    <2>0. \A d \in Docs : d # e => file'[d] = file[d]
      BY <1>3, <1>0, <1>t DEF ReplaceFile
    <2>1. CASE Raise(r)
      BY <2>0, <2>1, <1>3, <1>r DEF ReplaceFile
    <2>2. CASE ~Raise(r)
      <3>1. /\ file' = [file EXCEPT ![e] = NewFile(r)] /\ Goto(r, "purge")
            /\ UNCHANGED <<job, rows, status>> /\ pc[r] = "files"
        BY <2>2, <1>3 DEF ReplaceFile
      <3>2. file'[e] = NewFile(r)
        BY <3>1, <1>0, <1>t
      <3>3. ReqOK(r)'
        BY <3>1, <3>2, <1>0, <1>p, GotoReq DEF ReqOK
      <3> QED BY <2>0, <3>1, <3>3, <1>0, <1>p, GotoReq, NotInSync DEF Outside
    <2> QED BY <2>1, <2>2
  <1>4. CASE MoveAside(r)
    <2>0. \A d \in Docs : d # e => file'[d] = file[d]
      BY <1>4, <1>0, <1>t DEF MoveAside
    <2>1. CASE Raise(r)
      BY <2>0, <2>1, <1>4, <1>r DEF MoveAside
    <2>2. CASE ~Raise(r)
      <3>1. /\ Goto(r, "purge") /\ UNCHANGED <<job, rows, status>>
            /\ pc[r] = "files" /\ ~Writing(r)
        BY <2>2, <1>4 DEF MoveAside, Writing
      <3>2. ReqOK(r)'
        BY <3>1, <1>0, <1>p, GotoReq DEF ReqOK
      <3> QED BY <2>0, <3>1, <3>2, <1>0, <1>p, GotoReq, NotInSync DEF Outside
    <2> QED BY <2>1, <2>2
  <1>5. CASE ReadFile(r)
    BY <1>5, <1>0 DEF ReadFile
  <1>6. CASE Purge(r)
    <2>1. CASE Raise(r) /\ UNCHANGED rows
      BY <2>1, <1>6, <1>r DEF Purge, Purged, disk
    <2>2. CASE ~(Raise(r) /\ UNCHANGED rows)
      <3> DEFINE l == IF Op(r) \in {"update", "reindex"} THEN "embed" ELSE "cleanup"
      <3>1. /\ rows' = rows \ RowsOf(e) /\ UNCHANGED <<file, status, job>>
            /\ Goto(r, l) /\ pc[r] = "purge"
        BY <2>2, <1>6 DEF Purge, Purged, disk
      <3>2. \A c \in Row : c.doc # e => (c \in rows' <=> c \in rows)
        BY <3>1 DEF RowsOf
      <3>3. Writing(r) => l = "embed"
        BY <1>0, <3>1 DEF Writing, Stage
      <3>4. l \in {"embed", "cleanup"}
        OBVIOUS
      <3> HIDE DEF l
      <3>5. ReqOK(r)'
        BY <3>1, <3>3, <3>4, <1>0, <1>p, GotoReq DEF ReqOK
      <3> QED BY <3>1, <3>2, <3>5, <1>0, <1>p, GotoReq, NotInSync DEF Outside
    <2> QED BY <2>1, <2>2
  <1>7. CASE Embed(r)
    <2>1. CASE Raise(r)
      BY <2>1, <1>7, <1>r DEF Embed, disk
    <2>2. CASE ~Raise(r)
      <3>1. /\ Goto(r, "insert") /\ UNCHANGED <<file, rows, status, job>>
            /\ pc[r] = "embed" /\ job[r].done = 0
        BY <2>2, <1>7, <1>0 DEF Embed, disk, Flow
      <3>2. ReqOK(r)'
        BY <3>1, <1>0, <1>p, GotoReq DEF ReqOK
      <3> QED BY <3>1, <3>2, <1>0, <1>p, GotoReq, NotInSync DEF Outside
    <2> QED BY <2>1, <2>2
  <1>8. CASE Insert(r)
    <2>1. CASE Raise(r) /\ UNCHANGED rows
      BY <2>1, <1>8, <1>r DEF Insert, disk
    <2>2. CASE ~(Raise(r) /\ UNCHANGED rows)
      <3> DEFINE n == job[r].done + 1
                 l == IF n = Levels THEN "cleanup" ELSE "insert"
      <3>1. /\ rows' = rows \cup {NextRow(r)} /\ UNCHANGED <<file, status>>
            /\ job' = [job EXCEPT ![r].done = n] /\ Goto(r, l)
            /\ pc[r] = "insert"
        BY <2>2, <1>8 DEF Insert, disk
      <3>2. /\ pc'[r] = l /\ job'[r] = [job[r] EXCEPT !.done = n]
            /\ \A q \in Reqs : q # r => pc'[q] = pc[q] /\ job'[q] = job[q]
        BY <3>1 DEF Goto, TypeInv, TypeOK
      <3>3. /\ Op(r)' = Op(r) /\ Doc(r)' = e /\ NewFile(r)' = NewFile(r)
            /\ Writing(r)' = Writing(r) /\ job'[r].done = n
            /\ \A i : RowAt(r, i)' = RowAt(r, i)
        BY <3>2, <1>0 DEF Op, Doc, NewFile, Writing, RowAt, Job
      <3>4. NextRow(r) = RowAt(r, n) /\ NextRow(r).doc = e
        BY DEF NextRow, RowAt
      <3>5. job[r].done \in 0..Levels /\ job[r].done < Levels
        BY <3>1, <1>0 DEF Flow, Job
      <3>6. ASSUME Writing(r), NEW i \in 1..n PROVE RowAt(r, i) \in rows'
        <4>1. CASE i = n
          BY <4>1, <3>1, <3>4
        <4>2. CASE i # n
          <5>1. i \in 1..job[r].done
            BY <4>2, <3>5
          <5> QED BY <5>1, <3>1, <3>6, <1>0 DEF ReqOK
        <4> QED BY <4>1, <4>2
      <3>7. l \in {"insert", "cleanup"} /\ (l = "cleanup" => n = Levels)
        OBVIOUS
      <3> HIDE DEF l, n
      <3>8. ReqOK(r)'
        BY <3>1, <3>2, <3>3, <3>6, <3>7, <1>0, <1>p DEF ReqOK
      <3>9. Outside(r, e)
        BY <3>1, <3>2, <3>4 DEF Outside
      <3> QED BY <3>1, <3>8, <3>9, <1>0, <1>p, NotInSync
    <2> QED BY <2>1, <2>2
  <1>9. CASE CleanUp(r)
    <2>0. UNCHANGED <<file, rows, status>> /\ pc[r] = "cleanup"
      BY <1>9, <1>0 DEF CleanUp, disk
    <2>1. CASE Raise(r)
      BY <2>0, <2>1, <1>r
    <2>2. CASE ~Raise(r)
      <3>1. Goto(r, "commit") /\ UNCHANGED job
        BY <2>2, <1>9 DEF CleanUp
      <3>2. ReqOK(r)'
        BY <2>0, <3>1, <1>0, <1>p, GotoReq DEF ReqOK
      <3> QED BY <2>0, <3>1, <3>2, <1>0, <1>p, GotoReq, NotInSync DEF Outside
    <2> QED BY <2>1, <2>2
  <1>10. CASE Commit(r)
    <2>0. UNCHANGED <<file, rows>> /\ pc[r] = "commit"
      BY <1>10 DEF Commit, disk
    <2>1. CASE Raise(r) /\ UNCHANGED status
      BY <2>0, <2>1, <1>r
    <2>2. CASE Op(r) = "delete" /\ ~(Raise(r) /\ UNCHANGED status)
      <3>1. status' = [status EXCEPT ![e] = "none"] /\ Finish(r)
        BY <2>2, <1>10 DEF Commit
      <3>2. status'[e] = "none" /\ \A d \in Docs : d # e => status'[d] = status[d]
        BY <3>1, <1>0, <1>t
      <3> QED BY <2>0, <3>1, <3>2, <1>0, <1>q, NotInSync DEF Outside
    <2>3. CASE Op(r) # "delete" /\ ~(Raise(r) /\ UNCHANGED status)
      <3>1. /\ status' = [status EXCEPT ![e] = "in_sync"] /\ Goto(r, "report")
            /\ UNCHANGED job
        BY <2>3, <1>10 DEF Commit
      <3>2. \A d \in Docs : d # e => status'[d] = status[d]
        BY <3>1, <1>t
      <3>3. Writing(r)
        BY <2>3, <1>0 DEF Writing
      <3>4. /\ file[e] = NewFile(r) /\ job[r].text \in Texts
            /\ \A i \in 1..Levels : RowAt(r, i) \in rows
        BY <2>0, <3>3, <1>0 DEF ReqOK, Flow, Writing, Op
      <3>5. NewFile(r) # NoFile /\ NewFile(r).text = job[r].text
        BY <3>4 DEF NewFile, NoFile, NoText, Texts
      <3>6. DocOK(e)'
        BY <2>0, <3>4, <3>5 DEF DocOK, RowAt
      <3>7. ReqOK(r)'
        BY <3>1, <1>0, GotoReq DEF ReqOK
      <3> QED BY <2>0, <3>1, <3>2, <3>6, <3>7, GotoReq DEF Outside
    <2> QED BY <2>1, <2>2, <2>3
  <1>11. CASE Report(r)
    BY <1>11, <1>q, <1>s DEF Report, Outside, DocOK, disk
  <1>12. CASE Rollback(r)
    <2>1. /\ Goto(r, "fail") /\ UNCHANGED <<rows, status, job>> /\ pc[r] = "rollback"
          /\ \A d \in Docs : d # e => file'[d] = file[d]
      BY <1>12, <1>0, <1>t DEF Rollback
    <2>2. ReqOK(r)'
      BY <2>1, <1>0, <1>p, GotoReq DEF ReqOK
    <2> QED BY <2>1, <2>2, <1>0, <1>p, GotoReq, NotInSync DEF Outside
  <1>13. CASE Fail(r)
    <2>1. /\ \A d \in Docs : d # e => status'[d] = status[d]
          /\ status'[e] # "in_sync"
      BY <1>13, <1>0, <1>p, <1>t DEF Fail
    <2>2. Finish(r) /\ UNCHANGED <<file, rows>>
      BY <1>13 DEF Fail, disk
    <2> QED BY <2>1, <2>2, <1>0, <1>q, NotInSync DEF Outside
  <1>14. CASE RollbackFails(r)
    <2>1. /\ Finish(r) /\ UNCHANGED <<rows, status>> /\ pc[r] = "rollback"
          /\ \A d \in Docs : d # e => file'[d] = file[d]
      BY <1>14, <1>0, <1>t DEF RollbackFails
    <2> QED BY <2>1, <1>0, <1>p, <1>q, NotInSync DEF Outside
  <1> QED BY <1>1, <1>2, <1>3, <1>4, <1>5, <1>6, <1>7, <1>8, <1>9, <1>10,
             <1>11, <1>12, <1>13, <1>14 DEF Serve

\* A step that touches neither a document nor a served request.
LEMMA Aside ==
  ASSUME Base, UNCHANGED <<file, rows, status>>, NEW r \in Reqs, ReqOK(r)',
         \A q \in Reqs : q # r => pc'[q] = pc[q] /\ job'[q] = job[q]
  PROVE  SyncInv'
  <1>1. ASSUME NEW q \in Reqs, q # r PROVE ReqOK(q)'
    BY <1>1 DEF Base, SyncInv, ReqOK, Op, Doc, Writing, NewFile, RowAt
  <1>2. ASSUME NEW d \in Docs PROVE DocOK(d)'
    BY <1>2 DEF Base, SyncInv, DocOK
  <1> QED BY <1>1, <1>2 DEF SyncInv

LEMMA SyncStep ==
  ASSUME Ops \subseteq LockedOps, "report" \notin Faults, Base, [Next]_vars
  PROVE  SyncInv'
  <1>1. ASSUME NEW r \in Reqs, Request(r) PROVE SyncInv'
    <2>1. /\ UNCHANGED <<file, rows, status>>
          /\ \A q \in Reqs : q # r => pc'[q] = pc[q] /\ job'[q] = job[q]
          /\ pc'[r] = "wait" /\ job'[r].op \notin {"reindex", "bulk"}
      BY <1>1 DEF Request, RequestCreate, RequestUpdate, RequestWrite, RequestDelete,
         RequestReindex, RequestBulkDelete, ResolveKeepFilesystem, ResolveKeepDatabase,
         Resolve, NewJob, Goto, Base, TypeInv, TypeOK, LockedOps
    <2>2. ReqOK(r)'
      BY <2>1 DEF ReqOK, Op
    <2> QED BY <2>1, <2>2, Aside
  <1>2. ASSUME NEW r \in Reqs, Refuse(r) PROVE SyncInv'
    BY <1>2, FinishReq, Aside DEF Refuse, disk, Base
  <1>3. ASSUME NEW r \in Reqs, Acquire(r) PROVE SyncInv'
    <2>1. ReqOK(r)'
      BY <1>3, GotoReq DEF Acquire, Base, SyncInv, ReqOK, disk
    <2> QED BY <2>1, <1>3, GotoReq, Aside DEF Acquire, Base, disk
  <1>4. ASSUME NEW r \in Reqs, Serve(r) PROVE SyncInv'
    BY <1>4, SyncServe
  <1>5. ASSUME NEW r \in Reqs, Timeout(r) PROVE SyncInv'
    BY <1>5 DEF Timeout, Base, SyncInv, ReqOK
  <1>6. ASSUME NEW d \in Docs, ExternalEdit(d) PROVE SyncInv'
    BY <1>6 DEF ExternalEdit, LockedOps
  <1>7. CASE Crash
    <2>1. ASSUME NEW q \in Reqs PROVE ReqOK(q)'
      BY <1>7, NoJobType DEF Crash, ReqOK, Op, Writing
    <2>2. ASSUME NEW d \in Docs PROVE DocOK(d)'
      BY <1>7 DEF Crash, disk, Base, SyncInv, DocOK
    <2> QED BY <2>1, <2>2 DEF SyncInv
  <1>8. CASE UNCHANGED vars
    BY <1>8 DEF vars, Base, SyncInv, DocOK, ReqOK, Op, Doc, Writing, NewFile, RowAt
  <1> QED BY <1>1, <1>2, <1>3, <1>4, <1>5, <1>6, <1>7, <1>8 DEF Next

\* For every set of documents, requests and levels, whatever statement,
\* embedding or file operation fails and wherever the process crashes: as long
\* as only the operations that take the document lock are called and the read
\* after IN_SYNC does not fail, a document reported in_sync is fully indexed.
THEOREM InSyncIsComplete ==
  ASSUME Ops \subseteq LockedOps, "report" \notin Faults
  PROVE  Spec => []InSyncComplete
  <1>1. Init => SyncInv
    BY NoJobType DEF Init, SyncInv, DocOK, ReqOK, Op, Writing
  <1>2. TypeInv /\ LockOwnership /\ SyncInv /\ [Next]_vars => SyncInv'
    BY SyncStep DEF Base
  <1>3. Spec => [](TypeInv /\ LockOwnership)
    BY Typing, LocksAreOwned, PTL DEF TypeInv
  <1>4. SyncInv => InSyncComplete
    BY DEF SyncInv, DocOK, InSyncComplete
  <1> QED BY <1>1, <1>2, <1>3, <1>4, PTL DEF Spec

-----------------------------------------------------------------------------
(***************************************************************************)
(* The hierarchy of the chunks                                             *)
(***************************************************************************)
\* Only two statements touch the rows: one deletes all of a path, parents and
\* children, the other inserts below a parent that is there.
LEMMA RowsChange ==
  ASSUME [Next]_vars
  PROVE  \/ UNCHANGED rows
         \/ \E r \in Reqs : rows' = rows \ RowsOf(Doc(r))
         \/ \E r \in Reqs : Insert(r) /\ ParentPresent(r) /\ rows' = rows \cup {NextRow(r)}
  <1>1. ASSUME NEW r \in Reqs, Serve(r), ~Purge(r), ~Insert(r) PROVE UNCHANGED rows
    BY <1>1 DEF Serve, Mark, CreateFile, ReplaceFile, MoveAside, ReadFile, Embed, CleanUp,
         Commit, Report, Rollback, RollbackFails, Fail, disk
  <1>2. ASSUME NEW r \in Reqs, Request(r) \/ Refuse(r) \/ Acquire(r) \/ Timeout(r)
        PROVE  UNCHANGED rows
    BY <1>2 DEF Request, RequestCreate, RequestUpdate, RequestWrite, RequestDelete,
         RequestReindex, RequestBulkDelete, ResolveKeepFilesystem, ResolveKeepDatabase,
         Resolve, NewJob, Refuse, Acquire, Timeout, disk
  <1>3. ASSUME NEW r \in Reqs, Purge(r)
        PROVE  UNCHANGED rows \/ rows' = rows \ RowsOf(Doc(r))
    BY <1>3 DEF Purge, Purged
  <1>4. ASSUME NEW r \in Reqs, Insert(r)
        PROVE  UNCHANGED rows \/ (ParentPresent(r) /\ rows' = rows \cup {NextRow(r)})
    BY <1>4 DEF Insert
  <1>5. (\E d \in Docs : ExternalEdit(d)) \/ Crash \/ UNCHANGED vars => UNCHANGED rows
    BY DEF ExternalEdit, Crash, vars, disk
  <1> QED BY <1>1, <1>2, <1>3, <1>4, <1>5 DEF Next

LEMMA ParentsStep == TypeInv /\ ChunksHaveParents /\ [Next]_vars => ChunksHaveParents'
  <1> SUFFICES ASSUME TypeInv, ChunksHaveParents, [Next]_vars PROVE ChunksHaveParents'
    OBVIOUS
  <1>1. CASE UNCHANGED rows
    BY <1>1 DEF ChunksHaveParents
  <1>2. ASSUME NEW r \in Reqs, rows' = rows \ RowsOf(Doc(r)) PROVE ChunksHaveParents'
    BY <1>2 DEF ChunksHaveParents, RowsOf, TypeInv, TypeOK, Row
  <1>3. ASSUME NEW r \in Reqs, ParentPresent(r), rows' = rows \cup {NextRow(r)}
        PROVE  ChunksHaveParents'
    <2>1. job[r].done \in Nat
      BY SyncAssumption DEF TypeInv, TypeOK, Job
    <2>2. NextRow(r).level > 1 => [NextRow(r) EXCEPT !.level = NextRow(r).level - 1] \in rows
      BY <1>3, <2>1 DEF ParentPresent, NextRow
    <2> QED BY <1>3, <2>2 DEF ChunksHaveParents
  <1> QED BY <1>1, <1>2, <1>3, RowsChange

\* Whichever operations run, locking or not, fail, time out or die in whichever
\* order: every parent_chunk_id validate_chunk_hierarchy looks for is there.  What
\* a re-index deletes under another one's feet it deletes with its children, and
\* the foreign key turns the next insert of the other one down.
THEOREM HierarchyIsWhole == Spec => []ChunksHaveParents
  <1>1. Init => ChunksHaveParents
    BY DEF Init, ChunksHaveParents
  <1>2. Spec => []TypeInv
    BY Typing, PTL DEF TypeInv
  <1> QED BY <1>1, <1>2, ParentsStep, PTL DEF Spec

-----------------------------------------------------------------------------
(***************************************************************************)
(* No lost update                                                          *)
(***************************************************************************)
\* From check_conflict on until the file is replaced, the file has the mtime the
\* client edited: only the owner of the lock writes it.
VersionHeld(r) ==
  (Op(r) = "update" /\ pc[r] \in {"mark", "files"} /\ job[r].seen # 0)
    => file[Doc(r)].mtime = job[r].seen
OnlyLocking == \A r \in Reqs : Op(r) \notin {"reindex", "bulk"}
HeldInv == OnlyLocking /\ \A r \in Reqs : VersionHeld(r)

\* A step of r that leaves the other requests alone, and the files of the others.
LEMMA HeldFrame ==
  ASSUME TypeInv, LockOwnership, HeldInv, NEW r \in Reqs,
         \A q \in Reqs : q # r => pc'[q] = pc[q] /\ job'[q] = job[q],
         UNCHANGED file \/ (Locked(r) /\ \A d \in Docs : d # Doc(r) => file'[d] = file[d]),
         Op(r)' \notin {"reindex", "bulk"}, VersionHeld(r)'
  PROVE  HeldInv'
  <1>1. ASSUME NEW q \in Reqs, q # r PROVE VersionHeld(q)' /\ Op(q)' \notin {"reindex", "bulk"}
    <2>1. pc'[q] = pc[q] /\ job'[q] = job[q] /\ Op(q) \notin {"reindex", "bulk"} /\ VersionHeld(q)
      BY <1>1 DEF HeldInv, OnlyLocking
    <2>2. (Op(q) = "update" /\ pc[q] \in {"mark", "files"}) => file'[Doc(q)] = file[Doc(q)]
      <3> SUFFICES ASSUME Op(q) = "update", pc[q] \in {"mark", "files"}
                   PROVE  file'[Doc(q)] = file[Doc(q)]
        OBVIOUS
      <3>1. Locked(q) /\ Doc(q) \in Docs
        BY DEF Locked, Doc, TypeInv, TypeOK, Job
      <3>2. Locked(r) => Doc(q) # Doc(r)
        BY <3>1, <1>1 DEF LockOwnership
      <3> QED BY <3>1, <3>2
    <2> QED BY <2>1, <2>2 DEF VersionHeld, Op, Doc
  <1> QED BY <1>1 DEF HeldInv, OnlyLocking

LEMMA HeldFinish ==
  ASSUME TypeInv, NEW r \in Reqs, Finish(r)
  PROVE  /\ Op(r)' \notin {"reindex", "bulk"} /\ VersionHeld(r)'
         /\ \A q \in Reqs : q # r => pc'[q] = pc[q] /\ job'[q] = job[q]
  BY NoJobType DEF Finish, VersionHeld, Op, TypeInv, TypeOK

\* Within the lock: the file of no other path, and past "files" nothing is held.
LEMMA HeldServe ==
  ASSUME TypeInv, LockOwnership, HeldInv, NEW r \in Reqs, Serve(r)
  PROVE  HeldInv'
  <1>0. /\ Op(r) \notin {"reindex", "bulk"} /\ VersionHeld(r) /\ Doc(r) \in Docs
        /\ pc[r] \notin {"idle", "wait"} /\ pc \in [Reqs -> PC] /\ job \in [Reqs -> Job]
        /\ file \in [Docs -> Files \cup {NoFile}]
    BY DEF HeldInv, OnlyLocking, Serve, Mark, CreateFile, ReplaceFile, MoveAside, ReadFile, Purge,
         Embed, Insert, CleanUp, Commit, Report, Rollback, RollbackFails, Fail, TypeInv, TypeOK, Doc, Job
  <1>1. Locked(r)
    BY <1>0 DEF Locked, TypeInv, TypeOK, Flow, Stage, Op, Job
  <1>2. \A d \in Docs : d # Doc(r) => file'[d] = file[d]
    BY <1>0 DEF Serve, Mark, CreateFile, ReplaceFile, MoveAside, ReadFile, Purge,
         Embed, Insert, CleanUp, Commit, Report, Rollback, RollbackFails, Fail, disk
  <1>f. ASSUME Finish(r) PROVE HeldInv'
    BY <1>f, <1>1, <1>2, HeldFinish, HeldFrame
  <1>g. ASSUME NEW l \in PC \ {"mark", "files"}, Goto(r, l),
               \/ UNCHANGED job
               \/ job' = [job EXCEPT ![r].done = @ + 1]
        PROVE  HeldInv'
    <2>1. /\ \A q \in Reqs : q # r => pc'[q] = pc[q] /\ job'[q] = job[q]
          /\ pc'[r] = l /\ job'[r].op = job[r].op
      BY <1>g, <1>0 DEF Goto, Job
    <2>2. VersionHeld(r)' /\ Op(r)' \notin {"reindex", "bulk"}
      BY <2>1, <1>0 DEF VersionHeld, Op
    <2> QED BY <2>1, <2>2, <1>1, <1>2, HeldFrame
  <1>r. ASSUME Raise(r) PROVE HeldInv'
    BY <1>r, <1>0, <1>g DEF Raise, PC
  <1>3. CASE Mark(r)
    <2>1. CASE Finish(r)
      BY <2>1, <1>f
    <2>2. CASE ~Finish(r)
      <3>1. Goto(r, "files") /\ UNCHANGED <<job, file>> /\ pc[r] = "mark"
        BY <2>2, <1>3 DEF Mark, disk
      <3>2. /\ \A q \in Reqs : q # r => pc'[q] = pc[q] /\ job'[q] = job[q]
            /\ job'[r] = job[r]
        BY <3>1, <1>0 DEF Goto
      <3>3. VersionHeld(r)' /\ Op(r)' \notin {"reindex", "bulk"}
        BY <3>1, <3>2, <1>0 DEF VersionHeld, Op, Doc
      <3> QED BY <3>2, <3>3, <3>1, HeldFrame
    <2> QED BY <2>1, <2>2
  <1>4. CASE CreateFile(r) \/ ReplaceFile(r) \/ MoveAside(r) \/ ReadFile(r)
    BY <1>4, <1>0, <1>r, <1>g DEF CreateFile, ReplaceFile, MoveAside, ReadFile, PC
  <1>5. CASE Purge(r) \/ Embed(r) \/ CleanUp(r) \/ Rollback(r)
    BY <1>5, <1>0, <1>r, <1>g DEF Purge, Embed, CleanUp, Rollback, PC
  <1>6. CASE Insert(r)
    BY <1>6, <1>0, <1>r, <1>g DEF Insert, PC
  <1>7. CASE Commit(r) \/ Report(r) \/ RollbackFails(r) \/ Fail(r)
    BY <1>7, <1>f, <1>r, <1>g DEF Commit, Report, RollbackFails, Fail, PC
  <1> QED BY <1>3, <1>4, <1>5, <1>6, <1>7 DEF Serve

LEMMA HeldStep ==
  ASSUME Ops \subseteq LockedOps, ~WithinTolerance,
         TypeInv, LockOwnership, HeldInv, [Next]_vars
  PROVE  HeldInv'
  <1>1. ASSUME NEW r \in Reqs, Request(r) PROVE HeldInv'
    <2>1. /\ UNCHANGED file
          /\ \A q \in Reqs : q # r => pc'[q] = pc[q] /\ job'[q] = job[q]
          /\ pc'[r] = "wait" /\ job'[r].op \notin {"reindex", "bulk"}
      BY <1>1 DEF Request, RequestCreate, RequestUpdate, RequestWrite, RequestDelete,
         RequestReindex, RequestBulkDelete, ResolveKeepFilesystem, ResolveKeepDatabase,
         Resolve, NewJob, Goto, TypeInv, TypeOK, LockedOps
    <2>2. VersionHeld(r)' /\ Op(r)' \notin {"reindex", "bulk"}
      BY <2>1 DEF VersionHeld, Op
    <2> QED BY <2>1, <2>2, HeldFrame
  <1>2. ASSUME NEW r \in Reqs, Refuse(r) PROVE HeldInv'
    BY <1>2, HeldFinish, HeldFrame DEF Refuse, disk
  <1>3. ASSUME NEW r \in Reqs, Acquire(r) PROVE HeldInv'
    <2>1. /\ UNCHANGED <<file, job>> /\ ~MustRefuse(r)
          /\ \A q \in Reqs : q # r => pc'[q] = pc[q]
      BY <1>3 DEF Acquire, Goto, TypeInv, TypeOK, disk
    <2>2. Op(r) = "update" /\ job[r].seen # 0 => file[Doc(r)].mtime = job[r].seen
      BY <2>1 DEF MustRefuse, Conflicting
    <2>3. VersionHeld(r)' /\ Op(r)' \notin {"reindex", "bulk"}
      BY <2>1, <2>2 DEF VersionHeld, Op, Doc, HeldInv, OnlyLocking
    <2> QED BY <2>1, <2>3, HeldFrame
  <1>4. ASSUME NEW r \in Reqs, Serve(r) PROVE HeldInv'
    BY <1>4, HeldServe
  <1>5. ASSUME NEW r \in Reqs, Timeout(r) PROVE HeldInv'
    BY <1>5 DEF Timeout, HeldInv, OnlyLocking
  <1>6. ASSUME NEW d \in Docs, ExternalEdit(d) PROVE HeldInv'
    BY <1>6 DEF ExternalEdit, LockedOps
  <1>7. CASE Crash
    BY <1>7, NoJobType DEF Crash, HeldInv, OnlyLocking, VersionHeld, Op
  <1>8. CASE UNCHANGED vars
    BY <1>8 DEF vars, HeldInv, OnlyLocking, VersionHeld, Op, Doc
  <1> QED BY <1>1, <1>2, <1>3, <1>4, <1>5, <1>6, <1>7, <1>8 DEF Next

\* With an expected_mtime and clocks that tell versions apart, an update replaces
\* the version its client has edited: between check_conflict and write_text of
\* update_document_atomic nobody writes the file, whoever else is served, as long
\* as every operation that is called takes the lock.
THEOREM UpdatesReplaceWhatTheySaw ==
  ASSUME Ops \subseteq LockedOps, ~WithinTolerance
  PROVE  Spec => NoLostUpdate
  <1>1. Init => HeldInv
    BY NoJobType DEF Init, HeldInv, OnlyLocking, VersionHeld, Op
  <1>2. TypeInv /\ LockOwnership /\ HeldInv /\ [Next]_vars => HeldInv'
    BY HeldStep
  <1>3. Spec => [](TypeInv /\ LockOwnership)
    BY Typing, LocksAreOwned, PTL DEF TypeInv
  <1>4. HeldInv /\ [Next]_vars => [\A r \in Reqs :
          (Op(r) = "update" /\ pc[r] = "files" /\ pc'[r] = "purge" /\ job[r].seen # 0)
            => file[Doc(r)].mtime = job[r].seen]_vars
    BY DEF HeldInv, VersionHeld
  <1> QED BY <1>1, <1>2, <1>3, <1>4, PTL DEF Spec, NoLostUpdate

-----------------------------------------------------------------------------
(***************************************************************************)
(* in_sync means exactly indexed, when nothing but the embedding service   *)
(* fails and the process does not die.  A path nobody works on has no rows *)
(* without a file; a request inside the lock has purged before it inserts. *)
(***************************************************************************)
Empty(d) == RowsOf(d) = {}

Settled(d) ==
  /\ file[d] = NoFile => Empty(d)
  /\ status[d] = "in_sync" => IsIndex(RowsOf(d), d)

Indexed(r, n) == RowsOf(Doc(r)) = {RowAt(r, i) : i \in 1..n}

\* What each stage has done to the rows, and that what it will need is there, so
\* that nothing but an embedding raises.
Prepared(r) ==
  /\ pc[r] \in {"mark", "report"} => Settled(Doc(r))
  /\ pc[r] \in {"mark", "files"} => (Op(r) = "create" <=> file[Doc(r)] = NoFile)
  /\ Op(r) = "create" /\ pc[r] \in {"mark", "files", "embed", "rollback", "fail"} => Empty(Doc(r))
  /\ Op(r) = "update" /\ pc[r] \in {"purge", "embed", "rollback"} => bak[Doc(r)] # NoFile
  /\ Op(r) = "update" /\ pc[r] = "embed" => Empty(Doc(r))
  /\ Op(r) = "update" /\ pc[r] = "fail" => file[Doc(r)] # NoFile
  /\ Op(r) = "delete" => pc[r] \notin {"rollback", "fail"}
  /\ Op(r) = "delete" /\ pc[r] \in {"cleanup", "commit"} => Empty(Doc(r))
  /\ pc[r] = "insert" => Indexed(r, job[r].done)
  /\ Writing(r) /\ pc[r] \in {"cleanup", "commit"} => Indexed(r, Levels)

ExactInv ==
  /\ \A d \in Docs : lock[d] = NoReq => Settled(d)
  /\ \A r \in Reqs : Locked(r) => Prepared(r)

\* Everything about a path and its rows but e's is left alone.
Beside(r, e) ==
  /\ Outside(r, e)
  /\ \A d \in Docs : d # e => bak'[d] = bak[d] /\ lock'[d] = lock[d]

LEMMA SameRows ==
  ASSUME TypeInv, TypeInv', NEW r, NEW e, Outside(r, e), NEW d \in Docs, d # e
  PROVE  RowsOf(d)' = RowsOf(d)
  BY DEF Outside, RowsOf, TypeInv, TypeOK, Row

LEMMA ExactFrame ==
  ASSUME Base, TypeInv', ExactInv, NEW r \in Reqs, NEW e \in Docs, lock[e] \in {r, NoReq},
         Beside(r, e), lock'[e] = NoReq => Settled(e)', Locked(r)' => Prepared(r)'
  PROVE  ExactInv'
  <1> USE DEF Base, Beside
  <1>1. ASSUME NEW d \in Docs, d # e, lock[d] = NoReq PROVE Settled(d)'
    <2>1. RowsOf(d)' = RowsOf(d) /\ file'[d] = file[d] /\ status'[d] = status[d]
      BY <1>1, SameRows DEF Outside
    <2>2. Settled(d)
      BY <1>1 DEF ExactInv
    <2> QED BY <2>1, <2>2 DEF Settled, Empty, IsIndex
  <1>2. ASSUME NEW q \in Reqs, q # r, Locked(q)' PROVE Prepared(q)'
    <2>1. pc'[q] = pc[q] /\ job'[q] = job[q]
      BY <1>2 DEF Outside
    <2>2. Locked(q) /\ Prepared(q)
      BY <2>1, <1>2 DEF Locked, Op, ExactInv
    <2>3. Doc(q) \in Docs /\ Doc(q) # e
      BY <2>2, <1>2, SyncAssumption DEF LockOwnership, Doc, TypeInv, TypeOK, Job
    <2>4. /\ RowsOf(Doc(q))' = RowsOf(Doc(q)) /\ Doc(q)' = Doc(q) /\ Op(q)' = Op(q)
          /\ Writing(q)' = Writing(q) /\ \A i : RowAt(q, i)' = RowAt(q, i)
      <3>1. Doc(q)' = Doc(q) /\ Op(q)' = Op(q)
        BY <2>1 DEF Doc, Op
      <3>2. \A d \in Docs : d # e => RowsOf(d)' = RowsOf(d)
        BY SameRows
      <3> QED BY <2>1, <2>3, <3>1, <3>2 DEF RowsOf, Writing, RowAt
    <2>5. /\ file'[Doc(q)] = file[Doc(q)] /\ status'[Doc(q)] = status[Doc(q)]
          /\ bak'[Doc(q)] = bak[Doc(q)]
      BY <2>3 DEF Outside
    <2>6. /\ Settled(Doc(q))' <=> Settled(Doc(q))
          /\ Empty(Doc(q))' <=> Empty(Doc(q))
          /\ \A n : Indexed(q, n)' <=> Indexed(q, n)
      BY <2>4, <2>5 DEF Settled, Empty, IsIndex, Indexed
    <2> QED BY <2>1, <2>2, <2>4, <2>5, <2>6 DEF Prepared
  <1> QED BY <1>1, <1>2 DEF ExactInv

LEMMA ExactAside ==
  ASSUME TypeInv, ExactInv, UNCHANGED <<file, bak, rows, status, lock>>, NEW r \in Reqs, ~Locked(r)',
         \A q \in Reqs : q # r => pc'[q] = pc[q] /\ job'[q] = job[q]
  PROVE  ExactInv'
  <1>1. ASSUME NEW d \in Docs, lock[d] = NoReq PROVE Settled(d)'
    BY <1>1 DEF ExactInv, Settled, Empty, IsIndex, RowsOf
  <1>2. ASSUME NEW q \in Reqs, q # r, Locked(q)' PROVE Prepared(q)'
    BY <1>2 DEF ExactInv, Locked, Op, Doc, Writing, RowAt, Prepared, Settled, Empty, IsIndex,
       Indexed, RowsOf
  <1> QED BY <1>1, <1>2 DEF ExactInv

LEMMA FinishExact ==
  ASSUME Base, TypeInv', ExactInv, NEW r \in Reqs, NEW e \in Docs, e = Doc(r), Locked(r), Finish(r),
         UNCHANGED <<file, bak, rows>>, \A d \in Docs : d # e => status'[d] = status[d],
         Settled(e)'
  PROVE  ExactInv'
  <1>1. lock[e] = r
    BY DEF Base, LockOwnership
  <1>2. Beside(r, e) /\ ~Locked(r)'
    BY FinishReq DEF Finish, Beside, Outside, Base, TypeInv, TypeOK, Locked
  <1> QED BY <1>1, <1>2, ExactFrame

\* A step within the lock that leads to stage l.
LEMMA GotoExact ==
  ASSUME Base, TypeInv', ExactInv, NEW r \in Reqs, NEW e \in Docs, e = Doc(r), Locked(r),
         Outside(r, e), \A d \in Docs : d # e => bak'[d] = bak[d], UNCHANGED lock, Prepared(r)'
  PROVE  ExactInv'
  <1>1. lock[e] = r
    BY DEF Base, LockOwnership
  <1> QED BY <1>1, ExactFrame, SyncAssumption DEF Beside

\* A step that moves the request on keeps what is said of it about its path.
LEMMA GotoPath ==
  ASSUME TypeInv, NEW r \in Reqs, NEW l, Goto(r, l), UNCHANGED <<job, rows>>
  PROVE  /\ RowsOf(Doc(r))' = RowsOf(Doc(r)) /\ Empty(Doc(r))' = Empty(Doc(r))
         /\ \A n : Indexed(r, n)' = Indexed(r, n)
  BY GotoReq DEF RowsOf, Empty, Indexed

LEMMA ExactServe ==
  ASSUME Faults \subseteq {"embed"}, Base, TypeInv', ExactInv, NEW r \in Reqs, Serve(r)
  PROVE  ExactInv'
  <1> USE SyncAssumption DEF Base
  <1>e. PICK e \in Docs : e = Doc(r)
    BY DEF Doc, TypeInv, TypeOK, Job
  <1> USE <1>e
  <1>0. /\ job[r] \in Job /\ ReqOK(r) /\ pc[r] \notin {"idle", "wait"}
        /\ Stage(Op(r), pc[r]) /\ Op(r) \in {"create", "update", "delete"}
    BY DEF Serve, Mark, CreateFile, ReplaceFile, MoveAside, ReadFile, Purge,
         Embed, Insert, CleanUp, Commit, Report, Rollback, RollbackFails, Fail,
         Doc, Op, TypeInv, TypeOK, Job, SyncInv, ReqOK, Flow, Stage
  <1>l. Locked(r) /\ Prepared(r)
    BY <1>0 DEF Locked, ExactInv
  <1>t. /\ file \in [Docs -> Files \cup {NoFile}] /\ bak \in [Docs -> Files \cup {NoFile}]
        /\ status \in [Docs -> {"none", "processing", "in_sync", "error"}]
    BY DEF TypeInv, TypeOK
  <1>g. ASSUME NEW l, Goto(r, l), UNCHANGED <<job, rows, lock>>,
               \A d \in Docs : d # e => /\ file'[d] = file[d] /\ bak'[d] = bak[d]
                                        /\ status'[d] = status[d],
               Prepared(r)'
        PROVE  ExactInv'
    <2>1. Outside(r, e)
      BY <1>g, GotoReq DEF Outside
    <2> QED BY <2>1, <1>g, <1>l, GotoExact
  <1>1. CASE Mark(r)
    <2>1. /\ pc[r] = "mark" /\ Goto(r, "files") /\ UNCHANGED <<lock, job, file, bak, rows>>
          /\ \A d \in Docs : d # e => status'[d] = status[d]
      BY <1>1, <1>t DEF Mark, disk
    <2>2. Prepared(r)'
      BY <2>1, <1>l, <1>0, GotoReq, GotoPath DEF Prepared
    <2> QED BY <2>1, <2>2, <1>g
  <1>2. CASE CreateFile(r)
    <2>1. /\ pc[r] = "files" /\ Op(r) = "create" /\ Goto(r, "embed")
          /\ UNCHANGED <<lock, job, bak, rows, status>>
          /\ \A d \in Docs : d # e => file'[d] = file[d]
      BY <1>2, <1>t DEF CreateFile
    <2>2. Prepared(r)'
      BY <2>1, <1>l, GotoReq, GotoPath DEF Prepared
    <2> QED BY <2>1, <2>2, <1>g
  <1>3. CASE ReplaceFile(r)
    <2>0. file[e] # NoFile
      BY <1>3, <1>l DEF ReplaceFile, Prepared
    <2>1. /\ pc[r] = "files" /\ Op(r) = "update" /\ Goto(r, "purge")
          /\ UNCHANGED <<lock, job, rows, status>> /\ bak'[e] = file[e]
          /\ \A d \in Docs : d # e => file'[d] = file[d] /\ bak'[d] = bak[d]
      BY <2>0, <1>3, <1>t DEF ReplaceFile
    <2>2. Prepared(r)'
      BY <2>0, <2>1, <1>l, GotoReq, GotoPath DEF Prepared
    <2> QED BY <2>1, <2>2, <1>g
  <1>4. CASE MoveAside(r)
    <2>0. file[e] # NoFile
      BY <1>4, <1>l DEF MoveAside, Prepared
    <2>1. /\ Op(r) = "delete" /\ Goto(r, "purge") /\ UNCHANGED <<lock, job, rows, status, bak>>
          /\ \A d \in Docs : d # e => file'[d] = file[d]
      BY <2>0, <1>4, <1>t DEF MoveAside
    <2>2. Prepared(r)'
      BY <2>1, GotoReq DEF Prepared
    <2> QED BY <2>1, <2>2, <1>g
  <1>5. CASE ReadFile(r)
    BY <1>5, <1>0 DEF ReadFile
  <1>6. CASE Purge(r)
    <2>1. /\ pc[r] = "purge" /\ rows' = rows \ RowsOf(e) /\ UNCHANGED <<lock, job, file, bak, status>>
          /\ Goto(r, IF Op(r) = "update" THEN "embed" ELSE "cleanup")
      BY <1>6, <1>0 DEF Purge, Purged, disk
    <2>2. Op(r) \in {"update", "delete"}
      BY <2>1, <1>0 DEF Stage
    <2>3. Empty(e)' /\ \A c \in Row : c.doc # e => (c \in rows' <=> c \in rows)
      BY <2>1 DEF Empty, RowsOf
    <2>4. Outside(r, e) /\ Doc(r)' = e
      BY <2>1, <2>3, GotoReq DEF Outside
    <2>5. Prepared(r)'
      <3>1. Empty(Doc(r))'
        BY <2>3, <2>4 DEF Empty, RowsOf
      <3>2. CASE Op(r) = "update"
        BY <3>1, <3>2, <2>1, <1>l, GotoReq DEF Prepared
      <3>3. CASE Op(r) = "delete"
        <4>1. ~Writing(r)' /\ pc'[r] = "cleanup" /\ Op(r)' = "delete"
          BY <3>3, <2>1, GotoReq DEF Writing
        <4> QED BY <4>1, <3>1 DEF Prepared
      <3> QED BY <3>2, <3>3, <2>2
    <2> QED BY <2>1, <2>4, <2>5, <1>l, GotoExact
  <1>7. CASE Embed(r)
    <2>0. pc[r] = "embed" /\ UNCHANGED <<lock, job, file, bak, rows, status>> /\ Op(r) # "delete"
          /\ Empty(e) /\ job[r].done = 0
      BY <1>7, <1>0, <1>l DEF Embed, disk, Stage, Prepared, Raise, TypeInv, Flow
    <2>1. CASE Goto(r, "insert")
      <3>1. Indexed(r, 0)
        BY <2>0 DEF Indexed, Empty
      <3>2. Prepared(r)'
        BY <2>0, <2>1, <3>1, GotoReq, GotoPath DEF Prepared
      <3> QED BY <2>0, <2>1, <3>2, <1>g
    <2>2. CASE Goto(r, "rollback")
      <3>1. Prepared(r)'
        BY <2>0, <2>2, <1>l, GotoReq, GotoPath DEF Prepared
      <3> QED BY <2>0, <2>2, <3>1, <1>g
    <2> QED BY <1>7, <1>0, <2>1, <2>2 DEF Embed, Raise
  <1>8. CASE Insert(r)
    <2>0. /\ pc[r] = "insert" /\ Indexed(r, job[r].done) /\ job[r].done \in Nat
          /\ job[r].done < Levels /\ Writing(r)
      BY <1>8, <1>0, <1>l DEF Insert, Prepared, Job, TypeInv, Flow, Stage, Writing
    <2>n. PICK n \in Nat : n = job[r].done + 1
      BY <2>0
    <2>l. PICK l \in {"insert", "cleanup"} : l = IF n = Levels THEN "cleanup" ELSE "insert"
      OBVIOUS
    <2>1. ParentPresent(r)
      <3>1. job[r].done # 0 => RowAt(r, job[r].done) \in rows
        BY <2>0 DEF Indexed, RowsOf
      <3>2. [NextRow(r) EXCEPT !.level = job[r].done] = RowAt(r, job[r].done)
        BY DEF NextRow, RowAt
      <3> QED BY <3>1, <3>2 DEF ParentPresent
    <2>2. /\ rows' = rows \cup {NextRow(r)} /\ UNCHANGED <<file, bak, status, lock>>
          /\ job' = [job EXCEPT ![r].done = n] /\ Goto(r, l)
      BY <2>1, <1>8, <2>0, <2>n, <2>l DEF Insert, disk
    <2>3. /\ pc'[r] = l /\ job'[r] = [job[r] EXCEPT !.done = n]
          /\ \A q \in Reqs : q # r => pc'[q] = pc[q] /\ job'[q] = job[q]
      BY <2>2 DEF Goto, TypeInv, TypeOK
    <2>4. /\ Op(r)' = Op(r) /\ Doc(r)' = e /\ job'[r].done = n
          /\ \A i : RowAt(r, i)' = RowAt(r, i)
      BY <2>3, <1>0 DEF Op, Doc, RowAt, Job
    <2>5. NextRow(r) = RowAt(r, n) /\ NextRow(r).doc = e
      BY <2>n DEF NextRow, RowAt
    <2>6. 1..n = 1..job[r].done \cup {n}
      BY <2>0, <2>n
    <2>7. l = "cleanup" => n = Levels
      BY <2>l
    <2>8. Outside(r, e)
      BY <2>2, <2>3, <2>5 DEF Outside
    <2>9. RowsOf(e)' = {RowAt(r, i) : i \in 1..n}
      <3>1. RowsOf(e)' = RowsOf(e) \cup {RowAt(r, n)}
        BY <2>2, <2>5 DEF RowsOf
      <3> QED BY <3>1, <2>0, <2>6 DEF Indexed
    <2>10. Indexed(r, n)'
      <3>1. RowsOf(Doc(r))' = RowsOf(e)'
        BY <2>4 DEF RowsOf
      <3> QED BY <3>1, <2>4, <2>9 DEF Indexed
    <2>11. Prepared(r)'
      <3>1. pc'[r] = "insert" => Indexed(r, job[r].done)'
        BY <2>4, <2>10 DEF Indexed
      <3>2. pc'[r] = "cleanup" => Indexed(r, Levels)'
        BY <2>3, <2>7, <2>10 DEF Indexed
      <3> QED BY <3>1, <3>2, <2>0, <2>3, <2>4, <2>7 DEF Prepared, Writing
    <2> QED BY <2>2, <2>8, <2>11, <1>l, GotoExact
  <1>9. CASE CleanUp(r)
    <2>1. Op(r) # "delete" => file[e] # NoFile
      BY <1>9, <1>0 DEF CleanUp, ReqOK, Writing, NewFile, NoFile, NoText, Op, Doc, TypeInv, Flow,
                        Texts
    <2>2. /\ pc[r] = "cleanup" /\ Goto(r, "commit") /\ UNCHANGED <<lock, job, file, rows, status>>
          /\ \A d \in Docs : d # e => bak'[d] = bak[d]
      BY <2>1, <1>9, <1>0, <1>t DEF CleanUp
    <2>3. Prepared(r)'
      BY <2>2, <1>l, GotoReq, GotoPath DEF Prepared
    <2> QED BY <2>2, <2>3, <1>g
  <1>10. CASE Commit(r)
    <2>0. UNCHANGED <<file, bak, rows>> /\ pc[r] = "commit"
      BY <1>10 DEF Commit, disk
    <2>1. CASE Op(r) = "delete"
      <3>1. /\ status'[e] = "none" /\ \A d \in Docs : d # e => status'[d] = status[d]
            /\ Finish(r) /\ Empty(e)
        BY <2>1, <1>10, <1>l, <1>t DEF Commit, Prepared
      <3>2. Settled(e)'
        BY <2>0, <3>1 DEF Settled, Empty, RowsOf
      <3> QED BY <2>0, <3>1, <3>2, <1>l, FinishExact
    <2>2. CASE Op(r) # "delete"
      <3>1. /\ status'[e] = "in_sync" /\ \A d \in Docs : d # e => status'[d] = status[d]
            /\ Goto(r, "report") /\ UNCHANGED <<lock, job>>
        BY <2>2, <1>10, <1>t DEF Commit
      <3>2. Writing(r) /\ Indexed(r, Levels) /\ file[e] = NewFile(r) /\ job[r].text \in Texts
        BY <2>0, <2>2, <1>0, <1>l DEF Writing, Prepared, ReqOK, TypeInv, Flow, Op
      <3>3. file[e] # NoFile /\ file[e].text = job[r].text
        BY <3>2 DEF NewFile, NoFile, NoText, Texts
      <3>4. IsIndex(RowsOf(e), e)
        BY <3>2, <3>3 DEF Indexed, IsIndex, RowAt
      <3>5. Settled(e)'
        BY <2>0, <3>3, <3>4 DEF Settled, IsIndex, RowsOf
      <3>6. Settled(Doc(r))'
        BY <3>1, <3>5, GotoReq DEF Settled, IsIndex, RowsOf, Empty
      <3>7. Prepared(r)'
        BY <3>1, <3>6, GotoReq DEF Prepared
      <3> QED BY <2>0, <3>1, <3>7, <1>g
    <2> QED BY <2>1, <2>2
  <1>11. CASE Report(r)
    <2>1. Finish(r) /\ UNCHANGED <<file, bak, rows, status>> /\ Settled(e)
      BY <1>11, <1>l DEF Report, disk, Prepared
    <2>2. Settled(e)'
      BY <2>1 DEF Settled, Empty, IsIndex, RowsOf
    <2> QED BY <2>1, <2>2, <1>l, FinishExact
  <1>12. CASE Rollback(r)
    <2>0. /\ pc[r] = "rollback" /\ Goto(r, "fail") /\ UNCHANGED <<lock, job, rows, status>>
          /\ Op(r) \in {"create", "update"}
          /\ \A d \in Docs : d # e => file'[d] = file[d] /\ bak'[d] = bak[d]
          /\ Op(r) = "update" => file'[e] = bak[e]
      BY <1>12, <1>0, <1>l, <1>t DEF Rollback, Prepared
    <2>1. Prepared(r)'
      BY <2>0, <1>l, GotoReq, GotoPath DEF Prepared
    <2> QED BY <2>0, <2>1, <1>g
  <1>13. CASE Fail(r)
    <2>1. /\ pc[r] = "fail" /\ status'[e] = "error" /\ \A d \in Docs : d # e => status'[d] = status[d]
          /\ Finish(r) /\ UNCHANGED <<file, bak, rows>>
      BY <1>13, <1>t DEF Fail, disk
    <2>2. file[e] = NoFile => Empty(e)
      BY <2>1, <1>0, <1>l DEF Prepared
    <2>3. Settled(e)'
      BY <2>1, <2>2 DEF Settled, Empty, RowsOf
    <2> QED BY <2>1, <2>3, <1>l, FinishExact
  <1>14. ~RollbackFails(r)
    BY DEF RollbackFails
  <1> QED BY <1>1, <1>2, <1>3, <1>4, <1>5, <1>6, <1>7, <1>8, <1>9, <1>10, <1>11, <1>12, <1>13,
             <1>14 DEF Serve

LEMMA ExactStep ==
  ASSUME Ops \subseteq LockedOps, Faults \subseteq {"embed"}, MaxCrashes = 0,
         Base, TypeInv', ExactInv, [Next]_vars
  PROVE  ExactInv'
  <1>1. ASSUME NEW r \in Reqs, Request(r) PROVE ExactInv'
    <2>1. /\ UNCHANGED <<file, bak, rows, status, lock>> /\ pc'[r] = "wait"
          /\ \A q \in Reqs : q # r => pc'[q] = pc[q] /\ job'[q] = job[q]
      BY <1>1 DEF Request, RequestCreate, RequestUpdate, RequestWrite, RequestDelete,
         RequestReindex, RequestBulkDelete, ResolveKeepFilesystem, ResolveKeepDatabase,
         Resolve, NewJob, Goto, Base, TypeInv, TypeOK, LockedOps
    <2> QED BY <2>1, ExactAside DEF Base, Locked
  <1>2. ASSUME NEW r \in Reqs, Refuse(r) PROVE ExactInv'
    <2>1. /\ UNCHANGED <<file, bak, rows, status>> /\ Finish(r) /\ pc'[r] = "idle"
          /\ pc[r] = "wait"
      BY <1>2 DEF Refuse, Finish, disk, Base, TypeInv, TypeOK
    <2>2. ~Locked(r) /\ Doc(r) \in Docs /\ lock[Doc(r)] # r
      BY <2>1, SyncAssumption DEF Locked, Base, LockOwnership, TypeInv, TypeOK, Doc, Job
    <2>3. UNCHANGED lock
      BY <2>1, <2>2 DEF Finish, Base, TypeInv, TypeOK
    <2> QED BY <2>1, <2>3, FinishReq, ExactAside DEF Base, Locked
  <1>3. ASSUME NEW r \in Reqs, Acquire(r) PROVE ExactInv'
    <2>e. PICK e \in Docs : e = Doc(r)
      BY DEF Doc, Base, TypeInv, TypeOK, Job
    <2>0. Op(r) \in {"create", "update", "delete"}
      BY <1>3 DEF Acquire, Base, SyncInv, ReqOK, TypeInv, TypeOK, Flow, Stage, Op, Job
    <2>1. /\ UNCHANGED <<file, bak, rows, status, job>> /\ Goto(r, "mark")
          /\ lock[e] = NoReq /\ lock' = [lock EXCEPT ![e] = r] /\ ~MustRefuse(r)
      BY <1>3, <2>e, <2>0 DEF Acquire, Admitted, disk
    <2>2. Settled(e) /\ (Op(r) = "create" <=> file[e] = NoFile)
      BY <2>1, <2>0, <2>e DEF ExactInv, MustRefuse
    <2>3. Prepared(r)'
      <3>1. Settled(Doc(r))' /\ (Empty(e) => Empty(Doc(r))')
        BY <2>1, <2>2, <2>e, GotoReq DEF Base, Settled, Empty, IsIndex, RowsOf
      <3>2. Empty(e) \/ file[e] # NoFile
        BY <2>2 DEF Settled
      <3> QED BY <3>1, <3>2, <2>1, <2>2, <2>e, GotoReq DEF Base, Prepared
    <2>4. Beside(r, e)
      BY <2>1, GotoReq DEF Beside, Outside, Base
    <2>5. lock'[e] # NoReq
      BY <2>1, SyncAssumption DEF Base, TypeInv, TypeOK
    <2> QED BY <2>1, <2>3, <2>4, <2>5, ExactFrame
  <1>4. ASSUME NEW r \in Reqs, Serve(r) PROVE ExactInv'
    BY <1>4, ExactServe
  <1>5. ASSUME NEW r \in Reqs, Timeout(r) PROVE ExactInv'
    BY <1>5 DEF Timeout, Base, SyncInv, ReqOK
  <1>6. ASSUME NEW d \in Docs, ExternalEdit(d) PROVE ExactInv'
    BY <1>6 DEF ExternalEdit, LockedOps
  <1>7. CASE Crash
    BY <1>7 DEF Crash, Base, TypeInv, TypeOK
  <1>8. CASE UNCHANGED vars
    BY <1>8 DEF vars, ExactInv, Locked, Op, Doc, Writing, RowAt, Prepared, Settled, Empty, IsIndex,
       Indexed, RowsOf
  <1> QED BY <1>1, <1>2, <1>3, <1>4, <1>5, <1>6, <1>7, <1>8 DEF Next

\* No search finds text a document no longer contains: a document reported in_sync
\* has the chunks of its file and no others, if only operations that take the lock
\* are called, nothing but the embedding service fails and the process does not
\* die.  delete_document_by_path before the first insert is what makes it so; any
\* other failure leaves rows behind that a later create does not delete.
THEOREM InSyncIsExact ==
  ASSUME Ops \subseteq LockedOps, Faults \subseteq {"embed"}, MaxCrashes = 0
  PROVE  Spec => []InSyncExact
  <1>1. Init => SyncInv /\ ExactInv
    BY NoJobType DEF Init, SyncInv, DocOK, ReqOK, Op, Writing, ExactInv, Settled, Empty, RowsOf,
                     Locked
  <1>2. TypeInv /\ LockOwnership /\ SyncInv /\ [Next]_vars => SyncInv'
    BY SyncStep DEF Base
  <1>3. TypeInv /\ LockOwnership /\ SyncInv /\ TypeInv' /\ ExactInv /\ [Next]_vars => ExactInv'
    BY ExactStep DEF Base
  <1>4. Spec => [](TypeInv /\ LockOwnership)
    BY Typing, LocksAreOwned, PTL DEF TypeInv
  <1>5. TypeInv /\ LockOwnership /\ SyncInv /\ ExactInv => InSyncExact
    <2> SUFFICES ASSUME TypeInv, LockOwnership, SyncInv, ExactInv, NEW d \in Docs,
                        status[d] = "in_sync"
                 PROVE  file[d] # NoFile /\ IsIndex(RowsOf(d), d)
      BY DEF InSyncExact
    <2>1. file[d] # NoFile
      BY DEF SyncInv, DocOK
    <2>2. Settled(d)
      <3>1. CASE lock[d] = NoReq
        BY <3>1 DEF ExactInv
      <3>2. CASE lock[d] # NoReq
        <4>1. PICK r \in Reqs : Locked(r) /\ Doc(r) = d
          BY <3>2 DEF LockOwnership, TypeInv, TypeOK
        <4>2. pc[r] \in {"mark", "report"}
          BY <4>1 DEF Locked, SyncInv, ReqOK, TypeInv, TypeOK, PC
        <4> QED BY <4>1, <4>2 DEF ExactInv, Prepared
      <3> QED BY <3>1, <3>2
    <2> QED BY <2>1, <2>2 DEF Settled
  <1> QED BY <1>1, <1>2, <1>3, <1>4, <1>5, PTL DEF Spec

-----------------------------------------------------------------------------
(***************************************************************************)
(* create, update and delete are atomic on the files, when nothing but the *)
(* embedding service and the row statements fails and the process does not *)
(* die.  The backup or the file moved aside is there from the write of the *)
(* file until it is dropped or renamed back, and at no other time.         *)
(***************************************************************************)
Kept(r) ==
  /\ Op(r) # "update" => bak[Doc(r)] = NoFile
  /\ Op(r) # "delete" => del[Doc(r)] = NoFile
  /\ pc[r] \in {"mark", "files"} =>
       /\ bak[Doc(r)] = NoFile /\ del[Doc(r)] = NoFile
       /\ Op(r) = "create" <=> file[Doc(r)] = NoFile
  /\ pc[r] \in {"commit", "report", "fail"} => bak[Doc(r)] = NoFile /\ del[Doc(r)] = NoFile
  /\ Op(r) = "update" /\ pc[r] \in {"purge", "embed", "insert", "cleanup", "rollback"} =>
       bak[Doc(r)] # NoFile
  /\ Op(r) = "delete" /\ pc[r] \in {"purge", "cleanup", "rollback"} => del[Doc(r)] # NoFile
  /\ Op(r) = "delete" /\ pc[r] \in {"purge", "cleanup", "commit"} => file[Doc(r)] = NoFile

NothingAside(d) == bak[d] = NoFile /\ del[d] = NoFile

FilesInv ==
  /\ \A d \in Docs : lock[d] = NoReq => NothingAside(d)
  /\ \A r \in Reqs : Op(r) = "delete" => job[r].text = NoText
  /\ \A r \in Reqs : Locked(r) => Kept(r)

\* The faults under which the operations are atomic.
MildFaults == Faults \subseteq {"embed", "rows"}

\* A step of r inside the lock of e.
Alone(r, e) ==
  /\ \A d \in Docs : d # e => /\ file'[d] = file[d] /\ bak'[d] = bak[d] /\ del'[d] = del[d]
                              /\ lock'[d] = lock[d]
  /\ \A q \in Reqs : q # r => pc'[q] = pc[q] /\ job'[q] = job[q]

LEMMA FilesFrame ==
  ASSUME Base, FilesInv, NEW r \in Reqs, NEW e \in Docs, lock[e] \in {r, NoReq}, Alone(r, e),
         lock'[e] = NoReq => NothingAside(e)', Locked(r)' => Kept(r)',
         Op(r)' = "delete" => job'[r].text = NoText
  PROVE  FilesInv'
  <1>1. ASSUME NEW d \in Docs, d # e, lock'[d] = NoReq PROVE NothingAside(d)'
    BY <1>1 DEF FilesInv, NothingAside, Alone
  <1>2. ASSUME NEW q \in Reqs, q # r PROVE Locked(q)' => Kept(q)'
    <2>1. pc'[q] = pc[q] /\ job'[q] = job[q]
      BY <1>2 DEF Alone
    <2>2. Op(q)' = Op(q) /\ Doc(q)' = Doc(q) /\ (Locked(q)' <=> Locked(q))
      BY <2>1 DEF Op, Doc, Locked
    <2>3. Locked(q) => Doc(q) \in Docs /\ Doc(q) # e /\ Kept(q)
      BY <1>2, SyncAssumption DEF Base, LockOwnership, Doc, TypeInv, TypeOK, Job, FilesInv
    <2> QED BY <2>1, <2>2, <2>3 DEF Alone, Kept
  <1>3. ASSUME NEW q \in Reqs, q # r PROVE Op(q)' = "delete" => job'[q].text = NoText
    BY <1>3 DEF Alone, FilesInv, Op
  <1> QED BY <1>1, <1>2, <1>3 DEF FilesInv

LEMMA FilesAside ==
  ASSUME Base, FilesInv, UNCHANGED <<file, bak, del, lock>>, NEW r \in Reqs, ~Locked(r)',
         \A q \in Reqs : q # r => pc'[q] = pc[q] /\ job'[q] = job[q],
         Op(r)' = "delete" => job'[r].text = NoText
  PROVE  FilesInv'
  BY DEF FilesInv, NothingAside, Locked, Op, Doc, Kept

LEMMA FilesFinish ==
  ASSUME Base, FilesInv, NEW r \in Reqs, Locked(r), Finish(r), NothingAside(Doc(r)),
         UNCHANGED <<file, bak, del>>
  PROVE  /\ FilesInv' /\ pc'[r] = "idle" /\ job'[r] = NoJob /\ lock'[Doc(r)] = NoReq
         /\ Alone(r, Doc(r))
  <1>1. lock[Doc(r)] = r /\ Doc(r) \in Docs
    BY DEF Base, LockOwnership, Doc, TypeInv, TypeOK, Job
  <1>2. /\ pc'[r] = "idle" /\ job'[r] = NoJob /\ lock'[Doc(r)] = NoReq
        /\ Alone(r, Doc(r))
    BY <1>1 DEF Finish, Alone, Base, TypeInv, TypeOK
  <1>4. PICK e \in Docs : e = Doc(r)
    BY <1>1
  <1>5. NothingAside(e)'
    BY <1>4 DEF NothingAside
  <1>6. ~Locked(r)' /\ Op(r)' # "delete"
    BY <1>2, NoJobType DEF Locked, Op
  <1> QED BY <1>1, <1>2, <1>4, <1>5, <1>6, FilesFrame

\* What each step within the lock does to the files.  Nothing but Purge, Embed and
\* Insert raises, which leads to "rollback" and leaves the files alone.
FilesMove(r, e) ==
  /\ UNCHANGED lock /\ UNCHANGED <<Op(r), Doc(r), job[r].text>>
  /\ \/ /\ UNCHANGED <<file, bak, del>>
        /\ \/ pc[r] = "mark" /\ pc'[r] = "files"
           \/ /\ pc[r] \in {"purge", "embed", "insert"}
              /\ pc'[r] \in {"embed", "insert", "cleanup", "rollback"}
              /\ Op(r) = "create" => pc[r] # "purge"
              /\ Op(r) = "delete" => pc[r] = "purge" /\ pc'[r] \in {"cleanup", "rollback"}
           \/ pc[r] = "cleanup" /\ pc'[r] = "commit" /\ Op(r) = "create"
           \/ pc[r] = "commit" /\ pc'[r] = "report" /\ Op(r) # "delete"
     \/ /\ Op(r) = "create" /\ pc[r] = "files" /\ pc'[r] = "embed"
        /\ UNCHANGED <<bak, del>>
     \/ /\ Op(r) = "update" /\ pc[r] = "files" /\ pc'[r] = "purge"
        /\ file[e] # NoFile /\ bak'[e] = file[e]
        /\ UNCHANGED del
     \/ /\ Op(r) = "delete" /\ pc[r] = "files" /\ pc'[r] = "purge"
        /\ file[e] # NoFile /\ del'[e] = file[e] /\ file'[e] = NoFile
        /\ UNCHANGED bak
     \/ /\ Op(r) \in {"update", "delete"} /\ pc[r] = "cleanup" /\ pc'[r] = "commit"
        /\ NothingAside(e)'
        /\ UNCHANGED file
     \/ /\ pc[r] = "rollback" /\ pc'[r] = "fail" /\ NothingAside(e)'
        /\ file'[e] = IF Op(r) = "create" THEN NoFile
                      ELSE IF Op(r) = "update" THEN bak[e] ELSE del[e]

FilesEnd(r) ==
  /\ pc[r] \in {"report", "fail"} \/ (pc[r] = "commit" /\ Op(r) = "delete")
  /\ Finish(r) /\ UNCHANGED <<file, bak, del>>

LEMMA FilesServe ==
  ASSUME MildFaults, Base, FilesInv, NEW r \in Reqs, Serve(r), NEW e \in Docs, e = Doc(r)
  PROVE  /\ Locked(r) /\ Kept(r) /\ lock[e] = r /\ Alone(r, e) /\ (FilesMove(r, e) \/ FilesEnd(r))
         /\ Op(r) \in {"create", "update", "delete"}
  <1> USE SyncAssumption DEF Base
  <1>0. /\ job[r] \in Job /\ ReqOK(r) /\ pc[r] \notin {"idle", "wait"}
        /\ Stage(Op(r), pc[r]) /\ Op(r) \in {"create", "update", "delete"}
    BY DEF Serve, Mark, CreateFile, ReplaceFile, MoveAside, ReadFile, Purge,
         Embed, Insert, CleanUp, Commit, Report, Rollback, RollbackFails, Fail,
         Doc, Op, TypeInv, TypeOK, Job, SyncInv, ReqOK, Flow, Stage
  <1>l. Locked(r) /\ Kept(r) /\ lock[e] = r
    BY <1>0 DEF Locked, FilesInv, LockOwnership
  <1>t. /\ file \in [Docs -> Files \cup {NoFile}] /\ bak \in [Docs -> Files \cup {NoFile}]
        /\ del \in [Docs -> Files \cup {NoFile}]
    BY DEF TypeInv, TypeOK
  <1> SUFFICES Alone(r, e) /\ (FilesMove(r, e) \/ FilesEnd(r))
    BY <1>0, <1>l
  <1>g. ASSUME NEW l, Goto(r, l), UNCHANGED job
        PROVE  /\ pc'[r] = l /\ UNCHANGED <<Op(r), Doc(r), job[r].text>>
               /\ \A q \in Reqs : q # r => pc'[q] = pc[q] /\ job'[q] = job[q]
    BY <1>g, GotoReq
  <1>f. ASSUME Finish(r), UNCHANGED <<file, bak, del>> PROVE Alone(r, e)
    BY <1>f, FinishReq DEF Finish, Alone, TypeInv, TypeOK
  <1>r. ASSUME Raise(r) PROVE Goto(r, "rollback") /\ UNCHANGED <<job, lock>>
    BY <1>r, <1>0 DEF Raise
  <1>1. CASE Mark(r)
    BY <1>1, <1>g DEF Mark, disk, MildFaults, Alone, FilesMove, FilesEnd
  <1>2. CASE CreateFile(r)
    <2>1. /\ pc[r] = "files" /\ Op(r) = "create" /\ Goto(r, "embed")
          /\ UNCHANGED <<lock, job, bak, del>>
          /\ \A d \in Docs : d # e => file'[d] = file[d]
      BY <1>2, <1>t DEF CreateFile, MildFaults
    <2> QED BY <2>1, <1>g DEF Alone, FilesMove, FilesEnd
  <1>3. CASE ReplaceFile(r)
    <2>0. file[e] # NoFile
      BY <1>3, <1>l DEF ReplaceFile, Kept
    <2>1. /\ pc[r] = "files" /\ Op(r) = "update" /\ Goto(r, "purge")
          /\ UNCHANGED <<lock, job, del>> /\ bak'[e] = file[e]
          /\ \A d \in Docs : d # e => file'[d] = file[d] /\ bak'[d] = bak[d]
      BY <2>0, <1>3, <1>t DEF ReplaceFile, MildFaults
    <2> QED BY <2>0, <2>1, <1>g DEF Alone, FilesMove, FilesEnd
  <1>4. CASE MoveAside(r)
    <2>0. file[e] # NoFile
      BY <1>4, <1>l DEF MoveAside, Kept
    <2>1. /\ pc[r] = "files" /\ Op(r) = "delete" /\ Goto(r, "purge")
          /\ UNCHANGED <<lock, job, bak>> /\ del'[e] = file[e] /\ file'[e] = NoFile
          /\ \A d \in Docs : d # e => file'[d] = file[d] /\ del'[d] = del[d]
      BY <2>0, <1>4, <1>t DEF MoveAside, MildFaults
    <2> QED BY <2>0, <2>1, <1>g DEF Alone, FilesMove, FilesEnd
  <1>5. CASE ReadFile(r)
    BY <1>5, <1>0 DEF ReadFile
  <1>6. CASE Purge(r) \/ Embed(r)
    <2>1. /\ UNCHANGED <<file, bak, del, lock, job>> /\ pc[r] \in {"purge", "embed"}
          /\ \E l \in {"embed", "insert", "cleanup", "rollback"} :
               /\ Goto(r, l)
               /\ Op(r) = "delete" => pc[r] = "purge" /\ l \in {"cleanup", "rollback"}
      BY <1>6, <1>0, <1>r DEF Purge, Embed, disk, Stage
    <2>2. Op(r) = "create" => pc[r] # "purge"
      BY <1>0 DEF Stage
    <2> QED BY <2>1, <2>2, <1>g DEF Alone, FilesMove, FilesEnd
  <1>7. CASE Insert(r)
    <2>0. pc[r] = "insert" /\ Op(r) # "delete" /\ UNCHANGED <<file, bak, del>>
      BY <1>7, <1>0 DEF Insert, disk, Stage
    <2>1. CASE Raise(r)
      BY <2>0, <2>1, <1>g, <1>r DEF Alone, FilesMove, FilesEnd
    <2>2. CASE ~Raise(r)
      <3>1. PICK l \in {"insert", "cleanup"} :
              Goto(r, l) /\ job' = [job EXCEPT ![r].done = @ + 1] /\ UNCHANGED lock
        BY <2>2, <1>7 DEF Insert
      <3>2. /\ pc'[r] = l /\ UNCHANGED <<Op(r), Doc(r), job[r].text>>
            /\ \A q \in Reqs : q # r => pc'[q] = pc[q] /\ job'[q] = job[q]
        BY <3>1, <1>0 DEF Goto, Op, Doc, Job, TypeInv, TypeOK
      <3> QED BY <2>0, <3>1, <3>2 DEF Alone, FilesMove, FilesEnd
    <2> QED BY <2>1, <2>2
  <1>8. CASE CleanUp(r)
    <2>1. Op(r) # "delete" => file[e] # NoFile
      BY <1>8, <1>0 DEF CleanUp, ReqOK, Writing, NewFile, NoFile, NoText, Op, Doc, TypeInv, Flow,
                        Texts
    <2>2. /\ pc[r] = "cleanup" /\ Goto(r, "commit") /\ UNCHANGED <<lock, job, file>>
          /\ bak' = IF Op(r) = "update" THEN [bak EXCEPT ![e] = NoFile] ELSE bak
          /\ del' = IF Op(r) = "delete" THEN [del EXCEPT ![e] = NoFile] ELSE del
      BY <2>1, <1>8, <1>0 DEF CleanUp, MildFaults
    <2>3. NothingAside(e)' /\ Alone(r, e)
      BY <2>2, <1>0, <1>t, <1>l, <1>g DEF NothingAside, Alone, Kept
    <2>4. Op(r) = "create" => UNCHANGED <<bak, del>>
      BY <2>2
    <2> QED BY <2>2, <2>3, <2>4, <1>0, <1>g DEF FilesMove, FilesEnd
  <1>9. CASE Commit(r)
    <2>1. pc[r] = "commit" /\ UNCHANGED <<file, bak, del>>
      BY <1>9 DEF Commit, disk
    <2>2. CASE Op(r) = "delete"
      BY <2>1, <2>2, <1>9, <1>f DEF Commit, MildFaults, FilesMove, FilesEnd
    <2>3. CASE Op(r) # "delete"
      BY <2>1, <2>3, <1>9, <1>g DEF Commit, MildFaults, Alone, FilesMove, FilesEnd
    <2> QED BY <2>2, <2>3
  <1>10. CASE Report(r)
    BY <1>10, <1>f DEF Report, disk, MildFaults, FilesEnd
  <1>11. CASE Rollback(r)
    <2>1. /\ pc[r] = "rollback" /\ Goto(r, "fail") /\ UNCHANGED <<lock, job>>
      BY <1>11 DEF Rollback
    <2>2. /\ NothingAside(e)'
          /\ file'[e] = IF Op(r) = "create" THEN NoFile
                        ELSE IF Op(r) = "update" THEN bak[e] ELSE del[e]
          /\ \A d \in Docs : d # e => file'[d] = file[d] /\ bak'[d] = bak[d] /\ del'[d] = del[d]
      <3>1. CASE Op(r) = "create"
        BY <3>1, <1>11, <1>l, <1>t DEF Rollback, Kept, NothingAside
      <3>2. CASE Op(r) = "update"
        BY <3>2, <1>11, <1>l, <1>t DEF Rollback, Kept, NothingAside
      <3>3. CASE Op(r) = "delete"
        BY <3>3, <1>11, <1>l, <1>t DEF Rollback, Kept, NothingAside
      <3> QED BY <3>1, <3>2, <3>3, <1>0
    <2> QED BY <2>1, <2>2, <1>g DEF Alone, FilesMove, FilesEnd
  <1>12. CASE Fail(r)
    BY <1>12, <1>f DEF Fail, disk, FilesMove, FilesEnd
  <1>13. ~RollbackFails(r)
    BY DEF RollbackFails, MildFaults
  <1> QED BY <1>1, <1>2, <1>3, <1>4, <1>5, <1>6, <1>7, <1>8, <1>9, <1>10, <1>11, <1>12, <1>13
          DEF Serve

LEMMA FilesStep ==
  ASSUME Ops \subseteq LockedOps, MildFaults, MaxCrashes = 0, Base, FilesInv, [Next]_vars
  PROVE  FilesInv'
  <1>1. ASSUME NEW r \in Reqs, Request(r) PROVE FilesInv'
    <2>1. /\ UNCHANGED <<file, bak, del, lock>> /\ pc'[r] = "wait"
          /\ job'[r].op = "delete" => job'[r].text = NoText
          /\ \A q \in Reqs : q # r => pc'[q] = pc[q] /\ job'[q] = job[q]
      BY <1>1 DEF Request, RequestCreate, RequestUpdate, RequestWrite, RequestDelete,
         RequestReindex, RequestBulkDelete, ResolveKeepFilesystem, ResolveKeepDatabase,
         Resolve, NewJob, Goto, Base, TypeInv, TypeOK, LockedOps
    <2> QED BY <2>1, FilesAside DEF Locked, Op
  <1>2. ASSUME NEW r \in Reqs, Refuse(r) PROVE FilesInv'
    <2>1. /\ UNCHANGED <<file, bak, del, rows, status>> /\ Finish(r) /\ pc'[r] = "idle"
          /\ pc[r] = "wait" /\ job'[r] = NoJob
      BY <1>2 DEF Refuse, Finish, disk, Base, TypeInv, TypeOK
    <2>2. ~Locked(r) /\ Doc(r) \in Docs /\ lock[Doc(r)] # r
      BY <2>1, SyncAssumption DEF Locked, Base, LockOwnership, TypeInv, TypeOK, Doc, Job
    <2>3. UNCHANGED lock
      BY <2>1, <2>2 DEF Finish, Base, TypeInv, TypeOK
    <2>4. Op(r)' # "delete" /\ ~Locked(r)'
      BY <2>1, NoJobType DEF Op, Locked
    <2> QED BY <2>1, <2>3, <2>4, FinishReq, FilesAside DEF Base
  <1>3. ASSUME NEW r \in Reqs, Acquire(r) PROVE FilesInv'
    <2>e. PICK e \in Docs : e = Doc(r)
      BY DEF Doc, Base, TypeInv, TypeOK, Job
    <2>0. Op(r) \in {"create", "update", "delete"}
      BY <1>3 DEF Acquire, Base, SyncInv, ReqOK, TypeInv, TypeOK, Flow, Stage, Op, Job
    <2>1. /\ UNCHANGED <<file, bak, del, job>> /\ Goto(r, "mark")
          /\ lock[e] = NoReq /\ lock' = [lock EXCEPT ![e] = r] /\ ~MustRefuse(r)
      BY <1>3, <2>e, <2>0 DEF Acquire, Admitted, disk
    <2>2. NothingAside(e) /\ (Op(r) = "create" <=> file[e] = NoFile)
      BY <2>1, <2>0, <2>e DEF FilesInv, MustRefuse
    <2>3. Kept(r)'
      BY <2>1, <2>2, <2>e, GotoReq DEF Base, Kept, NothingAside
    <2>4. Alone(r, e) /\ lock'[e] # NoReq
      BY <2>1, GotoReq, SyncAssumption DEF Alone, Base, TypeInv, TypeOK
    <2>5. Op(r)' = "delete" => job'[r].text = NoText
      BY <2>1 DEF FilesInv, Op
    <2> QED BY <2>1, <2>3, <2>4, <2>5, FilesFrame
  <1>4. ASSUME NEW r \in Reqs, Serve(r) PROVE FilesInv'
    <2>e. PICK e \in Docs : e = Doc(r)
      BY DEF Doc, Base, TypeInv, TypeOK, Job
    <2>1. /\ Locked(r) /\ Kept(r) /\ lock[e] = r /\ Alone(r, e) /\ (FilesMove(r, e) \/ FilesEnd(r))
          /\ Op(r) \in {"create", "update", "delete"}
      BY <1>4, <2>e, FilesServe
    <2>2. CASE FilesMove(r, e)
      <3>0. Doc(r)' = e /\ Op(r)' = Op(r) /\ job'[r].text = job[r].text /\ UNCHANGED lock
        BY <2>2, <2>e DEF FilesMove
      <3>1. lock'[e] # NoReq /\ (Op(r)' = "delete" => job'[r].text = NoText)
        BY <2>1, <3>0, SyncAssumption DEF FilesInv
      <3>2. Kept(r)'
        BY <2>1, <2>2, <2>e, <3>0 DEF FilesMove, Kept, NothingAside
      <3> QED BY <2>1, <3>1, <3>2, FilesFrame
    <2>3. CASE FilesEnd(r)
      BY <2>1, <2>3, <2>e, FilesFinish DEF FilesEnd, Kept, NothingAside
    <2> QED BY <2>1, <2>2, <2>3
  <1>5. ASSUME NEW r \in Reqs, Timeout(r) PROVE FilesInv'
    BY <1>5 DEF Timeout, Base, SyncInv, ReqOK
  <1>6. ASSUME NEW d \in Docs, ExternalEdit(d) PROVE FilesInv'
    BY <1>6 DEF ExternalEdit, LockedOps
  <1>7. CASE Crash
    BY <1>7 DEF Crash, Base, TypeInv, TypeOK
  <1>8. CASE UNCHANGED vars
    BY <1>8 DEF vars, FilesInv, Locked, Op, Doc, Kept, NothingAside
  <1> QED BY <1>1, <1>2, <1>3, <1>4, <1>5, <1>6, <1>7, <1>8 DEF Next

\* What the abstract store sees of a step of r inside the lock of e.
LEMMA WorthElsewhere ==
  ASSUME Base, NEW r \in Reqs, NEW e \in Docs, e = Doc(r), lock[e] \in {r, NoReq}, Alone(r, e)
  PROVE  /\ \A d \in Docs : d # e => Worth(d)' = Worth(d)
         /\ \A q \in Reqs : q # r => Call(q)' = Call(q)
  <1>1. ASSUME NEW d \in Docs, d # e PROVE Worth(d)' = Worth(d)
    <2>1. lock[d] # r
      BY <1>1, SyncAssumption DEF Base, LockOwnership
    <2>2. Creating(d)' <=> Creating(d)
      BY <1>1, <2>1 DEF Alone, Creating, Op
    <2> QED BY <1>1, <2>2 DEF Alone, Worth
  <1>2. ASSUME NEW q \in Reqs, q # r PROVE Call(q)' = Call(q)
    BY <1>2 DEF Alone, Call, Applied, Op, Doc
  <1> QED BY <1>1, <1>2

LEMMA AtomicStutter ==
  ASSUME \A d \in Docs : Worth(d)' = Worth(d), \A q \in Reqs : Call(q)' = Call(q)
  PROVE  UNCHANGED Atomic!vars
  BY DEF Atomic!vars

LEMMA AtomicEffect ==
  ASSUME NEW r \in Reqs, NEW e \in Docs,
         \A d \in Docs : d # e => Worth(d)' = Worth(d),
         \A q \in Reqs : q # r => Call(q)' = Call(q),
         Call(r).phase = "pending", Call(r).doc = e, Worth(e)' = Call(r).text,
         Call(r)' = [Call(r) EXCEPT !.phase = "applied"],
         (Call(r).op = "create") <=> (Worth(e) = NoText)
  PROVE  Atomic!Next
  <1>1. Atomic!Applicable(Call(r).op, Worth(e))
    BY DEF Atomic!Applicable
  <1>2. [d \in Docs |-> Worth(d)]' = [[d \in Docs |-> Worth(d)] EXCEPT ![e] = Call(r).text]
    OBVIOUS
  <1>3. [q \in Reqs |-> Call(q)]' = [[q \in Reqs |-> Call(q)] EXCEPT ![r].phase = "applied"]
    OBVIOUS
  <1>4. Atomic!Apply(r)
    BY <1>1, <1>2, <1>3 DEF Atomic!Apply
  <1> QED BY <1>4 DEF Atomic!Next

LEMMA AtomicEnd ==
  ASSUME NEW r \in Reqs, \A d \in Docs : Worth(d)' = Worth(d),
         \A q \in Reqs : q # r => Call(q)' = Call(q),
         Call(r).phase \in {"pending", "applied"}, Call(r)' = Atomic!NoCall
  PROVE  Atomic!Next
  <1>1. UNCHANGED [d \in Docs |-> Worth(d)]
    OBVIOUS
  <1>2. [q \in Reqs |-> Call(q)]' = [[q \in Reqs |-> Call(q)] EXCEPT ![r] = Atomic!NoCall]
    OBVIOUS
  <1>3. Atomic!Return(r) \/ Atomic!FailCall(r)
    BY <1>1, <1>2 DEF Atomic!Return, Atomic!FailCall
  <1> QED BY <1>3 DEF Atomic!Next

\* The value of a path while r holds its lock.
LEMMA WorthOwned ==
  ASSUME NEW r \in Reqs, NEW e, lock[e] = r
  PROVE  /\ Creating(e) <=> /\ Op(r) = "create"
                            /\ pc[r] \in {"embed", "insert", "cleanup", "commit", "rollback"}
         /\ lock'[e] = r => (Creating(e)' <=> /\ Op(r)' = "create"
                                              /\ pc'[r] \in {"embed", "insert", "cleanup",
                                                             "commit", "rollback"})
         /\ lock'[e] = NoReq => ~Creating(e)'
  BY SyncAssumption DEF Creating

LEMMA FileText ==
  ASSUME TypeInv, NEW d \in Docs
  PROVE  /\ file[d].text = NoText <=> file[d] = NoFile
         /\ bak[d] # NoFile => bak[d].text # NoText
         /\ del[d] # NoFile => del[d].text # NoText
  BY DEF TypeInv, TypeOK, Files, NoFile, Texts, NoText

LEMMA MoveImplements ==
  ASSUME Base, FilesInv, NEW r \in Reqs, NEW e \in Docs, e = Doc(r), Locked(r), Kept(r), lock[e] = r,
         Alone(r, e), FilesMove(r, e), Op(r) \in {"create", "update", "delete"}
  PROVE  [Atomic!Next]_(Atomic!vars)
  <1>e. /\ \A d \in Docs : d # e => Worth(d)' = Worth(d)
        /\ \A q \in Reqs : q # r => Call(q)' = Call(q)
    BY WorthElsewhere
  <1>0. /\ Op(r)' = Op(r) /\ Doc(r)' = e /\ job'[r].text = job[r].text /\ lock'[e] = r
        /\ pc[r] \notin {"idle", "wait"}
    BY DEF FilesMove, Locked
  <1>c. /\ Creating(e) <=> /\ Op(r) = "create"
                           /\ pc[r] \in {"embed", "insert", "cleanup", "commit", "rollback"}
        /\ Creating(e)' <=> /\ Op(r) = "create"
                            /\ pc'[r] \in {"embed", "insert", "cleanup", "commit", "rollback"}
    BY <1>0, WorthOwned
  <1>t. /\ file[e].text = NoText <=> file[e] = NoFile
        /\ bak[e] # NoFile => bak[e].text # NoText
        /\ del[e] # NoFile => del[e].text # NoText
    BY FileText DEF Base
  <1>p. /\ Call(r) = [op |-> Op(r), doc |-> e, text |-> job[r].text,
                      phase |-> IF Applied(r) THEN "applied" ELSE "pending"]
        /\ pc'[r] # "idle" => Call(r)' = [op |-> Op(r), doc |-> e, text |-> job[r].text,
                                          phase |-> IF Applied(r)' THEN "applied" ELSE "pending"]
    BY <1>0 DEF Call
  <1>f. (Op(r) \in {"create", "update"} /\ pc[r] \in {"cleanup", "commit"})
           => file[e].text = job[r].text /\ file[e] # NoFile
    <2>1. (Op(r) \in {"create", "update"} /\ pc[r] \in {"cleanup", "commit"})
             => file[e] = NewFile(r) /\ job[r].text \in Texts
      BY DEF Base, SyncInv, ReqOK, Writing, TypeInv, Flow, Op
    <2> QED BY <2>1 DEF NewFile, NoFile, Texts, NoText
  <1>d. Op(r) = "delete" => job[r].text = NoText
    BY DEF FilesInv
  <1>1. CASE Worth(e)' = Worth(e) /\ pc'[r] # "idle" /\ (Applied(r)' <=> Applied(r))
    <2>1. Call(r)' = Call(r)
      BY <1>1, <1>p
    <2> QED BY <1>1, <2>1, <1>e, AtomicStutter
  <1>2. CASE /\ Worth(e)' = job[r].text /\ pc'[r] # "idle" /\ ~Applied(r) /\ Applied(r)'
             /\ (Op(r) = "create") <=> (Worth(e) = NoText)
    <2>1. /\ Call(r).phase = "pending" /\ Call(r).doc = e /\ Call(r).text = job[r].text
          /\ Call(r)' = [Call(r) EXCEPT !.phase = "applied"] /\ Call(r).op = Op(r)
      BY <1>2, <1>p
    <2> QED BY <1>2, <2>1, <1>e, AtomicEffect
  <1>3. CASE UNCHANGED <<file, bak, del>>
             /\ \/ pc[r] = "mark" /\ pc'[r] = "files"
                \/ /\ pc[r] \in {"purge", "embed", "insert"}
                   /\ pc'[r] \in {"embed", "insert", "cleanup", "rollback"}
                   /\ Op(r) = "create" => pc[r] # "purge"
                \/ pc[r] = "cleanup" /\ pc'[r] = "commit" /\ Op(r) = "create"
    <2>1. Creating(e)' <=> Creating(e)
      BY <1>3, <1>c
    <2>2. Worth(e)' = Worth(e) /\ pc'[r] # "idle" /\ (Applied(r)' <=> Applied(r))
      BY <1>3, <1>0, <2>1 DEF Worth, Applied
    <2> QED BY <2>2, <1>1
  <1>4. CASE UNCHANGED <<file, bak, del>> /\ pc[r] = "commit" /\ pc'[r] = "report" /\ Op(r) # "delete"
    <2>1. NothingAside(e)
      BY <1>4 DEF Kept, NothingAside
    <2>2. Worth(e)' = file[e].text /\ file[e].text = job[r].text /\ file[e] # NoFile
      BY <1>4, <1>c, <1>f, <2>1 DEF Worth, NothingAside
    <2>3. CASE Op(r) = "create"
      <3>1. Worth(e) = NoText /\ ~Applied(r) /\ Applied(r)'
        BY <1>4, <1>c, <2>1, <2>3 DEF Worth, NothingAside, Applied
      <3> QED BY <1>4, <2>2, <2>3, <3>1, <1>2
    <2>4. CASE Op(r) = "update"
      <3>1. Worth(e) = file[e].text /\ Applied(r) /\ Applied(r)'
        BY <1>4, <1>c, <2>1, <2>4 DEF Worth, NothingAside, Applied
      <3> QED BY <1>4, <2>2, <3>1, <1>1
    <2> QED BY <1>4, <2>3, <2>4
  <1>5. CASE Op(r) = "create" /\ pc[r] = "files" /\ pc'[r] = "embed" /\ UNCHANGED <<bak, del>>
    <2>1. NothingAside(e) /\ file[e] = NoFile
      BY <1>5 DEF Kept, NothingAside
    <2>2. Worth(e) = NoText /\ Worth(e)' = NoText
      BY <1>5, <1>c, <2>1, <1>t DEF Worth, NothingAside
    <2>3. Applied(r)' <=> Applied(r)
      BY <1>5 DEF Applied
    <2> QED BY <1>5, <2>2, <2>3, <1>1
  <1>6. CASE /\ Op(r) = "update" /\ pc[r] = "files" /\ pc'[r] = "purge"
             /\ file[e] # NoFile /\ bak'[e] = file[e] /\ UNCHANGED del
    <2>1. NothingAside(e)
      BY <1>6 DEF Kept, NothingAside
    <2>2. Worth(e) = file[e].text /\ Worth(e)' = file[e].text
      BY <1>6, <1>c, <2>1 DEF Worth, NothingAside
    <2>3. Applied(r)' <=> Applied(r)
      BY <1>6 DEF Applied
    <2> QED BY <1>6, <2>2, <2>3, <1>1
  <1>7. CASE /\ Op(r) = "delete" /\ pc[r] = "files" /\ pc'[r] = "purge"
             /\ file[e] # NoFile /\ del'[e] = file[e] /\ UNCHANGED bak
    <2>1. NothingAside(e)
      BY <1>7 DEF Kept, NothingAside
    <2>2. Worth(e) = file[e].text /\ Worth(e)' = file[e].text
      BY <1>7, <1>c, <2>1 DEF Worth, NothingAside
    <2>3. Applied(r)' <=> Applied(r)
      BY <1>7 DEF Applied
    <2> QED BY <1>7, <2>2, <2>3, <1>1
  <1>8. CASE /\ Op(r) \in {"update", "delete"} /\ pc[r] = "cleanup" /\ pc'[r] = "commit"
             /\ NothingAside(e)' /\ UNCHANGED file
    <2>1. Worth(e) # NoText
      BY <1>8, <1>t DEF Worth, Kept
    <2>2. Worth(e)' = file[e].text
      BY <1>8, <1>c DEF Worth, NothingAside
    <2>3. file[e].text = job[r].text
      BY <1>8, <1>f, <1>d, <1>t DEF Kept
    <2>4. ~Applied(r) /\ Applied(r)'
      BY <1>8, <1>0 DEF Applied
    <2> QED BY <1>8, <2>1, <2>2, <2>3, <2>4, <1>2
  <1>9. CASE /\ pc[r] = "rollback" /\ pc'[r] = "fail" /\ NothingAside(e)'
             /\ file'[e] = IF Op(r) = "create" THEN NoFile
                           ELSE IF Op(r) = "update" THEN bak[e] ELSE del[e]
    <2>1. Worth(e)' = file'[e].text
      BY <1>9, <1>c DEF Worth, NothingAside
    <2>2. Worth(e) = file'[e].text
      <3>1. CASE Op(r) = "create"
        BY <1>9, <3>1, <1>c DEF Worth, Kept, NoFile
      <3>2. CASE Op(r) = "update"
        BY <1>9, <3>2 DEF Worth, Kept
      <3>3. CASE Op(r) = "delete"
        BY <1>9, <3>3 DEF Worth, Kept
      <3> QED BY <3>1, <3>2, <3>3
    <2>3. Applied(r)' <=> Applied(r)
      BY <1>9 DEF Applied
    <2> QED BY <1>9, <2>1, <2>2, <2>3, <1>1
  <1> QED BY <1>3, <1>4, <1>5, <1>6, <1>7, <1>8, <1>9 DEF FilesMove

LEMMA EndImplements ==
  ASSUME Base, FilesInv, NEW r \in Reqs, NEW e \in Docs, e = Doc(r), Locked(r), Kept(r), lock[e] = r,
         FilesEnd(r)
  PROVE  Atomic!Next
  <1>1. NothingAside(e) /\ Finish(r) /\ UNCHANGED <<file, bak, del>>
    BY DEF FilesEnd, Kept, NothingAside
  <1>2. pc'[r] = "idle" /\ lock'[e] = NoReq /\ Alone(r, e)
    BY <1>1, FilesFinish
  <1>3. /\ \A d \in Docs : d # e => Worth(d)' = Worth(d)
        /\ \A q \in Reqs : q # r => Call(q)' = Call(q)
    BY <1>2, WorthElsewhere
  <1>4. ~Creating(e) /\ ~Creating(e)'
    BY <1>2, WorthOwned DEF FilesEnd
  <1>5. Worth(e)' = Worth(e)
    BY <1>1, <1>4 DEF Worth
  <1>6. Call(r).phase \in {"pending", "applied"} /\ Call(r)' = Atomic!NoCall
    BY <1>2 DEF FilesEnd, Call, Atomic!NoCall
  <1> QED BY <1>3, <1>5, <1>6, AtomicEnd

\* Nobody's files or locks change, and r is not inside a lock.
LEMMA WorthAside ==
  ASSUME Base, UNCHANGED <<file, bak, del, lock>>, NEW r \in Reqs, ~Locked(r),
         \A q \in Reqs : q # r => pc'[q] = pc[q] /\ job'[q] = job[q]
  PROVE  /\ \A d \in Docs : Worth(d)' = Worth(d)
         /\ \A q \in Reqs : q # r => Call(q)' = Call(q)
  <1>1. ASSUME NEW d \in Docs PROVE Worth(d)' = Worth(d)
    <2>1. lock[d] # r
      BY SyncAssumption DEF Base, LockOwnership
    <2>2. Creating(d)' <=> Creating(d)
      BY <2>1 DEF Creating, Op
    <2> QED BY <2>2 DEF Worth
  <1>2. ASSUME NEW q \in Reqs, q # r PROVE Call(q)' = Call(q)
    BY <1>2 DEF Call, Applied, Op, Doc
  <1> QED BY <1>1, <1>2

LEMMA RequestImplements ==
  ASSUME Ops \subseteq LockedOps, Base, TypeInv', FilesInv', NEW r \in Reqs, Request(r)
  PROVE  Atomic!Next
  <1>1. /\ UNCHANGED <<file, bak, del, lock>> /\ pc[r] = "idle" /\ pc'[r] = "wait"
        /\ job'[r].op \in {"create", "update", "delete"}
        /\ \A q \in Reqs : q # r => pc'[q] = pc[q] /\ job'[q] = job[q]
    BY DEF Request, RequestCreate, RequestUpdate, RequestWrite, RequestDelete,
       RequestReindex, RequestBulkDelete, ResolveKeepFilesystem, ResolveKeepDatabase,
       Resolve, NewJob, Goto, Base, TypeInv, TypeOK, LockedOps
  <1>2. /\ \A d \in Docs : Worth(d)' = Worth(d)
        /\ \A q \in Reqs : q # r => Call(q)' = Call(q)
    BY <1>1, WorthAside DEF Locked
  <1>3. Call(r) = Atomic!NoCall
    BY <1>1 DEF Call, Atomic!NoCall
  <1>c. PICK c : c = Call(r)'
    OBVIOUS
  <1>4. c = [op |-> job'[r].op, doc |-> job'[r].doc, text |-> job'[r].text, phase |-> "pending"]
    BY <1>c, <1>1 DEF Call, Op, Doc, Applied
  <1>5. job'[r].doc \in Docs /\ job'[r].text \in Texts \cup {NoText}
    BY DEF TypeInv, TypeOK, Job
  <1>6. job'[r].op = "delete" <=> job'[r].text = NoText
    BY <1>1 DEF TypeInv, Flow, FilesInv, Op, Texts, NoText
  <1>7. c \in Atomic!Calls /\ c.phase = "pending" /\ ((c.op = "delete") <=> (c.text = NoText))
    BY <1>1, <1>4, <1>5, <1>6 DEF Atomic!Calls
  <1>8. [q \in Reqs |-> Call(q)]' = [[q \in Reqs |-> Call(q)] EXCEPT ![r] = c]
    BY <1>2, <1>c
  <1>9. UNCHANGED [d \in Docs |-> Worth(d)]
    BY <1>2
  <1>10. Atomic!Invoke(r)
    BY <1>3, <1>7, <1>8, <1>9 DEF Atomic!Invoke
  <1> QED BY <1>10 DEF Atomic!Next

LEMMA FilesImplement ==
  ASSUME Ops \subseteq LockedOps, MildFaults, MaxCrashes = 0,
         Base, TypeInv', FilesInv, FilesInv', [Next]_vars
  PROVE  [Atomic!Next]_(Atomic!vars)
  <1>1. ASSUME NEW r \in Reqs, Request(r) PROVE Atomic!Next
    BY <1>1, RequestImplements
  <1>2. ASSUME NEW r \in Reqs, Refuse(r) PROVE Atomic!Next
    <2>1. UNCHANGED <<file, bak, del>> /\ Finish(r) /\ pc'[r] = "idle" /\ pc[r] = "wait"
      BY <1>2 DEF Refuse, Finish, disk, Base, TypeInv, TypeOK
    <2>2. ~Locked(r) /\ Doc(r) \in Docs /\ lock[Doc(r)] # r
      BY <2>1, SyncAssumption DEF Locked, Base, LockOwnership, TypeInv, TypeOK, Doc, Job
    <2>3. UNCHANGED lock
      BY <2>1, <2>2 DEF Finish, Base, TypeInv, TypeOK
    <2>4. /\ \A d \in Docs : Worth(d)' = Worth(d)
          /\ \A q \in Reqs : q # r => Call(q)' = Call(q)
      BY <2>1, <2>2, <2>3, FinishReq, WorthAside DEF Base
    <2>5. Call(r).phase \in {"pending", "applied"} /\ Call(r)' = Atomic!NoCall
      BY <2>1 DEF Call, Atomic!NoCall
    <2> QED BY <2>4, <2>5, AtomicEnd
  <1>3. ASSUME NEW r \in Reqs, Acquire(r) PROVE UNCHANGED Atomic!vars
    <2>e. PICK e \in Docs : e = Doc(r)
      BY DEF Doc, Base, TypeInv, TypeOK, Job
    <2>0. Op(r) \in {"create", "update", "delete"}
      BY <1>3 DEF Acquire, Base, SyncInv, ReqOK, TypeInv, TypeOK, Flow, Stage, Op, Job
    <2>1. /\ UNCHANGED <<file, bak, del, job>> /\ Goto(r, "mark") /\ pc[r] = "wait"
          /\ lock[e] = NoReq /\ lock' = [lock EXCEPT ![e] = r]
      BY <1>3, <2>e, <2>0 DEF Acquire, Admitted, disk
    <2>2. /\ pc'[r] = "mark" /\ Alone(r, e) /\ lock'[e] = r
      BY <2>1, GotoReq DEF Alone, Base, TypeInv, TypeOK
    <2>3. /\ \A d \in Docs : d # e => Worth(d)' = Worth(d)
          /\ \A q \in Reqs : q # r => Call(q)' = Call(q)
      BY <2>e, <2>1, <2>2, WorthElsewhere
    <2>4. ~Creating(e) /\ ~Creating(e)'
      BY <2>1, <2>2, SyncAssumption DEF Creating
    <2>5. Worth(e)' = Worth(e)
      BY <2>1, <2>4 DEF Worth
    <2>6. Call(r)' = Call(r)
      BY <2>1, <2>2 DEF Call, Applied, Op, Doc
    <2> QED BY <2>3, <2>5, <2>6, AtomicStutter
  <1>4. ASSUME NEW r \in Reqs, Serve(r) PROVE [Atomic!Next]_(Atomic!vars)
    <2>e. PICK e \in Docs : e = Doc(r)
      BY DEF Doc, Base, TypeInv, TypeOK, Job
    <2> QED BY <1>4, <2>e, FilesServe, MoveImplements, EndImplements
  <1>5. ASSUME NEW r \in Reqs, Timeout(r) PROVE FALSE
    BY <1>5 DEF Timeout, Base, SyncInv, ReqOK
  <1>6. ASSUME NEW d \in Docs, ExternalEdit(d) PROVE FALSE
    BY <1>6 DEF ExternalEdit, LockedOps
  <1>7. CASE Crash
    BY <1>7 DEF Crash, Base, TypeInv, TypeOK
  <1>8. CASE UNCHANGED vars
    <2>1. \A d \in Docs : Worth(d)' = Worth(d)
      BY <1>8 DEF vars, Worth, Creating, Op
    <2>2. \A q \in Reqs : Call(q)' = Call(q)
      BY <1>8 DEF vars, Call, Applied, Op, Doc
    <2> QED BY <2>1, <2>2, AtomicStutter
  <1> QED BY <1>1, <1>2, <1>3, <1>4, <1>5, <1>6, <1>7, <1>8 DEF Next

\* create_, update_ and delete_document_atomic are what they are called as far as
\* the files go: each takes effect at one instant or not at all, whoever else is
\* served, if only operations that take the lock are called, nothing but the
\* embedding service and the row statements fails and the process does not die.
\* A status write or a file operation that fails is not undone completely.
THEOREM OperationsAreAtomic ==
  ASSUME Ops \subseteq LockedOps, MildFaults, MaxCrashes = 0
  PROVE  Spec => FilesAreAtomic
  <1>1. Init => SyncInv /\ FilesInv /\ Atomic!Init
    <2> SUFFICES ASSUME Init PROVE SyncInv /\ FilesInv /\ Atomic!Init
      OBVIOUS
    <2>1. SyncInv /\ FilesInv
      BY NoJobType DEF Init, SyncInv, DocOK, ReqOK, Op, Writing, FilesInv, NothingAside, Locked
    <2>2. \A d \in Docs : Worth(d) = NoText
      BY SyncAssumption DEF Init, Worth, Creating, NoFile
    <2>3. \A r \in Reqs : Call(r) = Atomic!NoCall
      BY DEF Init, Call, Atomic!NoCall
    <2> QED BY <2>1, <2>2, <2>3 DEF Atomic!Init
  <1>2. TypeInv /\ LockOwnership /\ SyncInv /\ [Next]_vars => SyncInv'
    BY SyncStep DEF Base, MildFaults
  <1>3. TypeInv /\ LockOwnership /\ SyncInv /\ FilesInv /\ [Next]_vars => FilesInv'
    BY FilesStep DEF Base
  <1>4. Spec => [](TypeInv /\ LockOwnership)
    BY Typing, LocksAreOwned, PTL DEF TypeInv
  <1>5. TypeInv /\ LockOwnership /\ SyncInv /\ TypeInv' /\ FilesInv /\ FilesInv' /\ [Next]_vars
          => [Atomic!Next]_(Atomic!vars)
    BY FilesImplement DEF Base
  <1> QED BY <1>1, <1>2, <1>3, <1>4, <1>5, PTL DEF Spec, FilesAreAtomic, Atomic!Spec

=============================================================================
