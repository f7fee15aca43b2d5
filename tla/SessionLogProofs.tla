---------------------------- MODULE SessionLogProofs ----------------------------
(***************************************************************************)
(* Proofs about one session, for any number of objects, requests, failures *)
(* and crashes, any threshold and any number of messages kept: what one    *)
(* task at a time is promised of a compaction, and what any number of      *)
(* tasks is promised of a log that nobody compacts or resets.              *)
(***************************************************************************)
EXTENDS SessionLog, FiniteSetTheorems, SequenceTheorems, TLAPS

Entry == [sum : BOOLEAN, of : SUBSET Nat]

\* The stages of a task that has an object, and all of them.
Working == {"store", "stored", "fetch", "fetched", "wipe", "zero", "rebuild", "rebuilt",
            "cleared", "agent", "read", "readback"}
Stage == Working \cup {"idle", "find", "found", "recheck", "create", "load"}

Phase == 0..3
Job == [op : AllOps \cup {"none"}, phase : Phase, obj : Objects \cup {NoObject},
        row : Nat \cup {NoRow}, n : Nat, list : Seq(Entry)]

\* What a task at stage p has in its job j.
Fits(p, j) ==
  /\ p \in Working <=> j.obj # NoObject
  /\ p = "load" => j.row \in Nat
  /\ p = "rebuild" => j.list # <<>>
  /\ p \in {"wipe", "zero"} => (j.op = "reset" /\ j.phase = 2) \/ j.list # <<>>
  /\ p \in {"agent", "cleared"} => j.phase = 2
  /\ j.phase = 2 => p \in Working

\* Every object was built from the row.
HasRow == (sessions # NoObject \/ \E t \in Tasks : pc[t] \in Working \cup {"load"}) => row \in Nat

TypeInv ==
  /\ row \in Nat \cup {NoRow} /\ msgs \in Seq(Entry) /\ stored \in Nat
  /\ sessions \in Objects \cup {NoObject} /\ count \in [Objects -> Nat]
  /\ pc \in [Tasks -> Stage] /\ job \in [Tasks -> Job]
  /\ \A t \in Tasks : Fits(pc[t], job[t])
  /\ HasRow

\* The step is one of t, which then has a job that fits.
Moves(t) ==
  /\ pc' \in [Tasks -> Stage] /\ job' \in [Tasks -> Job]
  /\ \A u \in Tasks \ {t} : pc'[u] = pc[u] /\ job'[u] = job[u]
  /\ Fits(pc'[t], job'[t])

LEMMA Phases == {0, 1, 2, 3} \subseteq Phase /\ \A k \in Phase : k \in {0, 1, 2, 3}
BY DEF Phase

LEMMA NoJobIsJob == NoJob \in Job /\ Fits("idle", NoJob)
BY Phases, EmptySeq DEF NoJob, Job, NoRow, Fits, Working

LEMMA Ended ==
  ASSUME TypeInv, NEW t \in Tasks, End(t)
  PROVE  Moves(t) /\ pc'[t] = "idle" /\ job'[t] = NoJob
BY NoJobIsJob DEF TypeInv, End, Goto, Moves, Stage

\* Where a phase that is over may lead.
LEMMA Advanced ==
  ASSUME TypeInv, NEW t \in Tasks, NEW n \in Nat, Advance(t, n), pc[t] \in Working
  PROVE  /\ Moves(t)
         /\ \/ pc'[t] = "idle" /\ job'[t] = NoJob
            \/ /\ pc'[t] \in {"store", "agent", "wipe", "fetch"}
               /\ job'[t].obj = job[t].obj /\ job'[t].op = job[t].op
               /\ pc'[t] = "wipe" => job[t].op = "reset" /\ job'[t].phase = 2
               /\ pc'[t] = "fetch" => /\ job[t].op = "compact" /\ job'[t].n = n
                                      /\ job[t].phase = 1 /\ n >= Threshold
<1>0. job[t] \in Job /\ job[t].obj # NoObject
  BY DEF TypeInv, Fits
<1>1. CASE job[t].phase = 3
  BY <1>1, Ended DEF Advance
<1>2. CASE job[t].phase = 2
  <2>1. Goto(t, "store") /\ job' = [job EXCEPT ![t] = [@ EXCEPT !.phase = 3, !.list = <<>>]]
    BY <1>2 DEF Advance
  <2>2. job'[t] = [job[t] EXCEPT !.phase = 3, !.list = <<>>] /\ pc'[t] = "store"
    BY <2>1 DEF TypeInv, Goto
  <2>3. job'[t] \in Job /\ job'[t].obj = job[t].obj /\ job'[t].op = job[t].op
    <3>1. [job[t] EXCEPT !.phase = 3, !.list = <<>>] \in Job
      BY <1>0, Phases, EmptySeq DEF Job
    <3> QED  BY <1>0, <2>2, <3>1 DEF Job
  <2>4. Fits(pc'[t], job'[t])
    BY <1>0, <2>2, <2>3 DEF Fits, Working
  <2>5. Moves(t)
    BY <2>1, <2>2, <2>3, <2>4 DEF Moves, TypeInv, Goto, Stage, Working
  <2> QED  BY <2>2, <2>3, <2>5
<1>3. CASE job[t].phase = 1
  <2> DEFINE step == CASE job[t].op = "message" -> "agent"
                       [] job[t].op = "reset" -> "wipe"
                       [] job[t].op = "compact" /\ n >= Threshold -> "fetch"
                       [] OTHER -> "store"
  <2>1. /\ Goto(t, step)
        /\ job' = [job EXCEPT ![t] = [@ EXCEPT !.phase = IF step = "store" THEN 3 ELSE 2, !.n = n, !.list = <<>>]]
    BY <1>3 DEF Advance
  <2>2. /\ step \in {"store", "agent", "wipe", "fetch"}
        /\ step = "wipe" => job[t].op = "reset"
        /\ step = "fetch" => job[t].op = "compact" /\ n >= Threshold
    OBVIOUS
  <2> HIDE DEF step
  <2>3. /\ job'[t] = [job[t] EXCEPT !.phase = IF step = "store" THEN 3 ELSE 2,
                                   !.n = n, !.list = <<>>]
        /\ pc'[t] = step
    BY <2>1 DEF TypeInv, Goto
  <2>4. /\ job'[t] \in Job /\ job'[t].obj = job[t].obj /\ job'[t].op = job[t].op
        /\ job'[t].n = n /\ (step # "store" => job'[t].phase = 2)
    <3>1. [job[t] EXCEPT !.phase = IF step = "store" THEN 3 ELSE 2, !.n = n, !.list = <<>>] \in Job
      BY <1>0, Phases, EmptySeq DEF Job
    <3> QED  BY <1>0, <2>3, <3>1 DEF Job
  <2>5. Fits(pc'[t], job'[t])
    BY <1>0, <2>2, <2>3, <2>4 DEF Fits, Working
  <2>6. Moves(t)
    BY <2>1, <2>2, <2>3, <2>4, <2>5 DEF Moves, TypeInv, Goto, Stage, Working
  <2> QED  BY <1>3, <2>2, <2>3, <2>4, <2>6
<1> QED  BY <1>0, <1>1, <1>2, <1>3 DEF Advance

LEMMA Begun ==
  ASSUME TypeInv, NEW t \in Tasks, NEW o \in Objects, NEW op \in AllOps, NEW h \in Nat,
         Begin(t, o, op, h)
  PROVE  /\ Moves(t) /\ pc'[t] \in {"idle", "read", "store"}
         /\ pc'[t] # "idle" => job'[t].obj = o /\ job'[t].op = op
         /\ pc'[t] = "idle" => job'[t] = NoJob
<1> DEFINE step == CASE op = "history" -> IF op = "history" /\ cache[o] = NoCache THEN "read"
                                         ELSE "idle"
                      [] OTHER -> "store"
           j == IF step = "idle" THEN NoJob
                ELSE [op |-> op, phase |-> IF op = "note" THEN 3 ELSE 1, obj |-> o,
                      row |-> NoRow, n |-> h, list |-> <<>>]
<1>1. pc' = [pc EXCEPT ![t] = step] /\ job' = [job EXCEPT ![t] = j]
  BY DEF Begin, Goto
<1>2. step \in {"idle", "read", "store"}
  OBVIOUS
<1>3. /\ step # "idle" => j.obj = o /\ j.op = op
      /\ step = "idle" => j = NoJob
  OBVIOUS
<1>4. j \in Job
  BY NoJobIsJob, Phases, EmptySeq DEF Job
<1>5. Fits(step, j)
  <2>1. CASE step = "idle"
    BY <2>1, <1>3, NoJobIsJob
  <2>2. CASE step # "idle"
    BY <2>2, <1>2, <1>3, SessionAssumption DEF Fits, Working, SessionAssumption
  <2> QED  BY <2>1, <2>2
<1> HIDE DEF step, j
<1> QED  BY <1>1, <1>2, <1>3, <1>4, <1>5 DEF TypeInv, Moves, Stage, Working

\* A step that sets the stage of t and at most the row in its job.
LEMMA LookedUp ==
  ASSUME TypeInv, NEW t \in Tasks, NEW p, NEW r \in Nat \cup {NoRow}, Goto(t, p),
         job' = [job EXCEPT ![t].row = r] \/ (job' = job /\ p # "load"),
         pc[t] \notin Working, p \in {"found", "recheck", "create", "load"},
         p = "load" => r \in Nat
  PROVE  /\ Moves(t) /\ pc'[t] = p /\ (p = "load" => job'[t].row = r)
         /\ job'[t].op = job[t].op
<1>1. pc'[t] = p /\ pc' \in [Tasks -> Stage]
  BY DEF TypeInv, Goto, Stage
<1>2. job[t] \in Job /\ job[t].obj = NoObject /\ job[t].phase # 2
  BY DEF TypeInv, Fits
<1>3. CASE job' = job /\ p # "load"
  BY <1>1, <1>2, <1>3 DEF Moves, TypeInv, Goto, Fits, Working
<1>4. CASE job' = [job EXCEPT ![t].row = r]
  <2>1. job'[t] = [job[t] EXCEPT !.row = r]
    BY <1>4 DEF TypeInv
  <2>2. [job[t] EXCEPT !.row = r] \in Job
    BY <1>2 DEF Job
  <2>3. /\ job'[t].obj = NoObject /\ job'[t].row = r /\ job'[t].phase # 2
        /\ job'[t].op = job[t].op
    BY <1>2, <2>1 DEF Job
  <2>4. Fits(p, job'[t])
    BY <2>3 DEF Fits, Working
  <2> QED  BY <1>1, <1>4, <2>1, <2>2, <2>3, <2>4 DEF Moves, TypeInv, Goto
<1> QED  BY <1>3, <1>4

\* There is an object for whoever loads the session: there are more than tasks.
LEMMA SomeUnused ==
  ASSUME TypeInv, NEW t \in Tasks, Obj(t) = NoObject
  PROVE  \E o \in Objects : Unused(o)
<1> DEFINE f == [u \in Tasks |-> IF u = t THEN sessions ELSE Obj(u)]
           T == {f[u] : u \in Tasks}
<1>1. IsFiniteSet(Tasks) /\ IsFiniteSet(Objects) /\ NoObject \notin Objects
      /\ Cardinality(Objects) > Cardinality(Tasks)
  BY SessionAssumption DEF SessionAssumption
<1>2. f \in Surjection(Tasks, T)
  BY DEF Surjection
<1>3. IsFiniteSet(T) /\ Cardinality(T) <= Cardinality(Tasks)
  BY <1>1, <1>2, FS_Surjection
<1>4. ~(Objects \subseteq T)
  BY <1>1, <1>3, FS_Subset, FS_CardinalityType
<1>5. PICK o \in Objects : o \notin T
  BY <1>4
<1>6. o # sessions /\ \A u \in Tasks : Obj(u) # o
  <2>1. f[t] \in T /\ f[t] = sessions
    OBVIOUS
  <2>2. \A u \in Tasks \ {t} : f[u] \in T /\ f[u] = Obj(u)
    OBVIOUS
  <2> QED  BY <1>1, <1>5, <2>1, <2>2
<1> QED  BY <1>6 DEF Unused

-----------------------------------------------------------------------------
(***************************************************************************)
(* The types, and what the jobs hold.                                      *)
(***************************************************************************)
LEMMA TypeKept ==
  ASSUME TypeInv, NEW t \in Tasks, Moves(t), HasRow',
         row' \in Nat \cup {NoRow}, msgs' \in Seq(Entry), stored' \in Nat,
         sessions' \in Objects \cup {NoObject}, count' \in [Objects -> Nat]
  PROVE  TypeInv'
BY DEF TypeInv, Moves

\* Where nothing but the task's place changes, the row is still there.
LEMMA TypeKeptHere ==
  ASSUME TypeInv, NEW t \in Tasks, Moves(t), UNCHANGED <<db, objs, stored>>,
         pc'[t] \in Working \cup {"load"} => row \in Nat
  PROVE  TypeInv'
BY TypeKept DEF TypeInv, Moves, HasRow, db, objs

LEMMA RequestType ==
  ASSUME TypeInv, NEW t \in Tasks, NEW op \in AllOps, Request(t, op)
  PROVE  /\ TypeInv' /\ Moves(t) /\ job'[t].op \in Ops \cup {"none"}
         /\ \/ pc'[t] \in {"idle", "find"}
            \/ /\ pc'[t] \in {"read", "store"} /\ sessions # NoObject
               /\ job'[t].obj = sessions /\ job'[t].op = op
<1>1. PICK h \in Nat :
        \/ sessions # NoObject /\ Begin(t, sessions, op, h)
        \/ /\ sessions = NoObject
           /\ Goto(t, "find")
           /\ job' = [job EXCEPT ![t] = [NoJob EXCEPT !.op = op, !.n = h]]
  BY SessionAssumption DEF Request, SessionAssumption
<1>2. UNCHANGED <<db, objs, stored>> /\ op \in Ops
  BY DEF Request
<1>3. CASE sessions # NoObject /\ Begin(t, sessions, op, h)
  <2>1. sessions \in Objects /\ row \in Nat
    BY <1>3 DEF TypeInv, HasRow
  <2>2. /\ Moves(t) /\ pc'[t] \in {"idle", "read", "store"}
        /\ (pc'[t] # "idle" => job'[t].obj = sessions /\ job'[t].op = op)
        /\ job'[t].op \in {op, "none"}
    BY <1>3, <2>1, Begun DEF NoJob
  <2> QED  BY <1>2, <1>3, <2>1, <2>2, TypeKeptHere
<1>4. CASE /\ sessions = NoObject
           /\ Goto(t, "find")
           /\ job' = [job EXCEPT ![t] = [NoJob EXCEPT !.op = op, !.n = h]]
  <2> DEFINE j == [NoJob EXCEPT !.op = op, !.n = h]
  <2>1. j \in Job
    BY NoJobIsJob DEF Job
  <2>2. j.obj = NoObject /\ j.phase = 0 /\ j.op = op
    BY DEF NoJob
  <2>3. Fits("find", j) /\ j.op = op
    BY <2>2 DEF Fits, Working
  <2> HIDE DEF j
  <2>4. job'[t] = j /\ pc'[t] = "find" /\ Moves(t)
    BY <1>4, <2>1, <2>3 DEF Moves, TypeInv, Goto, Stage, j
  <2> QED  BY <1>2, <2>3, <2>4, TypeKeptHere DEF Working
<1> QED  BY <1>1, <1>3, <1>4

LEMMA FindType ==
  ASSUME TypeInv, NEW t \in Tasks, Find(t) \/ Found(t) \/ Recheck(t) \/ Create(t)
  PROVE  /\ TypeInv' /\ Moves(t)
         /\ row' = row \/ (row = NoRow /\ row' = 0)
         /\ UNCHANGED <<msgs, objs, stored>>
         /\ job'[t].op \in {job[t].op, "none"}
         /\ \/ pc'[t] \in {"idle", "found", "recheck", "create"}
            \/ pc'[t] = "load" /\ row' \in Nat /\ job'[t].row = row'
            \/ /\ pc'[t] \in {"read", "store"} /\ sessions # NoObject
               /\ job'[t].obj = sessions /\ job'[t].op = job[t].op
<1>0. row \in Nat \cup {NoRow} /\ NoRow \notin Nat /\ job[t].op \in AllOps \cup {"none"}
  BY DEF TypeInv, NoRow, Job
<1>1. CASE Find(t) \/ Recheck(t)
  <2>1. PICK p \in {"found", "create", "load"} :
          /\ Goto(t, p) /\ job' = [job EXCEPT ![t].row = row]
          /\ p = "load" => row \in Nat
    BY <1>0, <1>1 DEF Find, Recheck
  <2>2. UNCHANGED <<db, objs, stored>> /\ pc[t] \notin Working
    BY <1>1 DEF Find, Recheck, Working, history
  <2>3. /\ Moves(t) /\ pc'[t] = p /\ (p = "load" => job'[t].row = row)
        /\ job'[t].op = job[t].op
    BY <1>0, <2>1, <2>2, LookedUp
  <2> QED  BY <2>1, <2>2, <2>3, TypeKeptHere DEF db, Working
<1>2. CASE Found(t)
  <2>1. UNCHANGED <<db, objs, stored>> /\ pc[t] \notin Working
    BY <1>2 DEF Found, Working, history
  <2>2. CASE End(t)
    BY <2>1, <2>2, Ended, TypeKeptHere DEF db, Working, NoJob
  <2>3. CASE sessions # NoObject /\ job[t].op \in Commands /\ Begin(t, sessions, job[t].op, 0)
    <3>1. sessions \in Objects /\ row \in Nat /\ job[t].op \in AllOps
      BY <2>3 DEF TypeInv, HasRow, AllOps
    <3>2. Moves(t) /\ pc'[t] \in {"idle", "read", "store"}
          /\ (pc'[t] # "idle" => job'[t].obj = sessions /\ job'[t].op = job[t].op)
          /\ job'[t].op \in {job[t].op, "none"}
      BY <2>3, <3>1, Begun DEF NoJob
    <3> QED  BY <2>1, <2>3, <3>1, <3>2, TypeKeptHere DEF db
  <2>4. CASE Goto(t, "recheck") /\ job' = job
    <3>1. Moves(t) /\ pc'[t] = "recheck" /\ job'[t].op = job[t].op
      BY <1>0, <2>1, <2>4, LookedUp
    <3> QED  BY <2>1, <3>1, TypeKeptHere DEF db, Working
  <2> QED  BY <1>2, <2>2, <2>3, <2>4 DEF Found
<1>3. CASE Create(t)
  <2>1. UNCHANGED <<msgs, objs, stored>> /\ pc[t] \notin Working
    BY <1>3 DEF Create, Working, history
  <2>2. CASE row' = 0 /\ row = NoRow /\ Goto(t, "load") /\ job' = [job EXCEPT ![t].row = 0]
    <3>1. Moves(t) /\ pc'[t] = "load" /\ job'[t].row = 0 /\ job'[t].op = job[t].op
      <4>1. PICK p, r : p = "load" /\ r = 0
        OBVIOUS
      <4>2. /\ r \in Nat /\ p \in {"found", "recheck", "create", "load"}
            /\ Goto(t, p) /\ job' = [job EXCEPT ![t].row = r]
        BY <2>2, <4>1
      <4>3. /\ Moves(t) /\ pc'[t] = p /\ (p = "load" => job'[t].row = r)
            /\ job'[t].op = job[t].op
        BY <2>1, <4>2, LookedUp
      <4> QED  BY <4>1, <4>3
    <3> QED  BY <2>1, <2>2, <3>1, TypeKept DEF TypeInv, HasRow, objs
  <2>3. CASE End(t) /\ row' = row
    BY <2>1, <2>3, Ended, TypeKeptHere DEF db, Working, NoJob
  <2> QED  BY <1>3, <2>2, <2>3 DEF Create
<1> QED  BY <1>1, <1>2, <1>3

LEMMA LoadType ==
  ASSUME TypeInv, NEW t \in Tasks, Load(t)
  PROVE  /\ TypeInv' /\ Moves(t) /\ UNCHANGED <<db, stored>>
         /\ pc'[t] \in {"read", "store"} /\ job'[t].op = job[t].op
         /\ Unused(sessions') /\ sessions' \in Objects /\ job'[t].obj = sessions'
         /\ count' = [count EXCEPT ![sessions'] = job[t].row] /\ job[t].row \in Nat
<1> DEFINE o == CHOOSE o \in Objects : Unused(o)
           p == IF job[t].op = "history" THEN "read" ELSE "store"
           j == [job[t] EXCEPT !.obj = o, !.row = NoRow,
                               !.phase = IF job[t].op = "note" THEN 3 ELSE 1]
<1>1. job[t] \in Job /\ job[t].obj = NoObject /\ job[t].row \in Nat /\ row \in Nat
  BY DEF Load, TypeInv, Fits, Working, HasRow
<1>2. o \in Objects /\ Unused(o)
  BY <1>1, SomeUnused DEF Obj
<1> HIDE DEF o
<1>3. /\ sessions' = o /\ pc' = [pc EXCEPT ![t] = p] /\ UNCHANGED <<db, stored>>
      /\ count' = [count EXCEPT ![o] = job[t].row]
      /\ job' = [job EXCEPT ![t] = [@ EXCEPT !.obj = o, !.row = NoRow, !.phase = IF job[t].op = "note" THEN 3 ELSE 1]]
  BY DEF Load, Loaded, Goto, o, history
<1>4. p \in {"read", "store"}
  OBVIOUS
<1>5. j \in Job /\ j.obj = o /\ j.op = job[t].op
  <2>1. j \in Job
    BY <1>1, <1>2, Phases DEF Job
  <2> QED  BY <1>1, <2>1 DEF Job
<1>6. job'[t] = j /\ DOMAIN job' = Tasks /\ \A u \in Tasks \ {t} : job'[u] = job[u]
  BY <1>3 DEF TypeInv
<1>7. job' \in [Tasks -> Job]
  BY <1>3, <1>5, <1>6 DEF TypeInv
<1> HIDE DEF p, j
<1>8. Fits(p, j)
  BY <1>2, <1>4, <1>5, SessionAssumption DEF Fits, Working, SessionAssumption
<1>9. Moves(t) /\ pc'[t] = p
  BY <1>3, <1>4, <1>6, <1>7, <1>8 DEF Moves, TypeInv, Stage, Working
<1>10. count' \in [Objects -> Nat]
  BY <1>1, <1>3 DEF TypeInv
<1>11. TypeInv'
  BY <1>1, <1>2, <1>3, <1>9, <1>10, TypeKept DEF TypeInv, HasRow, db
<1> QED  BY <1>1, <1>2, <1>3, <1>4, <1>5, <1>6, <1>9, <1>11

\* What compact makes of the log: a summary and the last messages, unchanged.
LEMMA RebuiltIs ==
  ASSUME NEW s \in Seq(Entry), Len(s) >= KeepAtLeast
  PROVE  /\ Rebuilt(s) \in Seq(Entry)
         /\ Len(Rebuilt(s)) = Kept(Len(s)) + 1 /\ Kept(Len(s)) \in 1..Len(s)
         /\ Tail(Rebuilt(s)) = SubSeq(s, Len(s) - Kept(Len(s)) + 1, Len(s))
<1>0. KeepAtLeast \in Nat \ {0} /\ SummaryLines \in Nat
  BY SessionAssumption DEF SessionAssumption
<1>1. Len(s) \in Nat /\ \A i \in 1..Len(s) : s[i] \in Entry
  OBVIOUS
<1>2. Kept(Len(s)) \in 1..Len(s)
  <2>1. Len(s) \div 5 \in 0..Len(s)
    BY <1>1
  <2> QED  BY <1>0, <1>1, <2>1 DEF Kept, Longer
<1> DEFINE split == Len(s) - Kept(Len(s))
           told == IF split <= SummaryLines THEN {} ELSE {s[i] : i \in 1..SummaryLines}
           first == Summary(UNION {e.of : e \in told})
           rest == SubSeq(s, split + 1, Len(s))
<1>3. Rebuilt(s) = <<first>> \o rest
  BY DEF Rebuilt
<1>4. split \in 0..Len(s)
  BY <1>1, <1>2
<1>5. first \in Entry
  <2>1. told \subseteq Entry
    BY <1>0, <1>1, <1>4
  <2>2. UNION {e.of : e \in told} \in SUBSET Nat
    <3> HIDE DEF told
    <3>1. \A e \in told : e.of \subseteq Nat
      BY <2>1 DEF Entry
    <3> QED  BY <3>1
  <2> QED  BY <2>2 DEF Entry, Summary
<1> HIDE DEF first, told
<1>6. rest \in Seq(Entry) /\ Len(rest) = Kept(Len(s))
  <2>1. \A i \in split + 1 .. Len(s) : s[i] \in Entry
    BY <1>1, <1>4
  <2>2. /\ rest \in Seq(Entry)
        /\ Len(rest) = IF split + 1 <= Len(s) THEN Len(s) - (split + 1) + 1 ELSE 0
    BY <1>1, <1>4, <2>1, SubSeqProperties
  <2> QED  BY <1>1, <1>2, <2>2
<1> HIDE DEF rest, split
<1>7. <<first>> \o rest \in Seq(Entry) /\ Len(<<first>> \o rest) = Len(rest) + 1
      /\ Tail(<<first>> \o rest) = rest
  BY <1>5, <1>6
<1> QED  BY <1>2, <1>3, <1>6, <1>7 DEF rest, split

LEMMA FirstIs ==
  ASSUME NEW s \in Seq(Entry), NEW n \in Nat
  PROVE  /\ First(s, n) \in Seq(Entry)
         /\ Len(s) <= n => First(s, n) = s
<1>1. Len(s) \in Nat /\ \A i \in 1..Len(s) : s[i] \in Entry
  OBVIOUS
<1>2. Shorter(n, Len(s)) \in 0..Len(s) /\ (Len(s) <= n => Shorter(n, Len(s)) = Len(s))
  BY <1>1 DEF Shorter
<1>3. \A i \in 1 .. Shorter(n, Len(s)) : s[i] \in Entry
  BY <1>1, <1>2
<1>4. First(s, n) \in Seq(Entry)
  BY <1>2, <1>3, SubSeqProperties DEF First
<1>5. SubSeq(s, 1, Len(s)) = s
  BY SubSeqFull
<1> QED  BY <1>2, <1>4, <1>5 DEF First

\* The job of t gets the given list and number and is otherwise as it was.
Takes(t, list, n) ==
  \/ job' = job /\ list = job[t].list /\ n = job[t].n
  \/ job' = [job EXCEPT ![t] = [@ EXCEPT !.list = list, !.n = n]]
  \/ job' = [job EXCEPT ![t].list = list] /\ n = job[t].n
  \/ job' = [job EXCEPT ![t].n = n] /\ list = job[t].list

\* A step from one stage of work to another, with the same object.
LEMMA Worked ==
  ASSUME TypeInv, NEW t \in Tasks, pc[t] \in Working, NEW p \in Working, Goto(t, p),
         NEW list \in Seq(Entry), NEW n \in Nat,
         Takes(t, list, n),
         p \in {"wipe", "zero"} => Resetting(t) \/ list # <<>>,
         p = "rebuild" => list # <<>>,
         p \in {"agent", "cleared"} => job[t].phase = 2
  PROVE  /\ Moves(t) /\ pc'[t] = p
         /\ job'[t].list = list /\ job'[t].n = n
         /\ job'[t].obj = job[t].obj /\ job'[t].op = job[t].op /\ job'[t].phase = job[t].phase
<1>1. job[t] \in Job /\ job[t].obj # NoObject
  BY DEF TypeInv, Fits
<1>2. /\ DOMAIN job' = Tasks /\ \A u \in Tasks \ {t} : job'[u] = job[u]
      /\ \/ job'[t] = job[t] /\ list = job[t].list /\ n = job[t].n
         \/ job'[t] = [job[t] EXCEPT !.list = list, !.n = n]
         \/ job'[t] = [job[t] EXCEPT !.list = list] /\ n = job[t].n
         \/ job'[t] = [job[t] EXCEPT !.n = n] /\ list = job[t].list
  BY DEF TypeInv, Takes
<1>3. job'[t] \in Job
  <2>1. [job[t] EXCEPT !.list = list, !.n = n] \in Job
    BY <1>1 DEF Job
  <2>2. [job[t] EXCEPT !.list = list] \in Job /\ [job[t] EXCEPT !.n = n] \in Job
    BY <1>1 DEF Job
  <2> QED  BY <1>1, <1>2, <2>1, <2>2
<1>4. /\ job'[t].list = list /\ job'[t].n = n
      /\ job'[t].obj = job[t].obj /\ job'[t].op = job[t].op /\ job'[t].phase = job[t].phase
  BY <1>1, <1>2 DEF Job
<1>5. job' \in [Tasks -> Job]
  <2>1. \A u \in Tasks : job'[u] \in Job
    BY <1>2, <1>3 DEF TypeInv
  <2>2. job' = [u \in Tasks |-> job'[u]]
    BY DEF TypeInv, Takes
  <2> QED  BY <2>1, <2>2
<1>6. Fits(p, job'[t])
  BY <1>1, <1>4 DEF Fits, Resetting, Working
<1> QED  BY <1>2, <1>4, <1>5, <1>6 DEF Moves, TypeInv, Goto, Stage

LEMMA TaskFacts ==
  ASSUME TypeInv, NEW t \in Tasks, pc[t] \in Working
  PROVE  /\ job[t] \in Job /\ Obj(t) \in Objects /\ count[Obj(t)] \in Nat /\ row \in Nat
         /\ job[t].list \in Seq(Entry) /\ job[t].n \in Nat /\ job[t].phase \in Phase
         /\ job[t].op \in AllOps \cup {"none"}
BY DEF TypeInv, Fits, Job, Obj, HasRow

LEMMA InsertType ==
  ASSUME TypeInv, NEW e \in Entry, Insert(e), row \in Nat
  PROVE  /\ msgs' \in Seq(Entry) /\ row' \in Nat /\ row' = row + 1
         /\ Len(msgs') = Len(msgs) + 1 /\ Len(msgs) \in Nat
BY DEF TypeInv, Insert

LEMMA StoreType ==
  ASSUME TypeInv, NEW t \in Tasks, Store(t)
  PROVE  /\ TypeInv' /\ Moves(t) /\ pc'[t] = "stored"
         /\ job' = job /\ stored' = stored + 1
         /\ row' = row + 1 /\ Len(msgs') = Len(msgs) + 1 /\ Len(msgs) \in Nat
<1>1. pc[t] \in Working
  BY DEF Store, Working
<1>2. Message(stored + 1) \in Entry
  BY DEF Message, Entry, TypeInv
<1>3. /\ Goto(t, "stored") /\ job' = job /\ UNCHANGED objs /\ stored' = stored + 1
      /\ Insert(Message(stored + 1))
  BY DEF Store
<1>4. Moves(t) /\ pc'[t] = "stored"
  <2>1. Takes(t, job[t].list, job[t].n)
    BY <1>3 DEF Takes
  <2> QED  BY <1>1, <1>3, <2>1, TaskFacts, Worked DEF Working
<1>5. TypeInv'
  BY <1>1, <1>2, <1>3, <1>4, TaskFacts, InsertType, TypeKept DEF TypeInv, HasRow, objs
<1> QED  BY <1>1, <1>2, <1>3, <1>4, <1>5, InsertType, TaskFacts

LEMMA StoredType ==
  ASSUME TypeInv, NEW t \in Tasks, Stored(t)
  PROVE  LET n == count[Obj(t)] + 1 IN
         /\ TypeInv' /\ Moves(t) /\ UNCHANGED <<db, sessions, stored>>
         /\ count' = [count EXCEPT ![Obj(t)] = n] /\ n \in Nat
         /\ \/ Due(n) /\ pc'[t] = "fetch" /\ job'[t].n = n
               /\ job'[t].obj = job[t].obj /\ job'[t].op = job[t].op
            \/ ~Due(n) /\ Advance(t, n)
<1> DEFINE n == count[Obj(t)] + 1
<1>1. pc[t] \in Working
  BY DEF Stored, Working
<1>2. /\ count' = [count EXCEPT ![Obj(t)] = n] /\ UNCHANGED <<db, sessions, stored>>
      /\ \/ Due(n) /\ Goto(t, "fetch") /\ job' = [job EXCEPT ![t].n = n]
         \/ ~Due(n) /\ Advance(t, n)
  BY DEF Stored, history
<1>3. n \in Nat /\ count' \in [Objects -> Nat]
  BY <1>1, <1>2, TaskFacts DEF TypeInv
<1> HIDE DEF n
<1>4. CASE Due(n) /\ Goto(t, "fetch") /\ job' = [job EXCEPT ![t].n = n]
  <2>1. Moves(t) /\ pc'[t] = "fetch" /\ job'[t].n = n
        /\ job'[t].obj = job[t].obj /\ job'[t].op = job[t].op
    <3>1. Takes(t, job[t].list, n)
      BY <1>4 DEF Takes
    <3> QED  BY <1>1, <1>3, <1>4, <3>1, TaskFacts, Worked DEF Working
  <2>2. TypeInv'
    BY <1>1, <1>2, <1>3, <2>1, TaskFacts, TypeKept DEF TypeInv, HasRow, db
  <2> QED  BY <1>2, <1>3, <1>4, <2>1, <2>2 DEF n
<1>5. CASE ~Due(n) /\ Advance(t, n)
  <2>1. Moves(t)
    BY <1>1, <1>3, <1>5, Advanced
  <2>2. TypeInv'
    BY <1>1, <1>2, <1>3, <2>1, TaskFacts, TypeKept DEF TypeInv, HasRow, db
  <2> QED  BY <1>2, <1>3, <1>5, <2>1, <2>2 DEF n
<1> QED  BY <1>2, <1>4, <1>5

LEMMA FetchType ==
  ASSUME TypeInv, NEW t \in Tasks, Fetch(t) \/ Read(t)
  PROVE  /\ TypeInv' /\ Moves(t) /\ UNCHANGED <<db, objs, stored>>
         /\ job'[t].list = First(msgs, job[t].n) /\ job'[t].obj = job[t].obj
         /\ job'[t].op = job[t].op
         /\ \/ pc[t] = "fetch" /\ pc'[t] = "fetched"
            \/ pc[t] = "read" /\ pc'[t] = "readback"
<1>1. pc[t] \in Working /\ UNCHANGED <<db, objs, stored>>
  BY DEF Fetch, Read, Working, history
<1>2. First(msgs, job[t].n) \in Seq(Entry)
  BY <1>1, TaskFacts, FirstIs DEF TypeInv
<1>3. /\ job' = [job EXCEPT ![t].list = First(msgs, job[t].n)]
      /\ \/ pc[t] = "fetch" /\ Goto(t, "fetched")
         \/ pc[t] = "read" /\ Goto(t, "readback")
  BY DEF Fetch, FetchLimit, Read
<1>4. /\ Moves(t) /\ job'[t].list = First(msgs, job[t].n) /\ job'[t].obj = job[t].obj
      /\ job'[t].op = job[t].op
      /\ \/ pc[t] = "fetch" /\ pc'[t] = "fetched"
         \/ pc[t] = "read" /\ pc'[t] = "readback"
  <2>1. Takes(t, First(msgs, job[t].n), job[t].n)
    BY <1>3 DEF Takes
  <2> QED  BY <1>1, <1>2, <1>3, <2>1, TaskFacts, Worked DEF Working
<1>5. row \in Nat
  BY <1>1, TaskFacts
<1> QED  BY <1>1, <1>4, <1>5, TypeKeptHere

LEMMA FetchedType ==
  ASSUME TypeInv, NEW t \in Tasks, Fetched(t)
  PROVE  LET s == job[t].list IN
         /\ TypeInv' /\ Moves(t) /\ UNCHANGED <<db, sessions, count, stored>>
         /\ \/ Len(s) < KeepAtLeast /\ Advance(t, count[Obj(t)])
            \/ /\ Len(s) >= KeepAtLeast /\ pc'[t] = "wipe"
               /\ job'[t].list = Rebuilt(s) /\ job'[t].n = Len(Rebuilt(s))
               /\ job'[t].obj = job[t].obj /\ job'[t].op = job[t].op
<1> DEFINE s == job[t].list
<1>1. pc[t] \in Working /\ UNCHANGED <<db, sessions, count, stored>>
  BY DEF Fetched, Working, history
<1>2. s \in Seq(Entry) /\ count[Obj(t)] \in Nat /\ row \in Nat
  BY <1>1, TaskFacts
<1>3. \/ Len(s) < KeepAtLeast /\ Advance(t, count[Obj(t)])
      \/ /\ Len(s) >= KeepAtLeast /\ Goto(t, "wipe")
         /\ job' = [job EXCEPT ![t] = [@ EXCEPT !.list = Rebuilt(s), !.n = Len(Rebuilt(s))]]
  BY DEF Fetched
<1> HIDE DEF s
<1>4. CASE Len(s) < KeepAtLeast /\ Advance(t, count[Obj(t)])
  <2>1. Moves(t)
    BY <1>1, <1>2, <1>4, Advanced
  <2>2. TypeInv'
    BY <1>1, <1>2, <2>1, TypeKept DEF TypeInv, HasRow, db
  <2> QED  BY <1>1, <1>4, <2>1, <2>2 DEF s
<1>5. CASE /\ Len(s) >= KeepAtLeast /\ Goto(t, "wipe")
           /\ job' = [job EXCEPT ![t] = [@ EXCEPT !.list = Rebuilt(s), !.n = Len(Rebuilt(s))]]
  <2>1. /\ Rebuilt(s) \in Seq(Entry) /\ Len(Rebuilt(s)) \in Nat /\ Rebuilt(s) # <<>>
    <3>1. Rebuilt(s) \in Seq(Entry) /\ Len(Rebuilt(s)) = Kept(Len(s)) + 1 /\ Kept(Len(s)) \in 1..Len(s)
      BY <1>2, <1>5, RebuiltIs
    <3>2. Len(Rebuilt(s)) # 0 /\ Len(Rebuilt(s)) \in Nat
      BY <1>2, <3>1
    <3> QED  BY <3>1, <3>2
  <2>2. /\ Moves(t) /\ pc'[t] = "wipe"
        /\ job'[t].list = Rebuilt(s) /\ job'[t].n = Len(Rebuilt(s))
        /\ job'[t].obj = job[t].obj /\ job'[t].op = job[t].op
    <3> DEFINE list == Rebuilt(s)
               n == Len(list)
    <3>1. Takes(t, list, n)
      BY <1>5 DEF Takes
    <3>2. list \in Seq(Entry) /\ n \in Nat /\ list # <<>> /\ Goto(t, "wipe")
      BY <1>5, <2>1
    <3> HIDE DEF list, n
    <3>3. /\ Moves(t) /\ pc'[t] = "wipe" /\ job'[t].list = list /\ job'[t].n = n
          /\ job'[t].obj = job[t].obj /\ job'[t].op = job[t].op
      BY <1>1, <3>1, <3>2, Worked DEF Working
    <3> QED  BY <3>3 DEF list, n
  <2>3. TypeInv'
    BY <1>1, <1>2, <2>2, TypeKept DEF TypeInv, HasRow, db
  <2> QED  BY <1>1, <1>5, <2>2, <2>3 DEF s
<1> QED  BY <1>3, <1>4, <1>5

\* Agent, Cleared and Compacted: the end of a phase, which may set the count.
LEMMA PhaseType ==
  ASSUME TypeInv, NEW t \in Tasks, NEW n \in Nat, Advance(t, n), pc[t] \in Working,
         UNCHANGED <<db, sessions, stored>>,
         count' = count \/ count' = [count EXCEPT ![Obj(t)] = n]
  PROVE  TypeInv' /\ Moves(t)
<1>1. Moves(t)
  BY Advanced
<1>2. count' \in [Objects -> Nat] /\ row \in Nat
  BY TaskFacts DEF TypeInv
<1> QED  BY <1>1, <1>2, TypeKept DEF TypeInv, HasRow, db

LEMMA WipeType ==
  ASSUME TypeInv, NEW t \in Tasks, Wipe(t)
  PROVE  /\ TypeInv' /\ Moves(t) /\ pc'[t] = "zero" /\ job' = job /\ msgs' = <<>>
         /\ UNCHANGED <<row, objs, stored>>
<1>1. /\ pc[t] \in Working /\ pc[t] = "wipe" /\ Goto(t, "zero") /\ job' = job /\ msgs' = <<>>
      /\ UNCHANGED <<row, objs, stored>>
  BY DEF Wipe, Working
<1>2. Takes(t, job[t].list, job[t].n)
  BY <1>1 DEF Takes
<1>3. Resetting(t) \/ job[t].list # <<>>
  BY <1>1 DEF TypeInv, Fits, Resetting
<1>4. Moves(t) /\ pc'[t] = "zero"
  BY <1>1, <1>2, <1>3, TaskFacts, Worked DEF Working
<1>5. msgs' \in Seq(Entry) /\ row \in Nat
  BY <1>1, EmptySeq, TaskFacts
<1>6. TypeInv'
  BY <1>1, <1>4, <1>5, TypeKept DEF TypeInv, HasRow, objs
<1> QED  BY <1>1, <1>4, <1>6

LEMMA ZeroType ==
  ASSUME TypeInv, NEW t \in Tasks, Zero(t)
  PROVE  /\ TypeInv' /\ Moves(t) /\ job' = job /\ row' = 0 /\ UNCHANGED <<msgs, objs, stored>>
         /\ pc'[t] = IF Resetting(t) THEN "cleared" ELSE "rebuild"
<1> DEFINE p == IF Resetting(t) THEN "cleared" ELSE "rebuild"
<1>1. /\ pc[t] \in Working /\ pc[t] = "zero" /\ Goto(t, p) /\ job' = job /\ row' = 0
      /\ UNCHANGED <<msgs, objs, stored>>
  BY DEF Zero, Working, history
<1>2. Takes(t, job[t].list, job[t].n)
  BY <1>1 DEF Takes
<1>3. Resetting(t) \/ job[t].list # <<>>
  BY <1>1 DEF TypeInv, Fits, Resetting
<1>4. /\ p \in {"cleared", "rebuild"} /\ (p = "rebuild" => job[t].list # <<>>)
      /\ (p = "cleared" => job[t].phase = 2)
  BY <1>3 DEF Resetting
<1> HIDE DEF p
<1>5. Moves(t) /\ pc'[t] = p
  BY <1>1, <1>2, <1>4, TaskFacts, Worked DEF Working
<1>6. TypeInv'
  BY <1>1, <1>5, TypeKept DEF TypeInv, HasRow, objs
<1> QED  BY <1>1, <1>5, <1>6 DEF p

LEMMA RebuildType ==
  ASSUME TypeInv, NEW t \in Tasks, Rebuild(t)
  PROVE  /\ TypeInv' /\ Moves(t) /\ UNCHANGED <<objs, stored>>
         /\ job'[t].list = Tail(job[t].list) /\ job'[t].n = job[t].n
         /\ job'[t].obj = job[t].obj /\ job'[t].op = job[t].op
         /\ Len(job[t].list) \in Nat \ {0} /\ Len(job'[t].list) = Len(job[t].list) - 1
         /\ pc'[t] = IF Len(job[t].list) = 1 THEN "rebuilt" ELSE "rebuild"
         /\ row' = row + 1 /\ Len(msgs') = Len(msgs) + 1 /\ Len(msgs) \in Nat
<1> DEFINE list == Tail(job[t].list)
           p == IF Len(job[t].list) = 1 THEN "rebuilt" ELSE "rebuild"
<1>1. /\ pc[t] \in Working /\ pc[t] = "rebuild" /\ Goto(t, p) /\ UNCHANGED <<objs, stored>>
      /\ Insert(Head(job[t].list)) /\ job' = [job EXCEPT ![t].list = list]
  BY DEF Rebuild, Working, history
<1>2. job[t].list \in Seq(Entry) /\ job[t].list # <<>> /\ row \in Nat
  BY <1>1, TaskFacts DEF TypeInv, Fits
<1>3. /\ Head(job[t].list) \in Entry /\ list \in Seq(Entry)
      /\ Len(job[t].list) \in Nat \ {0} /\ Len(list) = Len(job[t].list) - 1
  BY <1>2, HeadTailProperties, EmptySeq
<1>4. p \in {"rebuilt", "rebuild"} /\ (p = "rebuild" => list # <<>>)
  <2>1. p = "rebuild" => Len(list) # 0
    BY <1>3
  <2>2. Len(<<>>) = 0
    BY EmptySeq
  <2> QED  BY <2>1, <2>2
<1>5. Takes(t, list, job[t].n)
  BY <1>1 DEF Takes
<1> HIDE DEF p, list
<1>6. /\ Moves(t) /\ pc'[t] = p /\ job'[t].list = list /\ job'[t].n = job[t].n
      /\ job'[t].obj = job[t].obj /\ job'[t].op = job[t].op
  BY <1>1, <1>3, <1>4, <1>5, TaskFacts, Worked DEF Working
<1>7. /\ msgs' \in Seq(Entry) /\ row' \in Nat /\ row' = row + 1
      /\ Len(msgs') = Len(msgs) + 1 /\ Len(msgs) \in Nat
  BY <1>1, <1>2, <1>3, InsertType
<1>8. TypeInv'
  BY <1>1, <1>6, <1>7, TypeKept DEF TypeInv, HasRow, objs
<1> QED  BY <1>1, <1>3, <1>6, <1>7, <1>8 DEF p, list

LEMMA ReadBackType ==
  ASSUME TypeInv, NEW t \in Tasks, ReadBack(t)
  PROVE  /\ TypeInv' /\ Moves(t) /\ UNCHANGED <<db, sessions, count, stored>>
         /\ pc'[t] = "idle" /\ job'[t] = NoJob
<1>1. End(t) /\ UNCHANGED <<db, sessions, count, stored>>
  BY DEF ReadBack, history
<1>2. Moves(t) /\ pc'[t] = "idle" /\ job'[t] = NoJob
  BY <1>1, Ended
<1>3. TypeInv'
  BY <1>1, <1>2, TypeKept DEF TypeInv, HasRow, db, Moves, Working
<1> QED  BY <1>1, <1>2, <1>3

LEMMA FailType ==
  ASSUME TypeInv, NEW t \in Tasks, StatementFails(t)
  PROVE  /\ TypeInv' /\ Moves(t) /\ UNCHANGED <<db, objs, stored>>
         /\ \/ pc'[t] = "idle" /\ job'[t] = NoJob
            \/ /\ pc[t] \in Working /\ pc'[t] = "store"
               /\ job'[t].obj = job[t].obj /\ job'[t].op = job[t].op
<1>1. UNCHANGED <<db, objs, stored>>
  BY DEF StatementFails
<1>2. CASE End(t)
  BY <1>1, <1>2, Ended, TypeKeptHere DEF Working
<1>3. CASE /\ job[t].phase = 2 /\ Goto(t, "store")
           /\ job' = [job EXCEPT ![t] = [@ EXCEPT !.phase = 3, !.list = <<>>]]
  <2>1. pc[t] \in Working
    BY <1>3 DEF TypeInv, Fits
  <2>2. Advance(t, 0)
    BY <1>3 DEF Advance
  <2>3. Moves(t) /\ pc'[t] = "store" /\ job'[t].obj = job[t].obj /\ job'[t].op = job[t].op
    BY <1>3, <2>1, <2>2, Advanced DEF TypeInv, Goto
  <2> QED  BY <1>1, <2>1, <2>3, TaskFacts, TypeKeptHere
<1> QED  BY <1>2, <1>3 DEF StatementFails

LEMMA ArchiveType ==
  ASSUME TypeInv, Archive
  PROVE  /\ TypeInv' /\ sessions' = NoObject
         /\ UNCHANGED <<db, count, pc, job, stored>>
BY DEF TypeInv, Archive, HasRow, db, history

LEMMA CrashType ==
  ASSUME TypeInv, Crash
  PROVE  /\ TypeInv' /\ sessions' = NoObject /\ UNCHANGED <<db, count, stored>>
         /\ \A t \in Tasks : pc'[t] = "idle" /\ job'[t] = NoJob
BY NoJobIsJob DEF TypeInv, Crash, HasRow, db, Stage, Working

-----------------------------------------------------------------------------
(***************************************************************************)
(* One task: a compaction covers the log and keeps its last messages.      *)
(***************************************************************************)
OneTask == \E t : Tasks = {t}

\* What the log is to the task with job j at stage p: it is covered by the count of
\* the task's object, and by the LIMIT of a compaction, which has read all of it.
Covered(p, j) ==
  LET n == Len(msgs)
      counted == count[j.obj]
      reset == j.op = "reset" /\ j.phase = 2
  IN
  /\ p = "load" => n <= j.row
  /\ p \in {"store", "agent", "read", "readback", "fetch", "fetched", "wipe"} => n <= counted
  /\ p = "stored" => n <= counted + 1
  /\ p = "fetch" => n <= j.n
  /\ p = "fetched" => j.list = msgs
  /\ p = "wipe" /\ ~reset =>
       n >= KeepAtLeast /\ j.list = Rebuilt(msgs)
  /\ p \in {"wipe", "zero"} /\ ~reset => Len(j.list) = j.n /\ j.n <= counted + 1
  /\ p \in {"zero", "cleared"} => msgs = <<>>
  /\ p = "rebuild" => n + Len(j.list) = j.n /\ j.n <= counted + 1
  /\ p = "rebuilt" => n <= j.n

\* The row covers the log; so does the object in the map, which is the task's.
RowCovers ==
  /\ row # NoRow => Len(msgs) <= row
  /\ row = NoRow => msgs = <<>>

MapCovers ==
  \A t \in Tasks : sessions # NoObject =>
    /\ job[t].obj \in {NoObject, sessions}
    /\ job[t].obj = NoObject => Len(msgs) <= count[sessions]

LogCovered == TypeInv /\ RowCovers /\ MapCovers /\ \A t \in Tasks : Covered(pc[t], job[t])

LEMMA CoveredImplies == ASSUME LogCovered PROVE CountCovers
BY DEF LogCovered, RowCovers, Covered, CountCovers

\* After a phase, if the count covers the log.
LEMMA AdvancedCovered ==
  ASSUME LogCovered, NEW t \in Tasks, NEW n \in Nat, Advance(t, n), pc[t] \in Working,
         Len(msgs') <= count'[job[t].obj], job[t].phase = 1 => Len(msgs') <= n
  PROVE  Covered(pc[t], job[t])'
<1> USE DEF LogCovered
<1>1. CASE pc'[t] = "idle"
  BY <1>1 DEF Covered
<1>2. CASE /\ pc'[t] \in {"store", "agent", "wipe", "fetch"}
           /\ job'[t].obj = job[t].obj /\ job'[t].op = job[t].op
           /\ pc'[t] = "wipe" => job[t].op = "reset" /\ job'[t].phase = 2
           /\ pc'[t] = "fetch" => job[t].op = "compact" /\ job'[t].n = n /\ job[t].phase = 1
  BY <1>2 DEF Covered
<1> QED  BY <1>1, <1>2, Advanced

LEMMA OnlyTask ==
  ASSUME OneTask, TypeInv', NEW t \in Tasks, Covered(pc[t], job[t])', RowCovers',
         sessions' # NoObject =>
           /\ job'[t].obj \in {NoObject, sessions'}
           /\ job'[t].obj = NoObject => Len(msgs') <= count'[sessions']
  PROVE  LogCovered'
<1>1. \A u \in Tasks : u = t
  BY DEF OneTask
<1> QED  BY <1>1 DEF LogCovered, MapCovers

\* The steps that leave the log, the counts and the map as they are.
LEMMA LookupCovers ==
  ASSUME OneTask, LogCovered, NEW t \in Tasks,
         \/ \E op \in AllOps : Request(t, op)
         \/ Find(t) \/ Found(t) \/ Recheck(t) \/ Create(t)
  PROVE  LogCovered'
<1> USE DEF LogCovered
<1>1. /\ TypeInv' /\ UNCHANGED <<msgs, sessions, count>>
      /\ pc[t] \notin Working
      /\ row' = row \/ (row = NoRow /\ row' = 0)
      /\ \/ pc'[t] \in {"idle", "find", "found", "recheck", "create"}
         \/ pc'[t] = "load" /\ row' \in Nat /\ job'[t].row = row'
         \/ /\ pc'[t] \in {"read", "store"} /\ sessions # NoObject
            /\ job'[t].obj = sessions
  <2>1. CASE \E op \in AllOps : Request(t, op)
    BY <2>1, RequestType DEF Request, objs, db, Working
  <2>2. CASE Find(t) \/ Found(t) \/ Recheck(t) \/ Create(t)
    BY <2>2, FindType DEF Find, Found, Recheck, Create, objs, Working
  <2> QED  BY <2>1, <2>2
<1>2. job[t].obj = NoObject /\ (job'[t].obj = NoObject <=> pc'[t] \notin Working)
  BY <1>1 DEF TypeInv, Fits
<1>3. RowCovers'
  BY <1>1, EmptySeq DEF RowCovers, NoRow
<1>4. Len(msgs) \in Nat /\ (row # NoRow \/ Len(msgs) = 0)
  BY EmptySeq DEF RowCovers, TypeInv
<1>5. sessions # NoObject => Len(msgs) <= count[sessions]
  BY <1>2 DEF MapCovers
<1>6. Covered(pc[t], job[t])'
  <2>1. pc'[t] = "load" => Len(msgs) <= row'
    BY <1>1, <1>3 DEF RowCovers, NoRow
  <2> QED  BY <1>1, <1>5, <2>1 DEF Covered
<1>7. job'[t].obj \in {NoObject, sessions'}
  BY <1>1, <1>2 DEF Working
<1> QED  BY <1>1, <1>3, <1>5, <1>6, <1>7, OnlyTask

LEMMA LoadCovers ==
  ASSUME OneTask, LogCovered, NEW t \in Tasks, Load(t)
  PROVE  LogCovered'
<1> USE DEF LogCovered
<1>1. /\ TypeInv' /\ UNCHANGED db /\ pc'[t] \in {"read", "store"}
      /\ sessions' \in Objects /\ job'[t].obj = sessions'
      /\ count' = [count EXCEPT ![sessions'] = job[t].row]
  BY LoadType
<1>2. Len(msgs) <= job[t].row
  BY DEF Load, Covered
<1>3. count'[sessions'] = job[t].row
  BY <1>1 DEF TypeInv
<1>4. Covered(pc[t], job[t])' /\ RowCovers'
  BY <1>1, <1>2, <1>3 DEF Covered, RowCovers, db
<1> QED  BY <1>1, <1>2, <1>3, <1>4, OnlyTask DEF db

\* The same for a task at work, which has the object of the map, if there is one.
LEMMA WorkCovers ==
  ASSUME OneTask, LogCovered, NEW t \in Tasks, pc[t] \in Working, TypeInv', RowCovers',
         Covered(pc[t], job[t])', sessions' = sessions,
         job'[t].obj \in {NoObject, job[t].obj},
         job'[t].obj = NoObject => Len(msgs') <= count'[job[t].obj]
  PROVE  LogCovered'
<1>1. sessions # NoObject => job[t].obj = sessions
  BY DEF LogCovered, MapCovers, TypeInv, Fits
<1> QED  BY <1>1, OnlyTask

\* The end of a phase with n messages counted, or an operation.
LEMMA PhaseCovers ==
  ASSUME OneTask, LogCovered, NEW t \in Tasks, NEW n \in Nat, Advance(t, n),
         pc[t] \in Working, TypeInv', UNCHANGED <<db, sessions>>,
         Len(msgs) <= count'[job[t].obj], job[t].phase = 1 => Len(msgs) <= n
  PROVE  LogCovered'
<1>1. msgs' = msgs /\ row' = row
  BY DEF db
<1>2. Covered(pc[t], job[t])'
  BY <1>1, AdvancedCovered
<1>3. RowCovers'
  BY <1>1 DEF LogCovered, RowCovers
<1>4. job'[t].obj \in {NoObject, job[t].obj}
  BY Advanced DEF LogCovered, NoJob
<1> QED  BY <1>1, <1>2, <1>3, <1>4, WorkCovers

LEMMA StoreCovers ==
  ASSUME OneTask, LogCovered, NEW t \in Tasks, Store(t)
  PROVE  LogCovered'
<1> USE DEF LogCovered
<1>1. /\ TypeInv' /\ pc'[t] = "stored" /\ job' = job
      /\ row' = row + 1 /\ Len(msgs') = Len(msgs) + 1 /\ Len(msgs) \in Nat
  BY StoreType
<1>2. pc[t] = "store" /\ UNCHANGED <<sessions, count>>
  BY DEF Store, objs
<1>3. job[t].obj \in Objects /\ count[job[t].obj] \in Nat /\ row \in Nat
  BY <1>2, TaskFacts DEF Working, Obj
<1>4. Len(msgs) <= count[job[t].obj] /\ Len(msgs) <= row
  BY <1>2, <1>3 DEF Covered, RowCovers, NoRow
<1>5. Covered(pc[t], job[t])'
  BY <1>1, <1>2, <1>3, <1>4 DEF Covered
<1>6. RowCovers'
  BY <1>1, <1>3, <1>4 DEF RowCovers, NoRow
<1> QED  BY <1>1, <1>2, <1>3, <1>5, <1>6, WorkCovers, SessionAssumption DEF Working, SessionAssumption

LEMMA StoredCovers ==
  ASSUME OneTask, LogCovered, NEW t \in Tasks, Stored(t)
  PROVE  LogCovered'
<1> DEFINE n == count[Obj(t)] + 1
<1> USE DEF LogCovered
<1>1. /\ TypeInv' /\ UNCHANGED <<db, sessions>>
      /\ count' = [count EXCEPT ![Obj(t)] = n] /\ n \in Nat
      /\ \/ Due(n) /\ pc'[t] = "fetch" /\ job'[t].n = n
            /\ job'[t].obj = job[t].obj /\ job'[t].op = job[t].op
         \/ ~Due(n) /\ Advance(t, n)
  BY StoredType
<1>2. pc[t] = "stored" /\ pc[t] \in Working
  BY DEF Stored, Working
<1>3. Len(msgs) <= n
  BY <1>2 DEF Covered, Obj
<1>4. count'[job[t].obj] = n /\ msgs' = msgs /\ row' = row
  BY <1>1, <1>2, TaskFacts DEF TypeInv, Obj, db
<1> HIDE DEF n
<1>5. CASE /\ pc'[t] = "fetch" /\ job'[t].n = n
           /\ job'[t].obj = job[t].obj /\ job'[t].op = job[t].op
  <2>1. Covered(pc[t], job[t])'
    BY <1>3, <1>4, <1>5 DEF Covered
  <2>2. RowCovers'
    BY <1>4 DEF RowCovers
  <2>3. job[t].obj # NoObject
    BY <1>2 DEF TypeInv, Fits
  <2> QED  BY <1>1, <1>2, <1>5, <2>1, <2>2, <2>3, WorkCovers
<1>6. CASE Advance(t, n)
  BY <1>1, <1>2, <1>3, <1>4, <1>6, PhaseCovers
<1> QED  BY <1>1, <1>5, <1>6

LEMMA FetchCovers ==
  ASSUME OneTask, LogCovered, NEW t \in Tasks, Fetch(t) \/ Read(t)
  PROVE  LogCovered'
<1> USE DEF LogCovered
<1>1. /\ TypeInv' /\ UNCHANGED <<db, objs>>
      /\ job'[t].list = First(msgs, job[t].n) /\ job'[t].obj = job[t].obj
      /\ \/ pc[t] = "fetch" /\ pc'[t] = "fetched"
         \/ pc[t] = "read" /\ pc'[t] = "readback"
  BY FetchType
<1>2. job[t].n \in Nat /\ job[t].obj # NoObject /\ pc[t] \in Working
  BY <1>1, TaskFacts DEF TypeInv, Fits, Working
<1>3. pc[t] = "fetch" => job'[t].list = msgs
  BY <1>1, <1>2, FirstIs DEF TypeInv, Covered
<1>4. Covered(pc[t], job[t])' /\ RowCovers'
  BY <1>1, <1>3 DEF Covered, RowCovers, db, objs
<1> QED  BY <1>1, <1>2, <1>4, WorkCovers DEF objs

LEMMA FetchedCovers ==
  ASSUME OneTask, LogCovered, NEW t \in Tasks, Fetched(t)
  PROVE  LogCovered'
<1> USE DEF LogCovered
<1>1. /\ TypeInv' /\ UNCHANGED <<db, sessions, count>>
      /\ \/ Len(job[t].list) < KeepAtLeast /\ Advance(t, count[Obj(t)])
         \/ /\ Len(job[t].list) >= KeepAtLeast /\ pc'[t] = "wipe"
            /\ job'[t].list = Rebuilt(job[t].list) /\ job'[t].n = Len(Rebuilt(job[t].list))
            /\ job'[t].obj = job[t].obj /\ job'[t].op = job[t].op
  BY FetchedType
<1>2. pc[t] = "fetched" /\ pc[t] \in Working
  BY DEF Fetched, Working
<1>3. job[t].list = msgs /\ Len(msgs) <= count[job[t].obj]
  BY <1>2 DEF Covered
<1>4. /\ msgs' = msgs /\ row' = row /\ msgs \in Seq(Entry) /\ Len(msgs) \in Nat
      /\ count[Obj(t)] \in Nat /\ Obj(t) = job[t].obj /\ Obj(t) # NoObject
  BY <1>1, <1>2, TaskFacts DEF TypeInv, Obj, db, Fits
<1>5. CASE Advance(t, count[Obj(t)])
  BY <1>1, <1>2, <1>3, <1>4, <1>5, PhaseCovers
<1>6. CASE /\ Len(msgs) >= KeepAtLeast /\ pc'[t] = "wipe"
           /\ job'[t].list = Rebuilt(msgs) /\ job'[t].n = Len(Rebuilt(msgs))
           /\ job'[t].obj = job[t].obj
  <2>1. Len(Rebuilt(msgs)) = Kept(Len(msgs)) + 1 /\ Kept(Len(msgs)) \in 1..Len(msgs)
    BY <1>4, <1>6, RebuiltIs
  <2>2. Len(Rebuilt(msgs)) <= count[job[t].obj] + 1
    BY <1>3, <1>4, <2>1
  <2>3. Covered(pc[t], job[t])'
    BY <1>1, <1>3, <1>4, <1>6, <2>2 DEF Covered
  <2>4. RowCovers'
    BY <1>4 DEF RowCovers
  <2> QED  BY <1>1, <1>2, <1>4, <1>6, <2>3, <2>4, WorkCovers
<1> QED  BY <1>1, <1>3, <1>5, <1>6

LEMMA WipeCovers ==
  ASSUME OneTask, LogCovered, NEW t \in Tasks, Wipe(t)
  PROVE  LogCovered'
<1> USE DEF LogCovered
<1>1. /\ TypeInv' /\ pc'[t] = "zero" /\ job' = job /\ msgs' = <<>>
      /\ UNCHANGED <<row, objs>>
  BY WipeType
<1>2. pc[t] = "wipe" /\ pc[t] \in Working
  BY DEF Wipe, Working
<1>3. row \in Nat /\ job[t].obj # NoObject /\ Len(<<>>) = 0
  BY <1>2, TaskFacts, EmptySeq DEF TypeInv, Fits
<1>4. Covered(pc[t], job[t])' /\ RowCovers'
  BY <1>1, <1>2, <1>3 DEF Covered, RowCovers, objs, NoRow
<1> QED  BY <1>1, <1>2, <1>3, <1>4, WorkCovers DEF objs

LEMMA ZeroCovers ==
  ASSUME OneTask, LogCovered, NEW t \in Tasks, Zero(t)
  PROVE  LogCovered'
<1> USE DEF LogCovered
<1>1. /\ TypeInv' /\ job' = job /\ row' = 0 /\ UNCHANGED <<msgs, objs>>
      /\ pc'[t] = IF Resetting(t) THEN "cleared" ELSE "rebuild"
  BY ZeroType
<1>2. pc[t] = "zero" /\ pc[t] \in Working
  BY DEF Zero, Working
<1>3. /\ job[t].obj # NoObject /\ msgs = <<>> /\ Len(msgs) = 0
      /\ job[t].n \in Nat /\ count[job[t].obj] \in Nat
  BY <1>2, TaskFacts, EmptySeq DEF TypeInv, Fits, Covered, Obj
<1>4. ~Resetting(t) => Len(job[t].list) = job[t].n /\ job[t].n <= count[job[t].obj] + 1
  BY <1>2 DEF Covered, Resetting
<1>5. Covered(pc[t], job[t])' /\ RowCovers'
  BY <1>1, <1>3, <1>4 DEF Covered, RowCovers, objs, NoRow
<1> QED  BY <1>1, <1>2, <1>3, <1>5, WorkCovers DEF objs

LEMMA RebuildCovers ==
  ASSUME OneTask, LogCovered, NEW t \in Tasks, Rebuild(t)
  PROVE  LogCovered'
<1> USE DEF LogCovered
<1>1. /\ TypeInv' /\ UNCHANGED objs
      /\ job'[t].n = job[t].n /\ job'[t].obj = job[t].obj
      /\ Len(job[t].list) \in Nat \ {0} /\ Len(job'[t].list) = Len(job[t].list) - 1
      /\ pc'[t] = IF Len(job[t].list) = 1 THEN "rebuilt" ELSE "rebuild"
      /\ row' = row + 1 /\ Len(msgs') = Len(msgs) + 1 /\ Len(msgs) \in Nat
  BY RebuildType
<1>2. pc[t] = "rebuild" /\ pc[t] \in Working
  BY DEF Rebuild, Working
<1>3. /\ job[t].obj # NoObject /\ job[t].n \in Nat /\ row \in Nat
      /\ Len(msgs) + Len(job[t].list) = job[t].n /\ job[t].n <= count[job[t].obj] + 1
  BY <1>2, TaskFacts DEF TypeInv, Fits, Covered
<1>4. Covered(pc[t], job[t])'
  <2> DEFINE k == Len(job[t].list)
             m == Len(msgs)
  <2>1. /\ pc'[t] \in {"rebuilt", "rebuild"} /\ (pc'[t] = "rebuilt" => k = 1)
        /\ Len(msgs') = m + 1 /\ Len(job'[t].list) = k - 1 /\ m + k = job[t].n
        /\ k \in Nat /\ m \in Nat
    BY <1>1, <1>3
  <2> HIDE DEF k, m
  <2>2. job'[t].n = m + k
    BY <1>1, <2>1
  <2>3. Len(msgs') + Len(job'[t].list) = job'[t].n
    BY <2>1, <2>2
  <2>4. pc'[t] = "rebuilt" => Len(msgs') <= job'[t].n
    <3> SUFFICES ASSUME k = 1 PROVE Len(msgs') <= job'[t].n
      BY <2>1
    <3>1. Len(msgs') = m + 1 /\ job'[t].n = m + 1
      BY <2>1, <2>2
    <3> QED  BY <2>1, <3>1
  <2>5. job'[t].n <= count'[job'[t].obj] + 1
    BY <1>1, <1>3 DEF objs
  <2> QED  BY <2>1, <2>3, <2>4, <2>5 DEF Covered
<1>5. RowCovers'
  BY <1>1, <1>3 DEF RowCovers, NoRow
<1> QED  BY <1>1, <1>2, <1>3, <1>4, <1>5, WorkCovers DEF objs

\* Agent, Cleared and Compacted.
LEMMA EndsCover ==
  ASSUME OneTask, LogCovered, NEW t \in Tasks, Agent(t) \/ Cleared(t) \/ Compacted(t)
  PROVE  LogCovered'
<1> USE DEF LogCovered
<1>1. PICK n \in Nat :
        /\ Advance(t, n) /\ pc[t] \in Working /\ UNCHANGED <<db, sessions, stored>>
        /\ count' = count \/ count' = [count EXCEPT ![Obj(t)] = n]
        /\ Len(msgs) <= count'[job[t].obj]
        /\ job[t].phase = 1 => Len(msgs) <= n
  <2>1. CASE Agent(t)
    <3>1. /\ pc[t] = "agent" /\ Advance(t, 0) /\ UNCHANGED <<db, sessions, stored, count>>
          /\ job[t].phase = 2
      BY <2>1 DEF Agent, objs, history, TypeInv, Fits
    <3> QED  BY <3>1 DEF Covered, Working
  <2>2. CASE Cleared(t)
    <3>1. /\ pc[t] = "cleared" /\ Advance(t, 0) /\ UNCHANGED <<db, sessions, stored>>
          /\ job[t].phase = 2 /\ count' = [count EXCEPT ![Obj(t)] = 0] /\ msgs = <<>>
      BY <2>2 DEF Cleared, history, TypeInv, Fits, Covered
    <3>2. count'[job[t].obj] = 0 /\ Len(msgs) = 0 /\ pc[t] \in Working /\ 0 \in Nat
      BY <3>1, TaskFacts, EmptySeq DEF Working, Obj, TypeInv
    <3>3. Len(msgs) <= count'[job[t].obj] /\ job[t].phase # 1
      BY <3>1, <3>2
    <3> QED  BY <3>1, <3>2, <3>3
  <2>3. CASE Compacted(t)
    <3>1. /\ pc[t] = "rebuilt" /\ Advance(t, job[t].n) /\ UNCHANGED <<db, sessions, stored>>
          /\ count' = [count EXCEPT ![Obj(t)] = job[t].n] /\ Len(msgs) <= job[t].n
      BY <2>3 DEF Compacted, history, Covered
    <3>2. count'[job[t].obj] = job[t].n /\ job[t].n \in Nat
      BY <3>1, TaskFacts DEF Working, Obj, TypeInv
    <3> QED  BY <3>1, <3>2 DEF Working
  <2> QED  BY <2>1, <2>2, <2>3
<1> QED  BY <1>1, PhaseType, PhaseCovers

LEMMA ReadBackCovers ==
  ASSUME OneTask, LogCovered, NEW t \in Tasks, ReadBack(t)
  PROVE  LogCovered'
<1> USE DEF LogCovered
<1>1. /\ TypeInv' /\ UNCHANGED <<db, sessions, count>> /\ pc'[t] = "idle" /\ job'[t] = NoJob
  BY ReadBackType
<1>2. pc[t] = "readback" /\ pc[t] \in Working
  BY DEF ReadBack, Working
<1>3. Len(msgs) <= count[job[t].obj]
  BY <1>2 DEF Covered
<1>4. Covered(pc[t], job[t])' /\ RowCovers'
  BY <1>1 DEF Covered, RowCovers, db
<1>5. job'[t].obj = NoObject
  BY <1>1 DEF NoJob
<1> QED  BY <1>1, <1>2, <1>3, <1>4, <1>5, WorkCovers DEF db

LEMMA FailCovers ==
  ASSUME OneTask, LogCovered, NEW t \in Tasks, StatementFails(t)
  PROVE  LogCovered'
<1> USE DEF LogCovered
<1>1. /\ TypeInv' /\ UNCHANGED <<db, objs>>
      /\ \/ pc'[t] = "idle" /\ job'[t] = NoJob
         \/ /\ pc[t] \in Working /\ pc'[t] = "store" /\ job'[t].obj = job[t].obj
  BY FailType
<1>2. RowCovers'
  BY <1>1 DEF RowCovers, db
<1>3. CASE pc[t] \in Working
  <2>1. Len(msgs) <= count[job[t].obj]
    <3>1. pc[t] \in {"store", "fetch", "wipe", "zero", "rebuild", "read"}
      BY <1>3 DEF StatementFails, Working
    <3>2. CASE pc[t] \in {"store", "fetch", "wipe", "read"}
      BY <3>2 DEF Covered
    <3>3. CASE pc[t] = "zero"
      <4>1. msgs = <<>> /\ count[job[t].obj] \in Nat
        BY <1>3, <3>3, TaskFacts DEF Covered, Obj
      <4> QED  BY <4>1, EmptySeq
    <3>4. CASE pc[t] = "rebuild"
      <4>1. /\ Len(msgs) + Len(job[t].list) = job[t].n /\ job[t].n <= count[job[t].obj] + 1
            /\ job[t].list # <<>> /\ job[t].list \in Seq(Entry) /\ msgs \in Seq(Entry)
            /\ count[job[t].obj] \in Nat /\ job[t].n \in Nat
        BY <1>3, <3>4, TaskFacts DEF Covered, Obj, TypeInv, Fits
      <4>2. Len(job[t].list) \in Nat \ {0} /\ Len(msgs) \in Nat
        BY <4>1, EmptySeq
      <4> QED  BY <4>1, <4>2
    <3> QED  BY <3>1, <3>2, <3>3, <3>4
  <2>2. Covered(pc[t], job[t])'
    BY <1>1, <2>1 DEF Covered, db, objs
  <2>3. job'[t].obj \in {NoObject, job[t].obj}
    BY <1>1 DEF NoJob
  <2> QED  BY <1>1, <1>2, <1>3, <2>1, <2>2, <2>3, WorkCovers DEF db, objs
<1>4. CASE pc[t] \notin Working
  <2>1. job[t].obj = NoObject /\ pc'[t] = "idle" /\ job'[t].obj = NoObject
    BY <1>1, <1>4 DEF TypeInv, Fits, NoJob
  <2>2. sessions # NoObject => Len(msgs) <= count[sessions]
    BY <2>1 DEF MapCovers
  <2>3. Covered(pc[t], job[t])'
    BY <2>1 DEF Covered
  <2> QED  BY <1>1, <1>2, <2>1, <2>2, <2>3, OnlyTask DEF db, objs
<1> QED  BY <1>3, <1>4

LEMMA ArchiveCovers ==
  ASSUME LogCovered, Archive
  PROVE  LogCovered'
<1>1. TypeInv' /\ sessions' = NoObject /\ UNCHANGED <<row, msgs, count, pc, job>>
  BY ArchiveType DEF LogCovered, db
<1> QED  BY <1>1 DEF LogCovered, MapCovers, RowCovers, Covered

LEMMA CrashCovers ==
  ASSUME LogCovered, Crash
  PROVE  LogCovered'
<1>1. /\ TypeInv' /\ sessions' = NoObject /\ UNCHANGED <<row, msgs, count>>
      /\ \A t \in Tasks : pc'[t] = "idle"
  BY CrashType DEF LogCovered, db
<1>2. \A t \in Tasks : Covered(pc[t], job[t])'
  BY <1>1 DEF Covered
<1> QED  BY <1>1, <1>2 DEF LogCovered, MapCovers, RowCovers

LEMMA NextCovers ==
  ASSUME OneTask, LogCovered, [Next]_vars
  PROVE  LogCovered'
<1>1. ASSUME NEW t \in Tasks, Step(t)
      PROVE  LogCovered'
  <2>1. CASE (\E op \in AllOps : Request(t, op)) \/ Find(t) \/ Found(t) \/ Recheck(t) \/ Create(t)
    BY <2>1, LookupCovers
  <2>2. CASE Load(t)
    BY <2>2, LoadCovers
  <2>3. CASE Store(t)
    BY <2>3, StoreCovers
  <2>4. CASE Stored(t)
    BY <2>4, StoredCovers
  <2>5. CASE Agent(t) \/ Cleared(t) \/ Compacted(t)
    BY <2>5, EndsCover
  <2>6. CASE Fetch(t) \/ Read(t)
    BY <2>6, FetchCovers
  <2>7. CASE Fetched(t)
    BY <2>7, FetchedCovers
  <2>8. CASE Wipe(t)
    BY <2>8, WipeCovers
  <2>9. CASE Zero(t)
    BY <2>9, ZeroCovers
  <2>10. CASE Rebuild(t)
    BY <2>10, RebuildCovers
  <2>11. CASE ReadBack(t)
    BY <2>11, ReadBackCovers
  <2>12. CASE StatementFails(t)
    BY <2>12, FailCovers
  <2> QED
    BY <1>1, <2>1, <2>2, <2>3, <2>4, <2>5, <2>6, <2>7, <2>8, <2>9, <2>10, <2>11, <2>12
       DEF Step, Lookup, AddMessage, Compact
<1>2. CASE Archive
  BY <1>2, ArchiveCovers
<1>3. CASE Crash
  BY <1>3, CrashCovers
<1>4. CASE UNCHANGED vars
  BY <1>4 DEF vars, db, objs, history, LogCovered, TypeInv, HasRow, RowCovers, MapCovers, Covered
<1> QED  BY <1>1, <1>2, <1>3, <1>4 DEF Next

LEMMA InitCovered == Init => LogCovered
<1> SUFFICES ASSUME Init PROVE LogCovered
  OBVIOUS
<1>1. TypeInv
  <2>1. \A t \in Tasks : Fits(pc[t], job[t])
    BY NoJobIsJob DEF Init
  <2>2. HasRow
    BY DEF Init, HasRow, Working
  <2> QED  BY <2>1, <2>2, NoJobIsJob, EmptySeq DEF TypeInv, Init, Stage
<1>2. RowCovers
  BY DEF Init, RowCovers
<1>3. MapCovers
  BY DEF Init, MapCovers
<1>4. \A t \in Tasks : Covered(pc[t], job[t])
  BY DEF Init, Covered
<1> QED  BY <1>1, <1>2, <1>3, <1>4 DEF LogCovered

LEMMA StaysCovered ==
  ASSUME OneTask
  PROVE  Spec => []LogCovered
<1>1. LogCovered /\ [Next]_vars => LogCovered'
  BY NextCovers
<1> QED  BY <1>1, InitCovered, PTL DEF Spec

\* CountCovers: message_count, which the trigger keeps in the row and each object
\* keeps for itself, is never less than the log, though statements fail, the process
\* dies, and the manager archives; so "get_history(limit=self.message_count)" in
\* compact reads every message that clear_session_messages is about to delete.
THEOREM CompactionReadsAll ==
  ASSUME OneTask
  PROVE  Spec => []CountCovers
<1>1. LogCovered => CountCovers
  BY CoveredImplies
<1>2. Spec => []LogCovered
  BY StaysCovered
<1> QED  BY <1>1, <1>2, PTL

\* KeepsRecent: when compact deletes the messages, those it is about to insert again
\* after the summary are the last ones of the log, in their order.
THEOREM CompactionKeepsRecent ==
  ASSUME OneTask
  PROVE  Spec => KeepsRecent
<1>1. ASSUME LogCovered, NEW t \in Tasks, pc[t] = "wipe", ~Resetting(t)
      PROVE  LET kept == Tail(job[t].list) IN
             /\ Len(kept) <= Len(msgs)
             /\ kept = SubSeq(msgs, Len(msgs) - Len(kept) + 1, Len(msgs))
  <2>1. Len(msgs) >= KeepAtLeast /\ job[t].list = Rebuilt(msgs) /\ msgs \in Seq(Entry)
    BY <1>1 DEF LogCovered, Covered, Resetting, TypeInv
  <2>2. /\ Len(Rebuilt(msgs)) = Kept(Len(msgs)) + 1 /\ Kept(Len(msgs)) \in 1..Len(msgs)
        /\ Rebuilt(msgs) \in Seq(Entry)
        /\ Tail(Rebuilt(msgs)) = SubSeq(msgs, Len(msgs) - Kept(Len(msgs)) + 1, Len(msgs))
    BY <2>1, RebuiltIs
  <2>3. Len(msgs) \in Nat /\ Kept(Len(msgs)) \in Nat
    BY <2>1, <2>2
  <2>4. Rebuilt(msgs) # <<>>
    BY <2>2, <2>3, EmptySeq
  <2>5. Len(Tail(Rebuilt(msgs))) = Kept(Len(msgs))
    BY <2>2, <2>3, <2>4, HeadTailProperties
  <2>6. Tail(job[t].list) = SubSeq(msgs, Len(msgs) - Len(Tail(job[t].list)) + 1, Len(msgs))
    BY <2>1, <2>2, <2>5
  <2>7. Len(Tail(job[t].list)) <= Len(msgs)
    BY <2>1, <2>2, <2>3, <2>5
  <2> QED  BY <2>6, <2>7
<1>2. LogCovered =>
        [\A t \in Tasks :
           LET kept == Tail(job[t].list) IN
           pc[t] = "wipe" /\ pc'[t] = "zero" /\ ~Resetting(t) =>
             /\ Len(kept) <= Len(msgs)
             /\ kept = SubSeq(msgs, Len(msgs) - Len(kept) + 1, Len(msgs))]_vars
  BY <1>1
<1>3. Spec => []LogCovered
  BY StaysCovered
<1> QED  BY <1>2, <1>3, PTL DEF KeepsRecent

-----------------------------------------------------------------------------
(***************************************************************************)
(* One task: the log tells of each message once, in order, and of none     *)
(* from before a reset.                                                    *)
(***************************************************************************)
InOrder(s) ==
  \A i, j \in 1..Len(s) : i < j => \A a \in s[i].of, b \in s[j].of : a < b

\* s tells, in order, of messages after lo and up to hi.
Tells(s, lo, hi) == InOrder(s) /\ \A i \in 1..Len(s) : s[i].of \subseteq lo + 1 .. hi

\* The same of what the task with job j at stage p will insert, after what is there.
Left(p, j) ==
  /\ p \in {"wipe", "zero"} /\ ~(j.op = "reset" /\ j.phase = 2) => Tells(j.list, resetAt, stored)
  /\ p = "rebuild" => Tells(msgs \o j.list, resetAt, stored)

LogTells ==
  /\ LogCovered
  /\ resetAt \in Nat /\ resetAt <= stored
  /\ Tells(msgs, resetAt, stored)
  /\ \A t \in Tasks : Left(pc[t], job[t])

LEMMA TellsPrefix ==
  ASSUME NEW s \in Seq(Entry), NEW r \in Seq(Entry), NEW lo \in Nat, NEW hi \in Nat,
         Tells(s \o r, lo, hi)
  PROVE  Tells(s, lo, hi)
<1>1. Len(s) \in Nat /\ Len(r) \in Nat /\ Len(s \o r) = Len(s) + Len(r)
  OBVIOUS
<1>2. \A i \in 1..Len(s) : (s \o r)[i] = s[i] /\ i \in 1..Len(s \o r)
  BY <1>1
<1> QED  BY <1>2 DEF Tells, InOrder

\* Storing message hi + 1.
LEMMA TellsMore ==
  ASSUME NEW s \in Seq(Entry), NEW lo \in Nat, NEW hi \in Nat, lo <= hi, Tells(s, lo, hi)
  PROVE  Tells(Append(s, Message(hi + 1)), lo, hi + 1)
<1> DEFINE e == Message(hi + 1)
           r == Append(s, e)
<1>1. e.of = {hi + 1}
  BY DEF Message
<1> HIDE DEF e
<1>2. Len(s) \in Nat /\ Len(r) = Len(s) + 1 /\ r[Len(s) + 1] = e
      /\ \A i \in 1..Len(s) : r[i] = s[i]
  OBVIOUS
<1>3. \A i \in 1..Len(r) : i = Len(s) + 1 \/ i \in 1..Len(s)
  BY <1>2
<1> HIDE DEF r
<1>4. \A i \in 1..Len(s) : r[i].of \subseteq lo + 1 .. hi
  BY <1>2 DEF Tells
<1>5. \A i \in 1..Len(r) : r[i].of \subseteq lo + 1 .. hi + 1
  BY <1>1, <1>2, <1>3, <1>4
<1>6. ASSUME NEW i \in 1..Len(r), NEW j \in 1..Len(r), i < j,
             NEW a \in r[i].of, NEW b \in r[j].of
      PROVE  a < b
  <2>1. i \in 1..Len(s)
    BY <1>2, <1>6
  <2>2. CASE j \in 1..Len(s)
    BY <1>2, <1>6, <2>1, <2>2 DEF Tells, InOrder
  <2>3. CASE j = Len(s) + 1
    <3>1. b = hi + 1 /\ a \in lo + 1 .. hi
      BY <1>1, <1>2, <1>4, <1>6, <2>1, <2>3
    <3> QED  BY <3>1
  <2> QED  BY <1>3, <2>2, <2>3
<1> QED  BY <1>5, <1>6 DEF Tells, InOrder, r, e

\* A compaction's summary tells of messages before those it keeps.
LEMMA TellsRebuilt ==
  ASSUME NEW s \in Seq(Entry), NEW lo \in Nat, NEW hi \in Nat, Tells(s, lo, hi),
         Len(s) >= KeepAtLeast
  PROVE  Tells(Rebuilt(s), lo, hi)
<1> DEFINE k == Kept(Len(s))
           split == Len(s) - k
           told == IF split <= SummaryLines THEN {} ELSE {s[i] : i \in 1..SummaryLines}
           first == Summary(UNION {e.of : e \in told})
           rest == SubSeq(s, split + 1, Len(s))
<1>1. Rebuilt(s) = <<first>> \o rest
  BY DEF Rebuilt
<1>2. k \in 1..Len(s) /\ Len(s) \in Nat /\ SummaryLines \in Nat
  BY RebuiltIs, SessionAssumption DEF SessionAssumption
<1> HIDE DEF k
<1>3. split \in 0..Len(s) /\ split + k = Len(s)
  BY <1>2
<1>4. \A m \in first.of : \E i \in 1..split : m \in s[i].of
  <2>1. first.of = UNION {e.of : e \in told}
    BY DEF Summary
  <2>2. \A e \in told : \E i \in 1..split : e = s[i]
    BY <1>2, <1>3
  <2> HIDE DEF told
  <2> QED  BY <2>1, <2>2
<1> HIDE DEF first
<1>5. Len(rest) = k /\ \A i \in 1..k : rest[i] = s[split + i]
  <2>1. \A i \in split + 1 .. Len(s) : s[i] \in Entry
    BY <1>3, <1>2
  <2>2. /\ rest \in Seq(Entry)
        /\ Len(rest) = IF split + 1 <= Len(s) THEN Len(s) - (split + 1) + 1 ELSE 0
        /\ \A i \in 1 .. Len(s) - (split + 1) + 1 : rest[i] = s[split + 1 + i - 1]
    BY <1>2, <1>3, <2>1, SubSeqProperties
  <2>3. Len(s) - (split + 1) + 1 = k /\ split + 1 <= Len(s)
    BY <1>2, <1>3
  <2>4. \A i \in 1..k : split + 1 + i - 1 = split + i
    BY <1>2, <1>3
  <2> HIDE DEF rest, split
  <2> QED  BY <2>2, <2>3, <2>4
<1>5a. rest \in Seq(Entry)
  BY <1>2, <1>3, SubSeqProperties
<1> DEFINE r == <<first>> \o rest
<1> HIDE DEF rest, split
<1>6. Len(r) = k + 1 /\ r[1] = first /\ \A i \in 2..k + 1 : r[i] = s[split + i - 1]
  <2>1. Len(r) = k + 1 /\ r[1] = first
    BY <1>2, <1>5, <1>5a
  <2>2. ASSUME NEW i \in 2..k + 1 PROVE r[i] = s[split + i - 1]
    <3>1. i - 1 \in 1..k /\ split + (i - 1) = split + i - 1
      BY <1>2, <1>3
    <3>2. r[i] = rest[i - 1]
      BY <1>2, <1>5, <1>5a
    <3> QED  BY <1>5, <3>1, <3>2
  <2> QED  BY <2>1, <2>2
<1> HIDE DEF r
<1>7. \A i \in 2..k + 1 : split + i - 1 \in split + 1 .. Len(s) /\ split + i - 1 \in 1..Len(s)
  BY <1>2, <1>3
<1>8. ASSUME NEW i \in 1..Len(r), NEW m \in r[i].of PROVE m \in lo + 1 .. hi
  <2>1. CASE i = 1
    <3>1. PICK n \in 1..split : m \in s[n].of
      BY <1>4, <1>6, <1>8, <2>1
    <3>2. n \in 1..Len(s)
      BY <1>2, <1>3
    <3> QED  BY <3>1, <3>2 DEF Tells
  <2>2. CASE i \in 2..k + 1
    BY <1>6, <1>7, <1>8, <2>2 DEF Tells
  <2> QED  BY <1>2, <1>6, <2>1, <2>2
<1>9. ASSUME NEW i \in 1..Len(r), NEW j \in 1..Len(r), i < j,
             NEW a \in r[i].of, NEW b \in r[j].of
      PROVE  a < b
  <2>1. j \in 2..k + 1
    BY <1>2, <1>6, <1>9
  <2>2. b \in s[split + j - 1].of /\ split + j - 1 \in 1..Len(s)
    BY <1>6, <1>7, <1>9, <2>1
  <2>3. CASE i = 1
    <3>1. PICK n \in 1..split : a \in s[n].of
      BY <1>4, <1>6, <1>9, <2>3
    <3>2. n \in 1..Len(s) /\ n < split + j - 1
      BY <1>2, <1>3, <2>1
    <3> QED  BY <2>2, <3>1, <3>2 DEF Tells, InOrder
  <2>4. CASE i \in 2..k + 1
    <3>1. a \in s[split + i - 1].of /\ split + i - 1 \in 1..Len(s)
      BY <1>6, <1>7, <1>9, <2>4
    <3>2. split + i - 1 < split + j - 1
      BY <1>3, <1>9
    <3> QED  BY <2>2, <3>1, <3>2 DEF Tells, InOrder
  <2> QED  BY <1>2, <1>6, <2>3, <2>4
<1> QED  BY <1>1, <1>8, <1>9 DEF Tells, InOrder, r

\* What the log and the job of the one task are after its step decides.
LEMMA OneTells ==
  ASSUME OneTask, LogCovered', NEW t \in Tasks, resetAt' \in Nat, resetAt' <= stored',
         Tells(msgs, resetAt, stored)', Left(pc[t], job[t])'
  PROVE  LogTells'
<1>1. \A u \in Tasks : u = t
  BY DEF OneTask
<1> QED  BY <1>1 DEF LogTells

\* The steps that neither write the log nor have something to insert in it next.
LEMMA QuietTells ==
  ASSUME OneTask, LogTells, LogCovered', NEW t \in Tasks, UNCHANGED <<msgs, stored, resetAt>>,
         \/ pc'[t] \notin {"wipe", "zero", "rebuild"}
         \/ pc'[t] = "wipe" /\ job'[t].op = "reset" /\ job'[t].phase = 2
  PROVE  LogTells'
<1>1. Tells(msgs, resetAt, stored)'
  BY DEF LogTells, Tells, InOrder
<1>2. Left(pc[t], job[t])'
  BY DEF Left
<1> QED  BY <1>1, <1>2, OneTells DEF LogTells

\* After a phase.
LEMMA PhaseTells ==
  ASSUME OneTask, LogTells, LogCovered', NEW t \in Tasks, NEW n \in Nat, Advance(t, n),
         pc[t] \in Working, UNCHANGED <<msgs, stored, resetAt>>
  PROVE  LogTells'
<1>1. \/ pc'[t] = "idle"
      \/ /\ pc'[t] \in {"store", "agent", "wipe", "fetch"} /\ job'[t].op = job[t].op
         /\ pc'[t] = "wipe" => job[t].op = "reset" /\ job'[t].phase = 2
  BY Advanced DEF LogTells, LogCovered
<1> QED  BY <1>1, QuietTells

LEMMA LookupTells ==
  ASSUME OneTask, LogTells, LogCovered', NEW t \in Tasks,
         \/ \E op \in AllOps : Request(t, op)
         \/ Find(t) \/ Found(t) \/ Recheck(t) \/ Create(t) \/ Load(t)
         \/ Fetch(t) \/ Read(t) \/ ReadBack(t) \/ StatementFails(t)
  PROVE  LogTells'
<1> USE DEF LogTells, LogCovered
<1>1. pc'[t] \in {"idle", "find", "found", "recheck", "create", "load", "read", "store",
                  "fetched", "readback"}
      /\ UNCHANGED <<msgs, stored, resetAt>>
  <2>1. CASE \E op \in AllOps : Request(t, op)
    BY <2>1, RequestType DEF Request, db
  <2>2. CASE Find(t) \/ Found(t) \/ Recheck(t) \/ Create(t)
    BY <2>2, FindType DEF Find, Found, Recheck, Create, history
  <2>3. CASE Load(t)
    BY <2>3, LoadType DEF Load, history, db
  <2>4. CASE Fetch(t) \/ Read(t)
    BY <2>4, FetchType DEF Fetch, Read, history, db
  <2>5. CASE ReadBack(t)
    BY <2>5, ReadBackType DEF ReadBack, history, db
  <2>6. CASE StatementFails(t)
    BY <2>6, FailType DEF StatementFails, db
  <2> QED  BY <2>1, <2>2, <2>3, <2>4, <2>5, <2>6
<1> QED  BY <1>1, QuietTells

LEMMA EndsTell ==
  ASSUME OneTask, LogTells, LogCovered', NEW t \in Tasks,
         Agent(t) \/ Cleared(t) \/ Compacted(t)
  PROVE  LogTells'
<1> USE DEF LogTells, LogCovered
<1>1. pc[t] \in Working /\ UNCHANGED <<msgs, stored, resetAt>>
  BY DEF Agent, Cleared, Compacted, history, db, Working
<1>2. \E n \in Nat : Advance(t, n)
  BY <1>1, TaskFacts DEF Agent, Cleared, Compacted
<1> QED  BY <1>1, <1>2, PhaseTells

LEMMA StoreTells ==
  ASSUME OneTask, LogTells, LogCovered', NEW t \in Tasks, Store(t)
  PROVE  LogTells'
<1> USE DEF LogTells, LogCovered
<1>1. /\ msgs' = Append(msgs, Message(stored + 1)) /\ stored' = stored + 1
      /\ resetAt' = resetAt /\ pc'[t] = "stored"
  BY StoreType DEF Store, Insert
<1>2. stored \in Nat /\ msgs \in Seq(Entry)
  BY DEF TypeInv
<1>3. Tells(Append(msgs, Message(stored + 1)), resetAt, stored + 1)
  BY <1>2, TellsMore
<1>4. Tells(msgs', resetAt', stored')
  BY <1>1, <1>3
<1>5. Tells(msgs, resetAt, stored)'
  BY <1>4 DEF Tells, InOrder
<1>6. Left(pc[t], job[t])'
  BY <1>1 DEF Left
<1> QED  BY <1>1, <1>2, <1>5, <1>6, OneTells

LEMMA StoredTells ==
  ASSUME OneTask, LogTells, LogCovered', NEW t \in Tasks, Stored(t)
  PROVE  LogTells'
<1> DEFINE n == count[Obj(t)] + 1
<1>1. /\ UNCHANGED <<msgs, stored, resetAt>> /\ pc[t] \in Working
      /\ n \in Nat /\ (pc'[t] = "fetch" \/ Advance(t, n))
  BY StoredType DEF Stored, history, db, Working, LogTells, LogCovered
<1> HIDE DEF n
<1> QED  BY <1>1, QuietTells, PhaseTells

LEMMA FetchedTells ==
  ASSUME OneTask, LogTells, LogCovered', NEW t \in Tasks, Fetched(t)
  PROVE  LogTells'
<1> USE DEF LogTells, LogCovered
<1>1. /\ UNCHANGED <<msgs, stored, resetAt>> /\ pc[t] \in Working /\ pc[t] = "fetched"
      /\ \/ Advance(t, count[Obj(t)])
         \/ /\ Len(job[t].list) >= KeepAtLeast /\ pc'[t] = "wipe"
            /\ job'[t].list = Rebuilt(job[t].list)
  BY FetchedType DEF Fetched, history, db, Working
<1>2. CASE Advance(t, count[Obj(t)])
  BY <1>1, <1>2, PhaseTells, TaskFacts
<1>3. CASE /\ Len(job[t].list) >= KeepAtLeast /\ pc'[t] = "wipe"
           /\ job'[t].list = Rebuilt(job[t].list)
  <2>1. job[t].list = msgs /\ msgs \in Seq(Entry) /\ stored \in Nat
    BY <1>1 DEF Covered, TypeInv
  <2>2. Tells(Rebuilt(msgs), resetAt, stored)
    BY <1>3, <2>1, TellsRebuilt
  <2>3. Tells(job'[t].list, resetAt', stored')
    BY <1>1, <1>3, <2>1, <2>2
  <2>4. Left(pc[t], job[t])'
    BY <1>3, <2>3 DEF Left, Tells, InOrder
  <2>5. Tells(msgs, resetAt, stored)'
    BY <1>1 DEF Tells, InOrder
  <2> QED  BY <1>1, <2>4, <2>5, OneTells
<1> QED  BY <1>1, <1>2, <1>3

LEMMA WipeTells ==
  ASSUME OneTask, LogTells, LogCovered', NEW t \in Tasks, Wipe(t)
  PROVE  LogTells'
<1> USE DEF LogTells, LogCovered
<1>1. /\ pc[t] = "wipe" /\ pc'[t] = "zero" /\ msgs' = <<>> /\ job' = job /\ stored' = stored
      /\ resetAt' = IF Resetting(t) THEN stored ELSE resetAt
      /\ stored \in Nat
  BY WipeType DEF Wipe, TypeInv
<1>2. Tells(msgs, resetAt, stored)'
  <2>1. Len(msgs') = 0
    BY <1>1, EmptySeq
  <2> QED  BY <2>1 DEF Tells, InOrder
<1>3. Left(pc[t], job[t])'
  BY <1>1 DEF Left, Resetting, Tells, InOrder
<1>4. resetAt' \in Nat /\ resetAt' <= stored'
  BY <1>1
<1> QED  BY <1>2, <1>3, <1>4, OneTells

LEMMA ZeroTells ==
  ASSUME OneTask, LogTells, LogCovered', NEW t \in Tasks, Zero(t)
  PROVE  LogTells'
<1> USE DEF LogTells, LogCovered
<1>1. /\ pc[t] = "zero" /\ UNCHANGED <<msgs, stored, resetAt, job>>
      /\ pc'[t] = IF Resetting(t) THEN "cleared" ELSE "rebuild"
  BY ZeroType DEF Zero, history
<1>2. CASE Resetting(t)
  BY <1>1, <1>2, QuietTells
<1>3. CASE ~Resetting(t)
  <2>1. Tells(job[t].list, resetAt, stored) /\ msgs = <<>>
    BY <1>1, <1>3 DEF Left, Resetting, Covered
  <2>2. job[t].list \in Seq(Entry)
    BY <1>1, TaskFacts DEF Working
  <2>3. msgs \o job[t].list = job[t].list
    BY <2>1, <2>2
  <2>4. Tells(msgs' \o job'[t].list, resetAt', stored')
    BY <1>1, <2>1, <2>3
  <2>5. Left(pc[t], job[t])'
    BY <1>1, <1>3, <2>4 DEF Left, Tells, InOrder
  <2>6. Tells(msgs, resetAt, stored)'
    BY <1>1 DEF Tells, InOrder
  <2> QED  BY <1>1, <2>5, <2>6, OneTells
<1> QED  BY <1>2, <1>3

\* Three parts of a log may be joined in either order.
LEMMA Regrouped ==
  ASSUME NEW S, NEW a \in Seq(S), NEW b \in Seq(S), NEW c \in Seq(S)
  PROVE  (a \o b) \o c = a \o (b \o c)
BY ConcatAssociative, SMTT(30)

LEMMA RebuildTells ==
  ASSUME OneTask, LogTells, LogCovered', NEW t \in Tasks, Rebuild(t)
  PROVE  LogTells'
<1> USE DEF LogTells, LogCovered
<1>1. /\ pc[t] = "rebuild" /\ UNCHANGED <<stored, resetAt>>
      /\ pc'[t] \in {"rebuild", "rebuilt"}
      /\ msgs' = Append(msgs, Head(job[t].list)) /\ job'[t].list = Tail(job[t].list)
  BY RebuildType DEF Rebuild, history, Insert
<1>2. /\ job[t].list \in Seq(Entry) /\ job[t].list # <<>> /\ msgs \in Seq(Entry)
      /\ stored \in Nat
  BY <1>1, TaskFacts DEF TypeInv, Fits, Working
<1>3. Tells(msgs \o job[t].list, resetAt, stored)
  BY <1>1 DEF Left
<1> DEFINE all == msgs \o job[t].list
<1>4. PICK new, rest \in Seq(Entry) : new = msgs' /\ rest = job'[t].list /\ all = new \o rest
  <2>1. Head(job[t].list) \in Entry /\ Tail(job[t].list) \in Seq(Entry)
    BY <1>2, HeadTailProperties
  <2>2. job[t].list = <<Head(job[t].list)>> \o Tail(job[t].list)
    BY <1>2
  <2>3. all = Append(msgs, Head(job[t].list)) \o Tail(job[t].list)
    <3> DEFINE one == <<Head(job[t].list)>>
               more == Tail(job[t].list)
    <3>1. /\ Append(msgs, Head(job[t].list)) = msgs \o one
          /\ msgs \in Seq(Entry) /\ one \in Seq(Entry) /\ more \in Seq(Entry)
      BY <1>2, <2>1, AppendIsConcat
    <3> HIDE DEF one, more
    <3>2. (msgs \o one) \o more = msgs \o (one \o more)
      BY <3>1, Regrouped
    <3>3. all = msgs \o (one \o more)
      BY <2>2 DEF one, more
    <3> QED  BY <3>1, <3>2, <3>3 DEF more
  <2>4. Append(msgs, Head(job[t].list)) \in Seq(Entry)
    BY <1>2, <2>1
  <2> QED  BY <1>1, <2>1, <2>3, <2>4
<1> HIDE DEF all
<1>5. Tells(new \o rest, resetAt, stored) /\ Tells(new, resetAt, stored)
  BY <1>2, <1>3, <1>4, TellsPrefix DEF all
<1>6. Tells(msgs' \o job'[t].list, resetAt', stored') /\ Tells(msgs', resetAt', stored')
  BY <1>1, <1>4, <1>5
<1>7. Left(pc[t], job[t])'
  BY <1>1, <1>6 DEF Left, Tells, InOrder
<1>8. Tells(msgs, resetAt, stored)'
  BY <1>6 DEF Tells, InOrder
<1> QED  BY <1>1, <1>7, <1>8, OneTells

LEMMA NextTells ==
  ASSUME OneTask, LogTells, [Next]_vars
  PROVE  LogTells'
<1>0. LogCovered'
  BY NextCovers DEF LogTells
<1>1. ASSUME NEW t \in Tasks, Step(t)
      PROVE  LogTells'
  <2>1. CASE Fetched(t)
    BY <1>0, <2>1, FetchedTells
  <2>2. CASE Wipe(t)
    BY <1>0, <2>2, WipeTells
  <2>3. CASE Zero(t)
    BY <1>0, <2>3, ZeroTells
  <2>4. CASE Rebuild(t)
    BY <1>0, <2>4, RebuildTells
  <2>5. CASE Store(t)
    BY <1>0, <2>5, StoreTells
  <2>6. CASE Stored(t)
    BY <1>0, <2>6, StoredTells
  <2>7. CASE Agent(t) \/ Cleared(t) \/ Compacted(t)
    BY <1>0, <2>7, EndsTell
  <2>8. CASE \/ \E op \in AllOps : Request(t, op)
             \/ Find(t) \/ Found(t) \/ Recheck(t) \/ Create(t) \/ Load(t)
             \/ Fetch(t) \/ Read(t) \/ ReadBack(t) \/ StatementFails(t)
    BY <1>0, <2>8, LookupTells
  <2> QED
    BY <1>1, <2>1, <2>2, <2>3, <2>4, <2>5, <2>6, <2>7, <2>8
       DEF Step, Lookup, AddMessage, Compact
<1>2. CASE Archive \/ UNCHANGED vars
  <2>1. UNCHANGED <<msgs, pc, job, stored, resetAt>>
    BY <1>2 DEF Archive, vars, db, history
  <2>2. Tells(msgs, resetAt, stored)'
    BY <2>1 DEF LogTells, Tells, InOrder
  <2>3. \A t \in Tasks : Left(pc[t], job[t])'
    BY <2>1 DEF LogTells, Left, Tells, InOrder
  <2> QED  BY <1>0, <2>1, <2>2, <2>3 DEF LogTells
<1>3. CASE Crash
  <2>1. UNCHANGED <<msgs, stored, resetAt>> /\ \A t \in Tasks : pc'[t] = "idle"
    BY <1>3, CrashType DEF Crash, db, LogTells, LogCovered
  <2>2. \A t \in Tasks : Left(pc[t], job[t])'
    BY <2>1 DEF Left
  <2> QED  BY <1>0, <2>1, <2>2 DEF LogTells, Tells, InOrder
<1> QED  BY <1>1, <1>2, <1>3 DEF Next

LEMMA StaysTelling ==
  ASSUME OneTask
  PROVE  Spec => []LogTells
<1>1. Init => LogTells
  <2> SUFFICES ASSUME Init PROVE LogTells
    OBVIOUS
  <2>1. Len(msgs) = 0 /\ resetAt = 0 /\ stored = 0
    BY EmptySeq DEF Init
  <2>2. \A t \in Tasks : Left(pc[t], job[t])
    BY DEF Init, Left
  <2> QED  BY <2>1, <2>2, InitCovered DEF LogTells, Tells, InOrder
<1>2. LogTells /\ [Next]_vars => LogTells'
  BY NextTells
<1> QED  BY <1>1, <1>2, PTL DEF Spec

\* OrderedOnce: whatever fails or is archived, and however often it is compacted, the
\* log tells of every message once and in the order in which they were stored; the
\* summary that compact puts first tells only of messages before those it keeps.
THEOREM LogInOrder ==
  ASSUME OneTask
  PROVE  Spec => []OrderedOnce
<1>1. LogTells => OrderedOnce
  <2> SUFFICES ASSUME LogTells PROVE OrderedOnce
    OBVIOUS
  <2>1. DOMAIN msgs = 1..Len(msgs)
    BY DEF LogTells, LogCovered, TypeInv
  <2> QED  BY <2>1 DEF OrderedOnce, LogTells, Tells, InOrder
<1>2. Spec => []LogTells
  BY StaysTelling
<1> QED  BY <1>1, <1>2, PTL

\* NothingReturns: what clear_history deleted for a /reset is in no message and no
\* summary afterwards, though a reset is followed by compactions that write again
\* what they read.
THEOREM ResetIsFinal ==
  ASSUME OneTask
  PROVE  Spec => []NothingReturns
<1>1. LogTells => NothingReturns
  <2> SUFFICES ASSUME LogTells, NEW i \in DOMAIN msgs, NEW m \in msgs[i].of
               PROVE  m > resetAt
    BY DEF NothingReturns
  <2>1. i \in 1..Len(msgs)
    BY DEF LogTells, LogCovered, TypeInv
  <2>2. m \in resetAt + 1 .. stored /\ resetAt \in Nat /\ stored \in Nat
    BY <2>1 DEF LogTells, LogCovered, TypeInv, Tells
  <2> QED  BY <2>2
<1>2. Spec => []LogTells
  BY StaysTelling
<1> QED  BY <1>1, <1>2, PTL

-----------------------------------------------------------------------------
(***************************************************************************)
(* One task: the cache of the object in the map.  A compaction that fails  *)
(* half-way leaves in it messages that are gone; the log is then shorter   *)
(* than the object counts, if the threshold is longer than what is kept.   *)
(***************************************************************************)
LongEnough == KeepAtLeast < Threshold

Begins(list) == \E n \in 0..Len(msgs) : list = SubSeq(msgs, 1, n)

Fresh(o) == cache[o] = NoCache \/ Begins(cache[o]) \/ Len(msgs) < count[o]

\* What the cache is to the task with job j at stage p.
FreshFor(p, j) ==
  LET o == j.obj
      reset == j.op = "reset" /\ j.phase = 2
  IN
  /\ p \in {"store", "agent", "read", "readback", "fetch", "fetched", "wipe"} => Fresh(o)
  /\ p = "readback" => Begins(j.list)
  /\ p \in {"fetch", "fetched"} => Threshold <= count[o]
  /\ p \in {"wipe", "zero"} /\ reset => cache[o] = NoCache \/ Threshold <= count[o]
  /\ p \in {"wipe", "zero"} /\ ~reset => j.n <= count[o]
  /\ p = "rebuild" => j.n <= count[o]

MapFresh == \A t \in Tasks : sessions # NoObject /\ job[t].obj = NoObject => Fresh(sessions)

LogFresh ==
  /\ LogCovered
  /\ DOMAIN cache = Objects
  /\ MapFresh
  /\ \A t \in Tasks : FreshFor(pc[t], job[t])

LEMMA OneFresh ==
  ASSUME OneTask, LogCovered', DOMAIN cache' = Objects, NEW t \in Tasks,
         FreshFor(pc[t], job[t])',
         sessions' # NoObject /\ job'[t].obj = NoObject => Fresh(sessions)'
  PROVE  LogFresh'
<1>1. \A u \in Tasks : u = t
  BY DEF OneTask
<1> QED  BY <1>1 DEF LogFresh, MapFresh

\* A step of a task at work on object o.
LEMMA WorkFresh ==
  ASSUME OneTask, LogFresh, LogCovered', DOMAIN cache' = Objects, NEW t \in Tasks,
         pc[t] \in Working, sessions' = sessions, NEW o, o = job[t].obj,
         FreshFor(pc[t], job[t])', job'[t].obj = NoObject => Fresh(o)'
  PROVE  LogFresh'
<1>1. sessions # NoObject => o = sessions
  BY DEF LogFresh, LogCovered, MapCovers, TypeInv, Fits
<1>2. sessions' # NoObject /\ job'[t].obj = NoObject => Fresh(sessions)'
  BY <1>1 DEF Fresh, Begins
<1> QED  BY <1>2, OneFresh

\* After a phase, with the log and the map as they were.
LEMMA PhaseFresh ==
  ASSUME OneTask, LogFresh, LogCovered', DOMAIN cache' = Objects, NEW t \in Tasks,
         NEW n \in Nat, Advance(t, n), pc[t] \in Working, UNCHANGED <<msgs, sessions>>,
         NEW o, o = job[t].obj, Fresh(o)',
         job[t].phase = 1 => /\ n >= Threshold => Threshold <= count'[o]
                             /\ cache'[o] = NoCache \/ Threshold <= count'[o]
  PROVE  LogFresh'
<1>1. job[t].phase \in Phase /\ job'[t] \in Job
  BY Advanced, TaskFacts DEF LogFresh, LogCovered, Moves, TypeInv
<1>2. CASE pc'[t] = "idle"
  <2>1. FreshFor(pc[t], job[t])'
    BY <1>2 DEF FreshFor
  <2> QED  BY <2>1, WorkFresh
<1>3. CASE /\ pc'[t] \in {"store", "agent", "wipe", "fetch"}
           /\ job'[t].obj = job[t].obj /\ job'[t].op = job[t].op
           /\ pc'[t] = "wipe" => job[t].op = "reset" /\ job'[t].phase = 2
           /\ pc'[t] = "fetch" => job[t].phase = 1 /\ n >= Threshold
  <2>1. pc'[t] \in {"wipe", "fetch"} => job[t].phase = 1
    BY <1>3, Advanced DEF Advance, End, Goto, LogFresh, LogCovered, TypeInv
  <2>2. job'[t].obj = o /\ Fresh(job[t].obj)'
    BY <1>3 DEF Fresh, Begins
  <2>3. FreshFor(pc[t], job[t])'
    BY <1>3, <2>1, <2>2 DEF FreshFor
  <2>4. o # NoObject
    BY DEF LogFresh, LogCovered, TypeInv, Fits
  <2> QED  BY <2>2, <2>3, <2>4, WorkFresh
<1> QED  BY <1>2, <1>3, Advanced DEF LogFresh, LogCovered

LEMMA LookupFresh ==
  ASSUME OneTask, LogFresh, LogCovered', NEW t \in Tasks,
         \/ \E op \in AllOps : Request(t, op)
         \/ Find(t) \/ Found(t) \/ Recheck(t) \/ Create(t)
  PROVE  LogFresh'
<1> USE DEF LogFresh, LogCovered
<1>1. /\ UNCHANGED <<msgs, objs>> /\ pc[t] \notin Working
      /\ \/ pc'[t] \in {"idle", "find", "found", "recheck", "create", "load"}
         \/ /\ pc'[t] \in {"read", "store"} /\ sessions # NoObject
            /\ job'[t].obj = sessions
  <2>1. CASE \E op \in AllOps : Request(t, op)
    BY <2>1, RequestType DEF Request, objs, db, Working
  <2>2. CASE Find(t) \/ Found(t) \/ Recheck(t) \/ Create(t)
    BY <2>2, FindType DEF Find, Found, Recheck, Create, Working
  <2> QED  BY <2>1, <2>2
<1>2. job[t].obj = NoObject
  BY <1>1 DEF TypeInv, Fits
<1>3. PICK o : o = sessions
  OBVIOUS
<1>4. o # NoObject => Fresh(o) /\ Fresh(o)'
  BY <1>1, <1>2, <1>3 DEF MapFresh, Fresh, Begins, objs
<1>5. sessions' # NoObject => Fresh(sessions)'
  BY <1>1, <1>3, <1>4 DEF Fresh, Begins, objs
<1>6. FreshFor(pc[t], job[t])'
  <2>1. pc'[t] \in {"read", "store"} => job'[t].obj = o /\ Fresh(job[t].obj)'
    BY <1>1, <1>3, <1>4 DEF Fresh, Begins
  <2> QED  BY <1>1, <2>1 DEF FreshFor
<1> QED  BY <1>1, <1>5, <1>6, OneFresh DEF objs

LEMMA LoadFresh ==
  ASSUME OneTask, LogFresh, LogCovered', NEW t \in Tasks, Load(t)
  PROVE  LogFresh'
<1> USE DEF LogFresh, LogCovered
<1>1. /\ pc'[t] \in {"read", "store"} /\ sessions' \in Objects /\ job'[t].obj = sessions'
      /\ sessions' # NoObject
  BY LoadType, SessionAssumption DEF SessionAssumption
<1>2. cache' = [cache EXCEPT ![sessions'] = NoCache]
  BY DEF Load
<1>3. cache'[sessions'] = NoCache /\ DOMAIN cache' = Objects
  BY <1>1, <1>2
<1>4. FreshFor(pc[t], job[t])'
  BY <1>1, <1>3 DEF FreshFor, Fresh
<1> QED  BY <1>1, <1>3, <1>4, OneFresh

LEMMA StoreFresh ==
  ASSUME OneTask, LogFresh, LogCovered', NEW t \in Tasks, Store(t)
  PROVE  LogFresh'
<1> USE DEF LogFresh, LogCovered
<1>1. pc[t] \in Working /\ pc'[t] = "stored" /\ job' = job /\ UNCHANGED objs
  BY StoreType DEF Store, Working
<1>2. job[t].obj # NoObject
  BY <1>1 DEF TypeInv, Fits
<1>3. FreshFor(pc[t], job[t])'
  BY <1>1 DEF FreshFor
<1> QED  BY <1>1, <1>2, <1>3, WorkFresh DEF objs

LEMMA StoredFresh ==
  ASSUME OneTask, LogFresh, LogCovered', NEW t \in Tasks, Stored(t)
  PROVE  LogFresh'
<1> USE DEF LogFresh, LogCovered
<1>1. PICK o \in Objects : o = job[t].obj
  BY TaskFacts DEF Stored, Working, Obj
<1>2. PICK n \in Nat : n = count[o] + 1
  BY <1>1 DEF TypeInv
<1>3. /\ pc[t] \in Working /\ UNCHANGED <<msgs, sessions>> /\ o # NoObject
      /\ count' = [count EXCEPT ![o] = n] /\ cache' = [cache EXCEPT ![o] = NoCache]
      /\ \/ pc'[t] = "fetch" /\ job'[t].obj = o /\ n >= Threshold
         \/ Advance(t, n)
  BY <1>1, <1>2, StoredType, SessionAssumption
     DEF Stored, Working, db, Obj, DropCache, Due, SessionAssumption
<1>4. count'[o] = n /\ cache'[o] = NoCache /\ DOMAIN cache' = Objects
  BY <1>3 DEF TypeInv
<1>5. Threshold \in Nat /\ (n >= Threshold => Threshold <= n)
  BY SessionAssumption DEF SessionAssumption
<1>6. Fresh(o)'
  BY <1>4 DEF Fresh
<1>7. CASE pc'[t] = "fetch" /\ job'[t].obj = o /\ n >= Threshold
  <2>1. FreshFor(pc[t], job[t])'
    BY <1>4, <1>5, <1>7 DEF FreshFor, Fresh
  <2> QED  BY <1>1, <1>3, <1>4, <1>6, <2>1, WorkFresh
<1>8. CASE Advance(t, n)
  BY <1>1, <1>3, <1>4, <1>5, <1>6, <1>8, PhaseFresh
<1> QED  BY <1>3, <1>7, <1>8

\* What has been read is the beginning of the log.
LEMMA FirstBegins ==
  ASSUME msgs \in Seq(Entry), NEW n \in Nat
  PROVE  Begins(First(msgs, n))
<1>1. Shorter(n, Len(msgs)) \in 0..Len(msgs)
  BY DEF Shorter
<1> QED  BY <1>1 DEF Begins, First

LEMMA ReadFresh ==
  ASSUME OneTask, LogFresh, LogCovered', NEW t \in Tasks, Fetch(t) \/ Read(t)
  PROVE  LogFresh'
<1> USE DEF LogFresh, LogCovered
<1>1. PICK o \in Objects : o = job[t].obj
  BY TaskFacts DEF Fetch, Read, Working, Obj
<1>2. /\ pc[t] \in Working /\ UNCHANGED <<msgs, objs>> /\ o # NoObject
      /\ job'[t].list = First(msgs, job[t].n) /\ job'[t].obj = o /\ job[t].n \in Nat
      /\ \/ pc[t] = "fetch" /\ pc'[t] = "fetched"
         \/ pc[t] = "read" /\ pc'[t] = "readback"
  BY <1>1, FetchType, TaskFacts, SessionAssumption DEF Fetch, Read, Working, db, SessionAssumption
<1>3. Fresh(o) /\ (pc[t] = "fetch" => Threshold <= count[o])
  BY <1>1, <1>2 DEF FreshFor
<1>4. Begins(job'[t].list)
  BY <1>2, FirstBegins DEF TypeInv
<1>5. FreshFor(pc[t], job[t])'
  BY <1>2, <1>3, <1>4 DEF FreshFor, Fresh, Begins, objs
<1> QED  BY <1>1, <1>2, <1>5, WorkFresh DEF objs

LEMMA ReadBackFresh ==
  ASSUME OneTask, LogFresh, LogCovered', NEW t \in Tasks, ReadBack(t)
  PROVE  LogFresh'
<1> USE DEF LogFresh, LogCovered
<1>1. PICK o \in Objects : o = job[t].obj
  BY TaskFacts DEF ReadBack, Working, Obj
<1>2. /\ pc[t] = "readback" /\ pc[t] \in Working /\ UNCHANGED <<msgs, sessions>> /\ pc'[t] = "idle"
      /\ cache' = [cache EXCEPT ![o] = job[t].list]
  BY <1>1, ReadBackType DEF ReadBack, Working, db, Obj
<1>3. cache'[o] = job[t].list /\ DOMAIN cache' = Objects /\ Begins(job[t].list)
  BY <1>2 DEF FreshFor
<1>4. Fresh(o)'
  BY <1>2, <1>3 DEF Fresh, Begins
<1>5. FreshFor(pc[t], job[t])'
  BY <1>2 DEF FreshFor
<1> QED  BY <1>1, <1>2, <1>3, <1>4, <1>5, WorkFresh

\* A compaction leaves fewer entries than the object counts.
LEMMA RebuiltShorter ==
  ASSUME LongEnough, NEW s \in Seq(Entry), Len(s) >= KeepAtLeast,
         NEW c \in Nat, Len(s) <= c, Threshold <= c
  PROVE  Len(Rebuilt(s)) <= c
<1>1. /\ Len(Rebuilt(s)) = Kept(Len(s)) + 1
      /\ KeepAtLeast \in Nat \ {0} /\ Threshold \in Nat /\ Len(s) \in Nat
  BY RebuiltIs, SessionAssumption DEF SessionAssumption
<1>2. CASE Kept(Len(s)) = KeepAtLeast
  BY <1>1, <1>2 DEF LongEnough
<1>3. CASE Kept(Len(s)) = Len(s) \div 5
  <2>1. Len(s) \div 5 + 1 <= Len(s)
    BY <1>1
  <2> QED  BY <1>1, <1>3, <2>1
<1> QED  BY <1>2, <1>3 DEF Kept, Longer

LEMMA FetchedFresh ==
  ASSUME OneTask, LongEnough, LogFresh, LogCovered', NEW t \in Tasks, Fetched(t)
  PROVE  LogFresh'
<1> USE DEF LogFresh, LogCovered
<1>1. PICK o \in Objects : o = job[t].obj
  BY TaskFacts DEF Fetched, Working, Obj
<1>2. /\ pc[t] = "fetched" /\ pc[t] \in Working /\ UNCHANGED <<msgs, sessions, count>>
      /\ o # NoObject /\ cache' = [cache EXCEPT ![o] = job[t].list] /\ count[o] \in Nat
      /\ \/ Advance(t, count[o])
         \/ /\ Len(job[t].list) >= KeepAtLeast /\ pc'[t] = "wipe" /\ job'[t].obj = o
            /\ job'[t].n = Len(Rebuilt(job[t].list))
  BY <1>1, FetchedType, SessionAssumption DEF Fetched, Working, db, Obj, TypeInv, SessionAssumption
<1>3. /\ job[t].list = msgs /\ Len(msgs) <= count[o] /\ Threshold <= count[o]
      /\ msgs \in Seq(Entry)
  BY <1>1, <1>2 DEF Covered, FreshFor, TypeInv
<1>4. cache'[o] = msgs /\ DOMAIN cache' = Objects
  BY <1>2, <1>3
<1>5. Fresh(o)'
  <2>1. msgs = SubSeq(msgs, 1, Len(msgs)) /\ Len(msgs) \in 0..Len(msgs)
    BY <1>3, SubSeqFull
  <2> QED  BY <1>2, <1>4, <2>1 DEF Fresh, Begins
<1>6. CASE Advance(t, count[o])
  BY <1>1, <1>2, <1>3, <1>4, <1>5, <1>6, PhaseFresh
<1>7. CASE /\ Len(msgs) >= KeepAtLeast /\ pc'[t] = "wipe" /\ job'[t].obj = o
           /\ job'[t].n = Len(Rebuilt(msgs))
  <2>1. job'[t].n <= count[o]
    BY <1>2, <1>3, <1>7, RebuiltShorter
  <2>2. FreshFor(pc[t], job[t])'
    BY <1>2, <1>3, <1>5, <1>7, <2>1 DEF FreshFor, Fresh, Begins
  <2> QED  BY <1>1, <1>2, <1>4, <1>5, <2>2, <1>7, WorkFresh
<1> QED  BY <1>2, <1>3, <1>6, <1>7

LEMMA RewriteFresh ==
  ASSUME OneTask, LogFresh, LogCovered', NEW t \in Tasks, Wipe(t) \/ Zero(t) \/ Rebuild(t)
  PROVE  LogFresh'
<1> USE DEF LogFresh, LogCovered
<1>1. PICK o \in Objects : o = job[t].obj
  BY TaskFacts DEF Wipe, Zero, Rebuild, Working, Obj
<1>2. pc[t] \in Working /\ UNCHANGED objs /\ o # NoObject
  BY <1>1, SessionAssumption DEF Wipe, Zero, Rebuild, Working, SessionAssumption
<1>3. /\ job'[t].obj = o /\ job'[t].n = job[t].n
      /\ \/ pc[t] = "wipe" /\ pc'[t] = "zero" /\ job' = job
         \/ pc[t] = "zero" /\ pc'[t] = "cleared"
         \/ pc[t] = "zero" /\ pc'[t] = "rebuild" /\ ~Resetting(t)
         \/ pc[t] = "rebuild" /\ pc'[t] \in {"rebuild", "rebuilt"}
  <2>1. CASE Wipe(t)
    BY <1>1, <2>1, WipeType DEF Wipe
  <2>2. CASE Zero(t)
    BY <1>1, <2>2, ZeroType DEF Zero
  <2>3. CASE Rebuild(t)
    BY <1>1, <2>3, RebuildType DEF Rebuild
  <2> QED  BY <2>1, <2>2, <2>3
<1>4. FreshFor(pc[t], job[t])'
  BY <1>1, <1>2, <1>3 DEF FreshFor, objs, Resetting
<1> QED  BY <1>1, <1>2, <1>3, <1>4, WorkFresh DEF objs

LEMMA EndsFresh ==
  ASSUME OneTask, LogFresh, LogCovered', NEW t \in Tasks,
         Agent(t) \/ Cleared(t) \/ Compacted(t)
  PROVE  LogFresh'
<1> USE DEF LogFresh, LogCovered
<1>1. PICK o \in Objects : o = job[t].obj
  BY TaskFacts DEF Agent, Cleared, Compacted, Working, Obj
<1>2. pc[t] \in Working /\ UNCHANGED <<msgs, sessions>> /\ job[t].n \in Nat
  BY TaskFacts DEF Agent, Cleared, Compacted, Working, objs, db
<1>3. CASE Agent(t)
  <2>1. /\ Advance(t, 0) /\ UNCHANGED <<cache, count>> /\ job[t].phase = 2 /\ Fresh(o)
    BY <1>1, <1>3 DEF Agent, objs, TypeInv, Fits, FreshFor
  <2>2. Fresh(o)'
    BY <1>2, <2>1 DEF Fresh, Begins
  <2> QED  BY <1>1, <1>2, <2>1, <2>2, PhaseFresh
<1>4. CASE Cleared(t)
  <2>1. /\ Advance(t, 0) /\ cache' = [cache EXCEPT ![o] = NoCache] /\ job[t].phase = 2
    BY <1>1, <1>4 DEF Cleared, DropCache, Obj, TypeInv, Fits
  <2>2. Fresh(o)' /\ DOMAIN cache' = Objects
    BY <2>1 DEF Fresh
  <2> QED  BY <1>1, <1>2, <2>1, <2>2, PhaseFresh
<1>5. CASE Compacted(t)
  <2>1. PICK n \in Nat : n = job[t].n
    BY <1>2
  <2>2. /\ Advance(t, n) /\ cache' = [cache EXCEPT ![o] = NoCache]
        /\ count' = [count EXCEPT ![o] = n]
    BY <1>1, <1>5, <2>1 DEF Compacted, DropCache, Obj
  <2>3. Fresh(o)' /\ DOMAIN cache' = Objects /\ cache'[o] = NoCache /\ count'[o] = n
    BY <2>2 DEF Fresh, TypeInv
  <2>4. n >= Threshold => Threshold <= n
    BY SessionAssumption DEF SessionAssumption
  <2> QED  BY <1>1, <1>2, <2>2, <2>3, <2>4, PhaseFresh
<1> QED  BY <1>3, <1>4, <1>5

LEMMA FailFresh ==
  ASSUME OneTask, LongEnough, LogFresh, LogCovered', NEW t \in Tasks, StatementFails(t)
  PROVE  LogFresh'
<1> USE DEF LogFresh, LogCovered
<1>1. /\ UNCHANGED <<msgs, objs>>
      /\ \/ pc'[t] = "idle" /\ job'[t].obj = NoObject
         \/ /\ pc[t] \in Working /\ pc'[t] = "store" /\ job'[t].obj = job[t].obj
  BY FailType DEF db, NoJob
<1>2. CASE pc[t] \notin Working
  <2>1. job[t].obj = NoObject /\ pc'[t] = "idle"
    BY <1>1, <1>2 DEF TypeInv, Fits
  <2>2. sessions' # NoObject => Fresh(sessions)'
    BY <1>1, <2>1 DEF MapFresh, Fresh, Begins, objs
  <2>3. FreshFor(pc[t], job[t])'
    BY <2>1 DEF FreshFor
  <2> QED  BY <1>1, <2>2, <2>3, OneFresh DEF objs
<1>3. CASE pc[t] \in Working
  <2>1. PICK o \in Objects : o = job[t].obj
    BY <1>3, TaskFacts DEF Obj
  <2>2. /\ pc[t] \in {"store", "fetch", "wipe", "zero", "rebuild", "read"}
        /\ count[o] \in Nat /\ job[t].n \in Nat /\ o # NoObject
    BY <1>3, <2>1, TaskFacts, SessionAssumption DEF StatementFails, Working, Obj, SessionAssumption
  <2>3. Fresh(o)
    <3>1. CASE pc[t] \in {"store", "fetch", "wipe", "read"}
      BY <2>1, <3>1 DEF FreshFor
    <3>2. CASE pc[t] = "zero"
      <4>1. Len(msgs) = 0
        BY <3>2, EmptySeq DEF Covered
      <4>2. CASE Resetting(t)
        <5>1. cache[o] = NoCache \/ Threshold <= count[o]
          BY <2>1, <3>2, <4>2 DEF FreshFor, Resetting
        <5>2. 0 < Threshold /\ Threshold \in Nat
          BY SessionAssumption DEF LongEnough, SessionAssumption
        <5> QED  BY <2>2, <4>1, <5>1, <5>2 DEF Fresh
      <4>3. CASE ~Resetting(t)
        <5>1. /\ job[t].n <= count[o] /\ Len(job[t].list) = job[t].n
              /\ job[t].list # <<>> /\ job[t].list \in Seq(Entry)
          BY <1>3, <2>1, <3>2, <4>3, TaskFacts DEF FreshFor, Resetting, Covered, TypeInv, Fits
        <5>2. Len(job[t].list) \in Nat \ {0}
          BY <5>1, EmptySeq
        <5> QED  BY <2>2, <4>1, <5>1, <5>2 DEF Fresh
      <4> QED  BY <4>2, <4>3
    <3>3. CASE pc[t] = "rebuild"
      <4>1. /\ Len(msgs) + Len(job[t].list) = job[t].n /\ job[t].n <= count[o]
            /\ job[t].list # <<>> /\ job[t].list \in Seq(Entry) /\ msgs \in Seq(Entry)
        BY <1>3, <2>1, <3>3, TaskFacts DEF Covered, FreshFor, TypeInv, Fits
      <4>2. Len(job[t].list) \in Nat \ {0} /\ Len(msgs) \in Nat
        BY <4>1, EmptySeq
      <4> QED  BY <2>2, <4>1, <4>2 DEF Fresh
    <3> QED  BY <2>2, <3>1, <3>2, <3>3
  <2>4. Fresh(o)'
    BY <1>1, <2>3 DEF Fresh, Begins, objs
  <2>5. FreshFor(pc[t], job[t])'
    BY <1>1, <2>1, <2>4 DEF FreshFor, Fresh, Begins
  <2> QED  BY <1>1, <1>3, <2>1, <2>4, <2>5, WorkFresh DEF objs
<1> QED  BY <1>2, <1>3

LEMMA NextFresh ==
  ASSUME OneTask, LongEnough, LogFresh, [Next]_vars
  PROVE  LogFresh'
<1>0. LogCovered'
  BY NextCovers DEF LogFresh
<1>1. ASSUME NEW t \in Tasks, Step(t)
      PROVE  LogFresh'
  <2>1. CASE (\E op \in AllOps : Request(t, op)) \/ Find(t) \/ Found(t) \/ Recheck(t) \/ Create(t)
    BY <1>0, <2>1, LookupFresh
  <2>2. CASE Load(t)
    BY <1>0, <2>2, LoadFresh
  <2>3. CASE Store(t)
    BY <1>0, <2>3, StoreFresh
  <2>4. CASE Stored(t)
    BY <1>0, <2>4, StoredFresh
  <2>5. CASE Agent(t) \/ Cleared(t) \/ Compacted(t)
    BY <1>0, <2>5, EndsFresh
  <2>6. CASE Fetch(t) \/ Read(t)
    BY <1>0, <2>6, ReadFresh
  <2>7. CASE Fetched(t)
    BY <1>0, <2>7, FetchedFresh
  <2>8. CASE Wipe(t) \/ Zero(t) \/ Rebuild(t)
    BY <1>0, <2>8, RewriteFresh
  <2>9. CASE ReadBack(t)
    BY <1>0, <2>9, ReadBackFresh
  <2>10. CASE StatementFails(t)
    BY <1>0, <2>10, FailFresh
  <2> QED
    BY <1>1, <2>1, <2>2, <2>3, <2>4, <2>5, <2>6, <2>7, <2>8, <2>9, <2>10
       DEF Step, Lookup, AddMessage, Compact
<1>2. CASE Archive \/ Crash
  <2>1. sessions' = NoObject /\ UNCHANGED <<msgs, count, cache>>
    BY <1>2 DEF Archive, Crash, db
  <2>2. \A t \in Tasks : FreshFor(pc[t], job[t])'
    <3>1. CASE Archive
      BY <2>1, <3>1 DEF Archive, FreshFor, Fresh, Begins, LogFresh
    <3>2. CASE Crash
      <4>1. \A t \in Tasks : pc'[t] = "idle"
        BY <3>2 DEF Crash
      <4> QED  BY <4>1 DEF FreshFor
    <3> QED  BY <1>2, <3>1, <3>2
  <2> QED  BY <1>0, <2>1, <2>2 DEF LogFresh, MapFresh
<1>3. CASE UNCHANGED vars
  <2>1. UNCHANGED <<msgs, sessions, count, cache, pc, job>>
    BY <1>3 DEF vars, db, objs
  <2>2. MapFresh'
    BY <2>1 DEF LogFresh, MapFresh, Fresh, Begins
  <2>3. \A t \in Tasks : FreshFor(pc[t], job[t])'
    BY <2>1 DEF LogFresh, FreshFor, Fresh, Begins
  <2> QED  BY <1>0, <2>1, <2>2, <2>3 DEF LogFresh
<1> QED  BY <1>1, <1>2, <1>3 DEF Next

\* CacheFresh: when nobody is at work, what get_history has cached in the object of
\* the map is a part of the log as it is now, or the object's message_count tells
\* that it is not so; for a threshold above the messages kept (80 and 10 by default).
THEOREM SessionCacheIsFresh ==
  ASSUME OneTask, LongEnough
  PROVE  Spec => []CacheFresh
<1>1. Init => LogFresh
  <2> SUFFICES ASSUME Init PROVE LogFresh
    OBVIOUS
  <2>1. \A t \in Tasks : FreshFor(pc[t], job[t])
    BY DEF Init, FreshFor
  <2>2. MapFresh /\ DOMAIN cache = Objects
    BY DEF Init, MapFresh
  <2> QED  BY <2>1, <2>2, InitCovered DEF LogFresh
<1>2. LogFresh /\ [Next]_vars => LogFresh'
  BY NextFresh
<1>3. LogFresh => CacheFresh
  <2> SUFFICES ASSUME LogFresh, sessions # NoObject, \A t \in Tasks : pc[t] = "idle",
                      cache[sessions] # NoCache, count[sessions] = Len(msgs)
               PROVE  \E a, n \in 0..Len(msgs) : cache[sessions] = SubSeq(msgs, a + 1, n)
    BY DEF CacheFresh
  <2>1. PICK t \in Tasks : TRUE
    BY DEF OneTask
  <2>2. job[t].obj = NoObject
    BY <2>1 DEF LogFresh, LogCovered, TypeInv, Fits, Working
  <2>3. Fresh(sessions)
    BY <2>1, <2>2 DEF LogFresh, MapFresh
  <2>4. Len(msgs) \in Nat
    BY DEF LogFresh, LogCovered, TypeInv
  <2>5. PICK n \in 0..Len(msgs) : cache[sessions] = SubSeq(msgs, 1, n)
    BY <2>3, <2>4 DEF Fresh, Begins
  <2>6. 0 \in 0..Len(msgs) /\ 0 + 1 = 1
    BY <2>4
  <2> QED  BY <2>5, <2>6
<1> QED  BY <1>1, <1>2, <1>3, PTL DEF Spec

-----------------------------------------------------------------------------
(***************************************************************************)
(* Any number of tasks: below the threshold nothing is lost.               *)
(***************************************************************************)
NoReset == "reset" \notin Ops

Compacting == {"fetch", "fetched", "wipe", "zero", "rebuild", "rebuilt", "cleared"}

\* The tasks that have stored a message which object o does not count yet.
Pending(o) == {t \in Tasks : pc[t] = "stored" /\ Obj(t) = o}

RowCount == IF row = NoRow THEN 0 ELSE row

\* The row counts the log, and each object, with what is pending, at most the row:
\* so no task finds that its message is the one to compact after.
Below ==
  /\ msgs = [i \in 1..stored |-> Message(i)]
  /\ RowCount = stored
  /\ \A t \in Tasks : pc[t] \notin Compacting /\ (pc[t] = "load" => job[t].row <= row)
  /\ \A o \in Objects : count[o] + Cardinality(Pending(o)) <= RowCount

LogKept ==
  /\ TypeInv
  /\ \A t \in Tasks : job[t].op \in Ops \cup {"none"}
  /\ stored < Threshold => Below

LEMMA PendingIs ==
  \A o \in Objects : IsFiniteSet(Pending(o)) /\ Cardinality(Pending(o)) \in Nat
<1> TAKE o \in Objects
<1>1. Pending(o) \subseteq Tasks /\ IsFiniteSet(Tasks)
  BY SessionAssumption DEF Pending, SessionAssumption
<1> QED  BY <1>1, FS_Subset, FS_CardinalityType

\* A step that stores no message and counts none.
LEMMA QuietKept ==
  ASSUME LogKept, NEW t \in Tasks, TypeInv', Moves(t), UNCHANGED <<msgs, stored, count>>,
         row' = row \/ (row = NoRow /\ row' = 0), job'[t].op \in Ops \cup {"none"},
         pc[t] # "stored", pc'[t] \notin Compacting \cup {"stored"},
         pc'[t] = "load" => job'[t].row <= row'
  PROVE  LogKept'
<1>1. \A u \in Tasks : job'[u].op \in Ops \cup {"none"}
  BY DEF LogKept, Moves
<1>2. ASSUME stored < Threshold PROVE Below'
  <2>1. Below
    BY <1>2 DEF LogKept
  <2>2. RowCount' = RowCount /\ (row # NoRow => row' = row)
    BY DEF RowCount, NoRow
  <2>3. \A u \in Tasks : pc'[u] \notin Compacting /\ (pc'[u] = "load" => job'[u].row <= row')
    <3> TAKE u \in Tasks
    <3>1. CASE u # t
      <4>1. pc'[u] = pc[u] /\ job'[u] = job[u] /\ (pc[u] = "load" => row \in Nat)
        BY <3>1 DEF Moves, LogKept, TypeInv, HasRow
      <4> QED  BY <2>1, <2>2, <4>1 DEF Below, NoRow
    <3> QED  BY <3>1
  <2>4. \A o \in Objects : Pending(o)' = Pending(o)
    BY DEF Pending, Moves, Obj
  <2>5. \A o \in Objects : (count[o] + Cardinality(Pending(o)))' = count[o] + Cardinality(Pending(o))
    BY <2>4
  <2> QED  BY <2>1, <2>2, <2>3, <2>5 DEF Below
<1> QED  BY <1>1, <1>2 DEF LogKept

\* Where a phase ends that has counted n < Threshold messages.
LEMMA PhaseKept ==
  ASSUME NoReset, LogKept, NEW t \in Tasks, NEW n \in Nat, Advance(t, n), pc[t] \in Working,
         job[t].phase = 1 => n < Threshold
  PROVE  pc'[t] \in {"idle", "store", "agent"} /\ job'[t].op \in Ops \cup {"none"}
<1>1. Threshold \in Nat /\ job[t].op \in Ops \cup {"none"}
  BY SessionAssumption DEF SessionAssumption, LogKept
<1>2. \/ pc'[t] = "idle" /\ job'[t] = NoJob
      \/ /\ pc'[t] \in {"store", "agent", "wipe", "fetch"} /\ job'[t].op = job[t].op
         /\ pc'[t] = "wipe" => job[t].op = "reset"
         /\ pc'[t] = "fetch" => job[t].phase = 1 /\ n >= Threshold
  BY Advanced DEF LogKept
<1> QED  BY <1>1, <1>2 DEF NoReset, NoJob

LEMMA StoreKept ==
  ASSUME LogKept, NEW t \in Tasks, Store(t)
  PROVE  LogKept'
<1> USE DEF LogKept
<1>1. /\ TypeInv' /\ Moves(t) /\ pc'[t] = "stored" /\ job' = job /\ stored' = stored + 1
      /\ row' = row + 1
  BY StoreType
<1>2. pc[t] = "store" /\ count' = count /\ msgs' = Append(msgs, Message(stored + 1))
  BY DEF Store, objs, Insert
<1>3. row \in Nat /\ Obj(t) \in Objects /\ stored \in Nat /\ Threshold \in Nat
  BY <1>2, TaskFacts, SessionAssumption DEF Working, SessionAssumption, TypeInv
<1>4. ASSUME stored' < Threshold PROVE Below'
  <2>1. Below
    BY <1>1, <1>3, <1>4
  <2>2. msgs' = [i \in 1..stored' |-> Message(i)]
    BY <1>1, <1>2, <1>3, <2>1 DEF Below
  <2>3. RowCount = row /\ RowCount' = row + 1 /\ RowCount' = stored'
    BY <1>1, <1>3, <2>1 DEF Below, RowCount, NoRow
  <2>4. \A u \in Tasks : pc'[u] \notin Compacting /\ (pc'[u] = "load" => job'[u].row <= row')
    <3> TAKE u \in Tasks
    <3>1. CASE u # t
      <4>1. pc'[u] = pc[u] /\ job'[u] = job[u] /\ (pc[u] = "load" => job[u].row \in Nat)
        BY <3>1, <1>1 DEF Moves, TypeInv, Fits
      <4> QED  BY <1>1, <1>3, <2>1, <4>1 DEF Below
    <3> QED  BY <3>1, <1>1 DEF Compacting
  <2>5. ASSUME NEW o \in Objects
        PROVE  count'[o] + Cardinality(Pending(o))' <= RowCount'
    <3>1. count[o] + Cardinality(Pending(o)) <= row /\ count[o] \in Nat
      BY <2>1, <2>3 DEF Below, TypeInv
    <3>2. IsFiniteSet(Pending(o)) /\ Cardinality(Pending(o)) \in Nat
      BY PendingIs
    <3>3. Cardinality(Pending(o))' \in {Cardinality(Pending(o)), Cardinality(Pending(o)) + 1}
      <4>1. CASE Obj(t) = o
        <5>1. Pending(o)' = Pending(o) \cup {t}
          BY <1>1, <4>1 DEF Pending, Obj, Moves
        <5> QED  BY <3>2, <5>1, FS_AddElement
      <4>2. CASE Obj(t) # o
        <5>1. Pending(o)' = Pending(o)
          BY <1>1, <1>2, <4>2 DEF Pending, Obj, Moves
        <5> QED  BY <5>1
      <4> QED  BY <4>1, <4>2
    <3> QED  BY <1>2, <1>3, <2>3, <3>1, <3>2, <3>3
  <2> QED  BY <2>2, <2>3, <2>4, <2>5 DEF Below
<1> QED  BY <1>1, <1>4

LEMMA StoredKept ==
  ASSUME NoReset, LogKept, NEW t \in Tasks, Stored(t)
  PROVE  LogKept'
<1> DEFINE n == count[Obj(t)] + 1
<1> USE DEF LogKept
<1>1. /\ TypeInv' /\ Moves(t) /\ UNCHANGED <<row, msgs, stored>>
      /\ count' = [count EXCEPT ![Obj(t)] = n] /\ n \in Nat
      /\ \/ Due(n) /\ job'[t].op = job[t].op
         \/ ~Due(n) /\ Advance(t, n)
  BY StoredType DEF db
<1>2. pc[t] = "stored" /\ pc[t] \in Working
  BY DEF Stored, Working
<1>3. Obj(t) \in Objects /\ stored \in Nat /\ Threshold \in Nat /\ count[Obj(t)] \in Nat
  BY <1>2, TaskFacts, SessionAssumption DEF SessionAssumption, TypeInv
<1> HIDE DEF n
<1>4. \A u \in Tasks : job'[u].op \in Ops \cup {"none"}
  <2>1. job'[t].op \in {job[t].op, "none"}
    BY <1>1, <1>2, Advanced DEF NoJob
  <2> QED  BY <1>1, <2>1 DEF Moves
<1>5. ASSUME stored < Threshold PROVE Below'
  <2>1. Below
    BY <1>5
  <2>2. \A o \in Objects : /\ Cardinality(Pending(o)) \in Nat /\ IsFiniteSet(Pending(o))
                           /\ count[o] + Cardinality(Pending(o)) <= stored /\ count[o] \in Nat
    BY <2>1, PendingIs DEF Below, TypeInv
  <2>3. LET left == Pending(Obj(t)) \ {t} IN
        Cardinality(left) \in Nat /\ Cardinality(Pending(Obj(t))) = Cardinality(left) + 1
    <3>1. t \in Pending(Obj(t))
      BY <1>2 DEF Pending
    <3> DEFINE all == Pending(Obj(t))
    <3>2. IsFiniteSet(all) /\ Cardinality(all) \in Nat
      BY <1>3, <2>2
    <3> HIDE DEF all
    <3>3. IsFiniteSet(all \ {t}) /\ (t \in all => Cardinality(all \ {t}) = Cardinality(all) - 1)
      BY <3>2, FS_RemoveElement
    <3>4. Cardinality(all \ {t}) \in Nat
      BY <3>3, FS_CardinalityType
    <3>5. t \in all => Cardinality(all) = Cardinality(all \ {t}) + 1
      BY <3>2, <3>3, <3>4
    <3> QED  BY <3>1, <3>4, <3>5 DEF all
  <2>4. n <= stored /\ n < Threshold
    BY <1>3, <1>5, <2>2, <2>3 DEF n
  <2>5. pc'[t] \in {"idle", "store", "agent"}
    <3>1. Advance(t, n)
      BY <1>1, <1>3, <2>4 DEF Due
    <3> QED  BY <1>1, <1>2, <2>4, <3>1, PhaseKept
  <2>6. \A u \in Tasks : pc'[u] \notin Compacting /\ (pc'[u] = "load" => job'[u].row <= row')
    BY <1>1, <2>1, <2>5 DEF Below, Moves, Compacting
  <2>7. ASSUME NEW o \in Objects
        PROVE  count'[o] + Cardinality(Pending(o))' <= stored
    <3>1. CASE o = Obj(t)
      <4>1. Pending(o)' = Pending(o) \ {t}
        <5>1. \A u \in Tasks \ {t} : pc'[u] = pc[u] /\ Obj(u)' = Obj(u)
          BY <1>1 DEF Moves, Obj
        <5> QED  BY <2>5, <5>1 DEF Pending
      <4>2. count'[o] = count[o] + 1
        BY <1>1, <3>1 DEF n, TypeInv
      <4> QED  BY <1>3, <2>2, <2>3, <3>1, <4>1, <4>2
    <3>2. CASE o # Obj(t)
      <4>1. Pending(o)' = Pending(o)
        <5>1. \A u \in Tasks \ {t} : pc'[u] = pc[u] /\ Obj(u)' = Obj(u)
          BY <1>1 DEF Moves, Obj
        <5> QED  BY <2>5, <3>2, <5>1 DEF Pending
      <4>2. count'[o] = count[o]
        BY <1>1, <3>2 DEF TypeInv
      <4> QED  BY <2>2, <4>1, <4>2
    <3> QED  BY <3>1, <3>2
  <2>8. RowCount' = stored' /\ stored' = stored /\ msgs' = [i \in 1..stored' |-> Message(i)]
    BY <1>1, <2>1 DEF Below, RowCount
  <2> QED  BY <2>6, <2>7, <2>8 DEF Below
<1> QED  BY <1>1, <1>4, <1>5

LEMMA LoadKept ==
  ASSUME LogKept, NEW t \in Tasks, Load(t)
  PROVE  LogKept'
<1> USE DEF LogKept
<1>1. /\ TypeInv' /\ Moves(t) /\ UNCHANGED <<row, msgs, stored>>
      /\ pc'[t] \in {"read", "store"} /\ job'[t].op = job[t].op
      /\ Unused(sessions') /\ sessions' \in Objects /\ job'[t].obj = sessions'
      /\ count' = [count EXCEPT ![sessions'] = job[t].row] /\ job[t].row \in Nat
  BY LoadType DEF db
<1>2. pc[t] = "load" /\ row \in Nat
  BY DEF Load, TypeInv, HasRow
<1>3. \A u \in Tasks : job'[u].op \in Ops \cup {"none"}
  BY <1>1 DEF Moves
<1>4. ASSUME stored < Threshold PROVE Below'
  <2>1. Below
    BY <1>4
  <2>2. \A u \in Tasks : pc'[u] \notin Compacting /\ (pc'[u] = "load" => job'[u].row <= row')
    BY <1>1, <2>1 DEF Below, Moves, Compacting
  <2>3. RowCount' = RowCount /\ RowCount = row
    BY <1>1, <1>2 DEF RowCount, NoRow
  <2>4. ASSUME NEW o \in Objects
        PROVE  count'[o] + Cardinality(Pending(o))' <= RowCount'
    <3>1. CASE o = sessions'
      <4>1. Pending(o)' = {}
        BY <1>1, <3>1 DEF Pending, Moves, Unused, Obj
      <4>2. count'[o] = job[t].row
        BY <1>1, <3>1 DEF TypeInv
      <4>3. job[t].row <= row
        BY <1>2, <2>1 DEF Below
      <4> QED  BY <1>1, <1>2, <2>3, <4>1, <4>2, <4>3, FS_EmptySet
    <3>2. CASE o # sessions'
      <4>1. Pending(o)' = Pending(o)
        BY <1>1, <1>2, <3>2 DEF Pending, Moves, Obj
      <4>2. count'[o] = count[o]
        BY <1>1, <3>2 DEF TypeInv
      <4> QED  BY <2>1, <2>3, <4>1, <4>2 DEF Below
    <3> QED  BY <3>1, <3>2
  <2> QED  BY <1>1, <2>1, <2>2, <2>3, <2>4 DEF Below
<1> QED  BY <1>1, <1>3, <1>4

\* Fetched, Wipe, Zero, Rebuild, Cleared, Compacted, and Fetch: not below the threshold.
LEMMA CompactingKept ==
  ASSUME LogKept, NEW t \in Tasks, TypeInv', pc[t] \in Compacting, stored' = stored,
         Moves(t), job'[t].op \in {job[t].op, "none"}
  PROVE  LogKept'
<1>1. \A u \in Tasks : job'[u].op \in Ops \cup {"none"}
  BY DEF LogKept, Moves
<1> QED  BY <1>1 DEF LogKept, Below

LEMMA CompactKept ==
  ASSUME LogKept, NEW t \in Tasks, Compact(t) \/ Cleared(t)
  PROVE  LogKept'
<1> USE DEF LogKept
<1>1. CASE Fetch(t)
  BY <1>1, FetchType, CompactingKept DEF Fetch, Compacting
<1>2. CASE Fetched(t)
  <2>1. /\ TypeInv' /\ Moves(t) /\ stored' = stored
        /\ Advance(t, count[Obj(t)]) \/ job'[t].op = job[t].op
    BY <1>2, FetchedType
  <2>2. pc[t] = "fetched" /\ pc[t] \in Working /\ count[Obj(t)] \in Nat
    BY <1>2, TaskFacts DEF Fetched, Working
  <2>3. job'[t].op \in {job[t].op, "none"}
    BY <2>1, <2>2, Advanced DEF NoJob
  <2> QED  BY <2>1, <2>2, <2>3, CompactingKept DEF Compacting
<1>3. CASE Wipe(t)
  BY <1>3, WipeType, CompactingKept DEF Wipe, Compacting
<1>4. CASE Zero(t)
  BY <1>4, ZeroType, CompactingKept DEF Zero, Compacting
<1>5. CASE Rebuild(t)
  BY <1>5, RebuildType, CompactingKept DEF Rebuild, Compacting
<1>6. CASE Cleared(t) \/ Compacted(t)
  <2>1. PICK n \in Nat :
          /\ Advance(t, n) /\ pc[t] \in {"cleared", "rebuilt"}
          /\ UNCHANGED <<db, sessions, stored>> /\ count' = [count EXCEPT ![Obj(t)] = n]
    <3>1. CASE Cleared(t)
      BY <3>1 DEF Cleared, history
    <3>2. CASE Compacted(t)
      BY <3>2, TaskFacts DEF Compacted, history, Working
    <3> QED  BY <1>6, <3>1, <3>2
  <2>2. pc[t] \in Working
    BY <2>1 DEF Working
  <2>3. TypeInv' /\ Moves(t)
    BY <2>1, <2>2, PhaseType
  <2>4. job'[t].op \in {job[t].op, "none"}
    BY <2>1, <2>2, Advanced DEF NoJob
  <2> QED  BY <2>1, <2>3, <2>4, CompactingKept DEF Compacting
<1> QED  BY <1>1, <1>2, <1>3, <1>4, <1>5, <1>6 DEF Compact

\* The steps that neither store nor count, before and after a compaction.
LEMMA OtherKept ==
  ASSUME NoReset, LogKept, NEW t \in Tasks,
         \/ \E op \in AllOps : Request(t, op)
         \/ Find(t) \/ Found(t) \/ Recheck(t) \/ Create(t)
         \/ Agent(t) \/ Read(t) \/ ReadBack(t) \/ StatementFails(t)
  PROVE  LogKept'
<1> USE DEF LogKept
<1>1. CASE \E op \in AllOps : Request(t, op)
  <2>1. /\ TypeInv' /\ Moves(t) /\ job'[t].op \in Ops \cup {"none"}
        /\ pc'[t] \in {"idle", "find", "read", "store"}
    BY <1>1, RequestType
  <2>2. pc[t] = "idle" /\ UNCHANGED <<db, objs, stored>>
    BY <1>1 DEF Request
  <2> QED  BY <2>1, <2>2, QuietKept DEF db, objs, Compacting
<1>2. CASE Find(t) \/ Found(t) \/ Recheck(t) \/ Create(t)
  <2>1. /\ TypeInv' /\ Moves(t) /\ UNCHANGED <<msgs, objs, stored>>
        /\ row' = row \/ (row = NoRow /\ row' = 0)
        /\ job'[t].op \in {job[t].op, "none"}
        /\ pc'[t] \in {"idle", "found", "recheck", "create", "load", "read", "store"}
        /\ pc'[t] = "load" => job'[t].row <= row'
    BY <1>2, FindType
  <2>2. pc[t] # "stored"
    BY <1>2 DEF Find, Found, Recheck, Create
  <2> QED  BY <2>1, <2>2, QuietKept DEF objs, Compacting
<1>3. CASE Agent(t)
  <2>1. /\ pc[t] = "agent" /\ Advance(t, 0) /\ UNCHANGED <<db, sessions, stored, count>>
        /\ job[t].phase = 2 /\ pc[t] \in Working
    BY <1>3 DEF Agent, objs, history, TypeInv, Fits, Working
  <2>2. TypeInv' /\ Moves(t)
    BY <2>1, PhaseType
  <2>3. pc'[t] \in {"idle", "store", "agent"} /\ job'[t].op \in Ops \cup {"none"}
    BY <2>1, PhaseKept
  <2> QED  BY <2>1, <2>2, <2>3, QuietKept DEF db, Compacting
<1>4. CASE Read(t)
  <2>1. /\ TypeInv' /\ Moves(t) /\ UNCHANGED <<db, objs, stored>>
        /\ job'[t].op = job[t].op /\ pc[t] = "read" /\ pc'[t] = "readback"
    BY <1>4, FetchType DEF Read
  <2> QED  BY <2>1, QuietKept DEF db, objs, Compacting
<1>5. CASE ReadBack(t)
  <2>1. /\ TypeInv' /\ Moves(t) /\ UNCHANGED <<db, count, stored>>
        /\ job'[t].op = "none" /\ pc[t] = "readback" /\ pc'[t] = "idle"
    <3>1. pc[t] = "readback"
      BY <1>5 DEF ReadBack
    <3> QED  BY <1>5, <3>1, ReadBackType DEF NoJob
  <2> QED  BY <2>1, QuietKept DEF db, Compacting
<1>6. CASE StatementFails(t)
  <2>1. /\ TypeInv' /\ Moves(t) /\ UNCHANGED <<db, objs, stored>>
        /\ job'[t].op \in {job[t].op, "none"} /\ pc'[t] \in {"idle", "store"}
    BY <1>6, FailType DEF NoJob
  <2>2. pc[t] # "stored"
    BY <1>6 DEF StatementFails
  <2> QED  BY <2>1, <2>2, QuietKept DEF db, objs, Compacting
<1> QED  BY <1>1, <1>2, <1>3, <1>4, <1>5, <1>6

LEMMA ArchiveKept == ASSUME LogKept, Archive PROVE LogKept'
<1>1. TypeInv' /\ UNCHANGED <<row, msgs, count, pc, job, stored>>
  BY ArchiveType DEF LogKept, db
<1> QED  BY <1>1 DEF LogKept, Below, RowCount, Pending, Obj

\* A crash ends the tasks: nothing is pending.
LEMMA CrashKept == ASSUME LogKept, Crash PROVE LogKept'
<1>1. /\ TypeInv' /\ UNCHANGED <<row, msgs, count, stored>>
      /\ \A t \in Tasks : pc'[t] = "idle" /\ job'[t].op = "none"
  BY CrashType DEF LogKept, db, NoJob
<1>2. ASSUME Below PROVE Below'
  <2>1. ASSUME NEW o \in Objects
        PROVE  count'[o] + Cardinality(Pending(o))' <= RowCount'
    <3>1. Pending(o)' = {} /\ RowCount' = RowCount
      BY <1>1 DEF Pending, RowCount
    <3>2. count[o] \in Nat /\ Cardinality(Pending(o)) \in Nat /\ RowCount \in Nat
      BY PendingIs DEF LogKept, TypeInv, RowCount
    <3> QED  BY <1>1, <1>2, <3>1, <3>2, FS_EmptySet DEF Below
  <2> QED  BY <1>1, <1>2, <2>1 DEF Below, RowCount, Compacting
<1> QED  BY <1>1, <1>2 DEF LogKept

LEMMA NextKept ==
  ASSUME NoReset, LogKept, [Next]_vars
  PROVE  LogKept'
<1>1. ASSUME NEW t \in Tasks, Step(t)
      PROVE  LogKept'
  <2>1. CASE \/ \E op \in AllOps : Request(t, op)
             \/ Find(t) \/ Found(t) \/ Recheck(t) \/ Create(t)
             \/ Agent(t) \/ Read(t) \/ ReadBack(t) \/ StatementFails(t)
    BY <2>1, OtherKept
  <2>2. CASE Load(t)
    BY <2>2, LoadKept
  <2>3. CASE Store(t)
    BY <2>3, StoreKept
  <2>4. CASE Stored(t)
    BY <2>4, StoredKept
  <2>5. CASE Compact(t) \/ Cleared(t)
    BY <2>5, CompactKept
  <2> QED  BY <1>1, <2>1, <2>2, <2>3, <2>4, <2>5 DEF Step, Lookup, AddMessage
<1>2. CASE Archive
  BY <1>2, ArchiveKept
<1>3. CASE Crash
  BY <1>3, CrashKept
<1>4. CASE UNCHANGED vars
  BY <1>4 DEF vars, db, objs, history, LogKept, TypeInv, HasRow, Below, RowCount, Pending, Obj
<1> QED  BY <1>1, <1>2, <1>3, <1>4 DEF Next

LEMMA InitKept == Init => LogKept
<1> SUFFICES ASSUME Init PROVE LogKept
  OBVIOUS
<1>1. TypeInv
  BY InitCovered DEF LogCovered
<1>2. \A t \in Tasks : job[t].op \in Ops \cup {"none"}
  BY DEF Init, NoJob
<1>3. \A o \in Objects : Pending(o) = {} /\ count[o] = 0
  BY DEF Init, Pending
<1>4. Below
  <2>1. msgs = [i \in 1..stored |-> Message(i)]
    BY DEF Init
  <2>2. \A o \in Objects : count[o] + Cardinality(Pending(o)) <= 0
    BY <1>3, FS_EmptySet
  <2>3. RowCount = 0 /\ stored = 0
    BY DEF Init, RowCount
  <2>4. \A t \in Tasks : pc[t] = "idle"
    BY DEF Init
  <2> QED  BY <2>1, <2>2, <2>3, <2>4 DEF Below, Compacting
<1> QED  BY <1>1, <1>2, <1>4 DEF LogKept

LEMMA StaysKept ==
  ASSUME NoReset
  PROVE  Spec => []LogKept
<1>1. LogKept /\ [Next]_vars => LogKept'
  BY NextKept
<1> QED  BY <1>1, InitKept, PTL DEF Spec

\* LogWhole: as long as fewer than auto_compact_threshold messages were stored and
\* nobody resets, every message that add_message inserted is in session_messages, in
\* the order of the inserts, for any number of tasks that find, load, archive and
\* lose the session's objects at the same time.
THEOREM NothingLostBelowThreshold ==
  ASSUME NoReset
  PROVE  Spec => []LogWhole
<1>1. LogKept => LogWhole
  BY DEF LogKept, Below, LogWhole
<1>2. Spec => []LogKept
  BY StaysKept
<1> QED  BY <1>1, <1>2, PTL

\* CountNeverAhead: no Session object counts more messages than the row, although
\* add_message adds to its own copy of message_count after the INSERT: so no object
\* starts a compaction before the log is that long.
THEOREM NoObjectCountsAhead ==
  ASSUME NoReset
  PROVE  Spec => []CountNeverAhead
<1>1. LogKept => CountNeverAhead
  <2> SUFFICES ASSUME LogKept, stored < Threshold, NEW o \in Objects,
                      o = sessions \/ (\E t \in Tasks : Obj(t) = o)
               PROVE  count[o] <= row
    BY DEF CountNeverAhead
  <2>1. row \in Nat
    BY SessionAssumption DEF LogKept, TypeInv, HasRow, Fits, Obj, SessionAssumption
  <2>2. count[o] \in Nat /\ Cardinality(Pending(o)) \in Nat
    BY PendingIs DEF LogKept, TypeInv
  <2> QED  BY <2>1, <2>2 DEF LogKept, Below, RowCount, NoRow
<1>2. Spec => []LogKept
  BY StaysKept
<1> QED  BY <1>1, <1>2, PTL
=================================================================================
