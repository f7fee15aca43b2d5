----------------------------- MODULE SessionLog -----------------------------
(***************************************************************************)
(* One session of backend_agent_api/session.py and session_manager.py: its *)
(* row and messages in PostgreSQL, the Session objects built from them and *)
(* the map that holds one, and the tasks that read and write the log.      *)
(* Every statement commits by itself; an action is one statement, or the   *)
(* code after one that changes what tasks share.  A task that loses the    *)
(* race to build an object keeps the object it has.                        *)
(*                                                                         *)
(* Messages are numbered as they are first stored.  An entry of the log is *)
(* a message or a summary, with the messages it tells of.                  *)
(***************************************************************************)
EXTENDS Integers, Sequences, FiniteSets

CONSTANTS
  Tasks,        \* tasks that use the session at the same time
  Objects,      \* Session objects; one that nobody refers to is used again
  NoObject,
  Ops,          \* what tasks do, a subset of AllOps
  Threshold,    \* auto_compact_threshold
  KeepAtLeast,  \* a compaction keeps this many messages (10 in the code)
  SummaryLines, \* a summary tells of this many messages (50 in the code)
  Limits,       \* the limits of get_history calls
  MaxRequests,  \* bound: requests in a behaviour
  MaxMishaps    \* bound: statements that fail, and crashes

Commands == {"message", "reset", "compact"}   \* inbound messages
AllOps == Commands \cup {"note", "history"}

ASSUME SessionAssumption ==
  /\ NoObject \notin Objects
  /\ IsFiniteSet(Objects) /\ IsFiniteSet(Tasks)
  /\ Cardinality(Objects) > Cardinality(Tasks)
  /\ Ops \subseteq AllOps
  /\ KeepAtLeast \in Nat \ {0}
  /\ Threshold \in Nat
  /\ SummaryLines \in Nat
  /\ Limits \subseteq Nat \ {0}
  /\ MaxRequests \in Nat
  /\ MaxMishaps \in Nat

VARIABLES
  row,       \* sessions.message_count, or NoRow
  msgs,      \* the rows of session_messages, by created_at
  sessions,  \* SessionManager.sessions[session_id]
  count,     \* Session.message_count
  cache,     \* Session._message_cache
  pc, job,   \* where a task is, and what it has
  stored,    \* messages stored so far
  requests,  \* requests so far
  mishaps,   \* failures and crashes so far
  resetAt    \* history: the messages stored when the log was last reset

db == <<row, msgs>>
objs == <<sessions, count, cache>>
history == <<stored, requests, mishaps, resetAt>>
vars == <<db, objs, pc, job, history>>

NoRow == -1
Message(m) == [sum |-> FALSE, of |-> {m}]
NoCache == <<Message(-1)>>
Summary(ms) == [sum |-> TRUE, of |-> ms]

\* phase: 1 the user's message, 2 the agent or the command, 3 the last message.
\* n: a limit or a length; list: rows read, or rows still to write.
NoJob == [op |-> "none", phase |-> 0, obj |-> NoObject, row |-> NoRow,
          n |-> 0, list |-> <<>>]

Goto(t, l) == pc' = [pc EXCEPT ![t] = l]
Obj(t) == job[t].obj
Resetting(t) == job[t].op = "reset" /\ job[t].phase = 2

Shorter(a, b) == IF a < b THEN a ELSE b
Longer(a, b) == IF a < b THEN b ELSE a
First(s, n) == SubSeq(s, 1, Shorter(n, Len(s)))

End(t) ==
  /\ Goto(t, "idle")
  /\ job' = [job EXCEPT ![t] = NoJob]

\* A phase is over; n is the object's message_count.  The command /compact
\* compacts only if the user's message has not done so already.
Advance(t, n) ==
  \/ /\ job[t].phase = 3
     /\ End(t)
  \/ /\ job[t].phase = 2
     /\ Goto(t, "store")
     /\ job' = [job EXCEPT ![t] = [@ EXCEPT !.phase = 3, !.list = <<>>]]
  \/ /\ job[t].phase = 1
     /\ LET compacting == job[t].op = "compact" /\ n >= Threshold
            step == CASE job[t].op = "message" -> "agent"
                      [] job[t].op = "reset" -> "wipe"
                      [] compacting -> "fetch"
                      [] OTHER -> "store"
        IN  /\ Goto(t, step)
            /\ job' = [job EXCEPT ![t] = [@ EXCEPT !.phase = IF step = "store" THEN 3 ELSE 2,
                                                !.n = n, !.list = <<>>]]

-----------------------------------------------------------------------------
(***************************************************************************)
(* Finding the session                                                     *)
(***************************************************************************)
\* What a task does with its object o; h is the history it asks for.
Begin(t, o, op, h) ==
  LET read == op = "history" /\ cache[o] = NoCache
      step == CASE op = "history" -> IF read THEN "read" ELSE "idle"
                [] OTHER -> "store"
  IN  /\ Goto(t, step)
      /\ job' = [job EXCEPT ![t] =
           IF step = "idle" THEN NoJob
           ELSE [op |-> op, phase |-> IF op = "note" THEN 3 ELSE 1, obj |-> o,
                 row |-> NoRow, n |-> h, list |-> <<>>]]

\* get_or_create_session and get_session: the map first.
Request(t, op) ==
  /\ pc[t] = "idle"
  /\ op \in Ops
  /\ requests < MaxRequests
  /\ requests' = requests + 1
  /\ \E h \in IF op = "history" THEN Limits ELSE {0} :
       \/ /\ sessions # NoObject
          /\ Begin(t, sessions, op, h)
       \/ /\ sessions = NoObject
          /\ Goto(t, "find")
          /\ job' = [job EXCEPT ![t] = [NoJob EXCEPT !.op = op, !.n = h]]
  /\ UNCHANGED <<db, objs, stored, mishaps, resetAt>>

Find(t) ==
  /\ pc[t] = "find"
  /\ Goto(t, IF row = NoRow THEN "found" ELSE "load")
  /\ job' = [job EXCEPT ![t].row = row]
  /\ UNCHANGED <<db, objs, history>>

\* No row: only an inbound message creates the session, unless it is in the
\* map by now.
Found(t) ==
  /\ pc[t] = "found"
  /\ \/ /\ job[t].op \notin Commands
        /\ End(t)
     \/ /\ job[t].op \in Commands /\ sessions # NoObject
        /\ Begin(t, sessions, job[t].op, 0)
     \/ /\ job[t].op \in Commands /\ sessions = NoObject
        /\ Goto(t, "recheck")
        /\ UNCHANGED job
  /\ UNCHANGED <<db, objs, history>>

\* db_sessions.get_or_create_session: SELECT, then INSERT, which raises if
\* another task was faster.
Recheck(t) ==
  /\ pc[t] = "recheck"
  /\ Goto(t, IF row = NoRow THEN "create" ELSE "load")
  /\ job' = [job EXCEPT ![t].row = row]
  /\ UNCHANGED <<db, objs, history>>

Create(t) ==
  /\ pc[t] = "create"
  /\ \/ /\ row = NoRow
        /\ row' = 0
        /\ Goto(t, "load")
        /\ job' = [job EXCEPT ![t].row = 0]
     \/ /\ row # NoRow
        /\ End(t)
        /\ UNCHANGED row
  /\ UNCHANGED <<msgs, objs, history>>

Unused(o) == o # sessions /\ \A t \in Tasks : Obj(t) # o

\* Mutant: the object counts the message it is made for.
LoadedNext(t) == job[t].row + 1

Loaded(t) == job[t].row

\* _session_from_db_row, and the object goes into the map.
Load(t) ==
  /\ pc[t] = "load"
  /\ LET o == CHOOSE o \in Objects : Unused(o) IN
       /\ sessions' = o
       /\ count' = [count EXCEPT ![o] = Loaded(t)]
       /\ cache' = [cache EXCEPT ![o] = NoCache]
       /\ Goto(t, IF job[t].op = "history" THEN "read" ELSE "store")
       /\ job' = [job EXCEPT ![t] = [@ EXCEPT !.obj = o, !.row = NoRow,
                                             !.phase = IF job[t].op = "note" THEN 3 ELSE 1]]
  /\ UNCHANGED <<db, history>>

-----------------------------------------------------------------------------
(***************************************************************************)
(* add_message                                                             *)
(***************************************************************************)
\* Mutant: the trigger does not count.
InsertUncounted(e) == msgs' = Append(msgs, e) /\ UNCHANGED row

\* INSERT INTO session_messages, and the trigger update_session_activity.
Insert(e) == msgs' = Append(msgs, e) /\ row' = row + 1

Store(t) ==
  /\ pc[t] = "store"
  /\ Insert(Message(stored + 1))
  /\ stored' = stored + 1
  /\ Goto(t, "stored")
  /\ UNCHANGED <<objs, job, requests, mishaps, resetAt>>

\* Mutants: the cache is kept; compaction starts early.
KeepCache(o) == UNCHANGED cache
DueEarly(n) == n > KeepAtLeast

DropCache(o) == cache' = [cache EXCEPT ![o] = NoCache]
Due(n) == n >= Threshold

\* add_message goes on: the local count, the cache, and whether to compact.
Stored(t) ==
  LET n == count[Obj(t)] + 1 IN
  /\ pc[t] = "stored"
  /\ count' = [count EXCEPT ![Obj(t)] = n]
  /\ DropCache(Obj(t))
  /\ \/ /\ Due(n)
        /\ Goto(t, "fetch")
        /\ job' = [job EXCEPT ![t].n = n]
     \/ ~Due(n) /\ Advance(t, n)
  /\ UNCHANGED <<db, sessions, history>>

Agent(t) ==
  /\ pc[t] = "agent"
  /\ Advance(t, 0)
  /\ UNCHANGED <<db, objs, history>>

-----------------------------------------------------------------------------
(***************************************************************************)
(* compact and clear_history                                               *)
(***************************************************************************)
\* Mutant: the limit is the length of a full context.
FetchLimitThreshold(t) == Threshold - 1

\* get_history(limit=self.message_count)
FetchLimit(t) == job[t].n

\* SELECT ... ORDER BY created_at ASC LIMIT
Fetch(t) ==
  /\ pc[t] = "fetch"
  /\ Goto(t, "fetched")
  /\ job' = [job EXCEPT ![t].list = First(msgs, FetchLimit(t))]
  /\ UNCHANGED <<db, objs, history>>

Kept(n) == Longer(KeepAtLeast, n \div 5)

\* Mutant: what is kept is summarised too.
RebuiltTwice(s) ==
  LET told == {s[i] : i \in 1..Len(s)}
  IN  <<Summary(UNION {e.of : e \in told})>> \o SubSeq(s, Len(s) - Kept(Len(s)) + 1, Len(s))

\* A summary, then the last fifth of s.  The conditional expression that ends
\* the summary's text makes all of it empty if no message is left out.
Rebuilt(s) ==
  LET split == Len(s) - Kept(Len(s))
      told == IF split <= SummaryLines THEN {} ELSE {s[i] : i \in 1..SummaryLines}
  IN  <<Summary(UNION {e.of : e \in told})>> \o SubSeq(s, split + 1, Len(s))

\* get_history caches what it read; compact goes on if there is enough of it.
Fetched(t) ==
  LET s == job[t].list IN
  /\ pc[t] = "fetched"
  /\ cache' = [cache EXCEPT ![Obj(t)] = s]
  /\ \/ /\ Len(s) < KeepAtLeast
        /\ Advance(t, count[Obj(t)])
     \/ /\ Len(s) >= KeepAtLeast
        /\ Goto(t, "wipe")
        /\ job' = [job EXCEPT ![t] = [@ EXCEPT !.list = Rebuilt(s), !.n = Len(Rebuilt(s))]]
  /\ UNCHANGED <<db, sessions, count, history>>

\* Mutant: a reset only forgets the cached messages.
WipeUnlessReset(t) ==
  /\ pc[t] = "wipe"
  /\ msgs' = IF Resetting(t) THEN msgs ELSE <<>>
  /\ resetAt' = IF Resetting(t) THEN stored ELSE resetAt
  /\ Goto(t, "zero")
  /\ UNCHANGED <<row, objs, job, stored, requests, mishaps>>

\* clear_session_messages: DELETE, then UPDATE ... SET message_count = 0.
Wipe(t) ==
  /\ pc[t] = "wipe"
  /\ msgs' = <<>>
  /\ resetAt' = IF Resetting(t) THEN stored ELSE resetAt
  /\ Goto(t, "zero")
  /\ UNCHANGED <<row, objs, job, stored, requests, mishaps>>

Zero(t) ==
  /\ pc[t] = "zero"
  /\ row' = 0
  /\ Goto(t, IF Resetting(t) THEN "cleared" ELSE "rebuild")
  /\ UNCHANGED <<msgs, objs, job, history>>

Cleared(t) ==
  /\ pc[t] = "cleared"
  /\ count' = [count EXCEPT ![Obj(t)] = 0]
  /\ DropCache(Obj(t))
  /\ Advance(t, 0)
  /\ UNCHANGED <<db, sessions, history>>

\* The summary and the messages kept are inserted one by one.
Rebuild(t) ==
  /\ pc[t] = "rebuild"
  /\ Insert(Head(job[t].list))
  /\ job' = [job EXCEPT ![t].list = Tail(@)]
  /\ Goto(t, IF Len(job[t].list) = 1 THEN "rebuilt" ELSE "rebuild")
  /\ UNCHANGED <<objs, history>>

Compacted(t) ==
  /\ pc[t] = "rebuilt"
  /\ count' = [count EXCEPT ![Obj(t)] = job[t].n]
  /\ DropCache(Obj(t))
  /\ Advance(t, job[t].n)
  /\ UNCHANGED <<db, sessions, history>>

-----------------------------------------------------------------------------
(***************************************************************************)
(* get_history, archive_session                                            *)
(***************************************************************************)
Read(t) ==
  /\ pc[t] = "read"
  /\ Goto(t, "readback")
  /\ job' = [job EXCEPT ![t].list = First(msgs, job[t].n)]
  /\ UNCHANGED <<db, objs, history>>

ReadBack(t) ==
  /\ pc[t] = "readback"
  /\ cache' = [cache EXCEPT ![Obj(t)] = job[t].list]
  /\ End(t)
  /\ UNCHANGED <<db, sessions, count, history>>

\* The cleanup loop, the memory limit or an administrator archives the session.
\* Nothing that finds a session looks at archived_at.
Archive ==
  /\ sessions # NoObject
  /\ sessions' = NoObject
  /\ UNCHANGED <<db, count, cache, pc, job, history>>

\* A statement fails.  A command reports it and goes on; otherwise it ends the
\* task.
StatementFails(t) ==
  /\ pc[t] \in {"find", "recheck", "create", "store", "fetch", "wipe", "zero",
                "rebuild", "read"}
  /\ mishaps < MaxMishaps
  /\ mishaps' = mishaps + 1
  /\ \/ /\ job[t].phase = 2
        /\ Goto(t, "store")
        /\ job' = [job EXCEPT ![t] = [@ EXCEPT !.phase = 3, !.list = <<>>]]
     \/ job[t].phase # 2 /\ End(t)
  /\ UNCHANGED <<db, objs, stored, requests, resetAt>>

\* The process dies, and its objects and tasks with it.
Crash ==
  /\ mishaps < MaxMishaps
  /\ mishaps' = mishaps + 1
  /\ sessions' = NoObject
  /\ pc' = [t \in Tasks |-> "idle"]
  /\ job' = [t \in Tasks |-> NoJob]
  /\ UNCHANGED <<db, count, cache, stored, requests, resetAt>>

-----------------------------------------------------------------------------
Init ==
  /\ row = NoRow
  /\ msgs = <<>>
  /\ sessions = NoObject
  /\ count = [o \in Objects |-> 0]
  /\ cache = [o \in Objects |-> NoCache]
  /\ pc = [t \in Tasks |-> "idle"]
  /\ job = [t \in Tasks |-> NoJob]
  /\ stored = 0
  /\ requests = 0
  /\ mishaps = 0
  /\ resetAt = 0

Compact(t) == Fetch(t) \/ Fetched(t) \/ Wipe(t) \/ Zero(t) \/ Rebuild(t) \/ Compacted(t)
Lookup(t) == Find(t) \/ Found(t) \/ Recheck(t) \/ Create(t) \/ Load(t)
AddMessage(t) == Store(t) \/ Stored(t)

Step(t) ==
  \/ \E op \in AllOps : Request(t, op)
  \/ Lookup(t)
  \/ AddMessage(t)
  \/ Agent(t)
  \/ Compact(t)
  \/ Cleared(t)
  \/ Read(t)
  \/ ReadBack(t)
  \/ StatementFails(t)

Next == (\E t \in Tasks : Step(t)) \/ Archive \/ Crash

Spec == Init /\ [][Next]_vars

-----------------------------------------------------------------------------
Entries == [sum : BOOLEAN, of : SUBSET (1..stored)]

\* The log is what was said, in order: no message is in it twice or after a later
\* one.  (It may have two summaries: a compaction that failed half-way and left
\* KeepAtLeast entries is done again with nothing to leave out.)
OrderedOnce ==
  \A i, j \in DOMAIN msgs : i < j =>
    \A a \in msgs[i].of, b \in msgs[j].of : a < b

\* "4. Keeping recent messages intact": when compact deletes the messages, those
\* it will insert again are the last ones there are.
KeepsRecent ==
  [][\A t \in Tasks :
       LET kept == Tail(job[t].list) IN
       pc[t] = "wipe" /\ pc'[t] = "zero" /\ ~Resetting(t) =>
         /\ Len(kept) <= Len(msgs)
         /\ kept = SubSeq(msgs, Len(msgs) - Len(kept) + 1, Len(msgs))]_vars

\* message_count is never less than the number of messages, in the row and in
\* the object that compacts, so the LIMIT of a compaction reads all of them.
CountCovers ==
  /\ row # NoRow => Len(msgs) <= row
  /\ \A t \in Tasks : pc[t] = "fetch" => Len(msgs) <= job[t].n

\* Below the threshold nothing is lost or moved, whatever overlaps, fails or is
\* archived: the log is every message stored, in the order of the inserts.
LogWhole == stored < Threshold => msgs = [i \in 1..stored |-> Message(i)]

\* No object counts more messages than the row does, although each counts for
\* itself: unless a reset or a compaction steps in, none compacts too early.
CountNeverAhead ==
  stored < Threshold =>
    \A o \in Objects : o = sessions \/ (\E t \in Tasks : Obj(t) = o) => count[o] <= row

\* What a reset has removed does not come back, in a message or in a summary.
NothingReturns == \A i \in DOMAIN msgs : \A m \in msgs[i].of : m > resetAt

\* What get_history has cached in the object of the map is a part of the log as it
\* is now, whenever no task is at work on it and the object counts the messages
\* right: no message that a reset or a compaction has removed, none left out
\* between two.  (A compaction that fails half-way leaves the object with the old
\* messages, and with their number.)  Which part it is, is not said here: it is
\* the oldest messages, as many as the first caller asked for, where the
\* docstring says "recent messages".
CacheFresh ==
  (/\ sessions # NoObject
   /\ \A t \in Tasks : pc[t] = "idle"
   /\ cache[sessions] # NoCache
   /\ count[sessions] = Len(msgs))
    => \E a, n \in 0..Len(msgs) : cache[sessions] = SubSeq(msgs, a + 1, n)
=============================================================================
