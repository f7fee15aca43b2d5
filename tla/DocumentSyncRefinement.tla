----------------------- MODULE DocumentSyncRefinement -----------------------
(***************************************************************************)
(* The locked operations of DocumentSync implement AtomicDocStore, under   *)
(* the failures their except clauses undo: an embedding call or a row      *)
(* statement that raises.                                                  *)
(***************************************************************************)
EXTENDS DocumentSync

\* A create counts only once IN_SYNC is written: until then it may be undone.
Creating(d) ==
  \E r \in Reqs : lock[d] = r /\ Op(r) = "create" /\
    pc[r] \in {"embed", "insert", "cleanup", "commit", "rollback"}

\* What a document is worth: its backup as long as there is one.
Worth(d) ==
  IF bak[d] # NoFile THEN bak[d].text
  ELSE IF del[d] # NoFile THEN del[d].text
  ELSE IF Creating(d) THEN NoText
  ELSE file[d].text

\* Past the point of no return: the backup is gone or IN_SYNC is written.
Applied(r) ==
  \/ pc[r] = "report"
  \/ pc[r] = "commit" /\ Op(r) # "create"

Call(r) ==
  IF pc[r] = "idle"
  THEN [op |-> "none", doc |-> "none", text |-> NoText, phase |-> "idle"]
  ELSE [op |-> Op(r), doc |-> Doc(r), text |-> job[r].text,
        phase |-> IF Applied(r) THEN "applied" ELSE "pending"]

Atomic == INSTANCE AtomicDocStore WITH
  store <- [d \in Docs |-> Worth(d)],
  call <- [r \in Reqs |-> Call(r)]

\* create, update and delete are atomic on the files: a request that fails
\* has changed no document, one that succeeds changed it at one instant.
FilesAreAtomic == Atomic!Spec

=============================================================================
