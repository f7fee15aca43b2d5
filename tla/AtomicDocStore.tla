--------------------------- MODULE AtomicDocStore ---------------------------
(***************************************************************************)
(* What the "*_atomic" operations of SyncManager promise of the file       *)
(* store, whatever runs concurrently: a request takes effect at one        *)
(* instant or not at all, a create only where there is no document, an     *)
(* update and a delete only where there is one, and a request that fails   *)
(* has had no effect.                                                      *)
(***************************************************************************)
CONSTANTS Docs, Reqs, Texts, NoText    \* NoText is not one of the Texts

VARIABLES
  store,   \* the text of a document, or NoText
  call     \* the call a request serves

vars == <<store, call>>

NoCall == [op |-> "none", doc |-> "none", text |-> NoText, phase |-> "idle"]
Calls == [op : {"create", "update", "delete"}, doc : Docs,
          text : Texts \cup {NoText}, phase : {"pending", "applied"}]

TypeOK ==
  /\ store \in [Docs -> Texts \cup {NoText}]
  /\ call \in [Reqs -> Calls \cup {NoCall}]

Init ==
  /\ store = [d \in Docs |-> NoText]
  /\ call = [r \in Reqs |-> NoCall]

Invoke(r) ==
  /\ call[r] = NoCall
  /\ \E c \in Calls :
       /\ c.phase = "pending"
       /\ (c.op = "delete") <=> (c.text = NoText)
       /\ call' = [call EXCEPT ![r] = c]
  /\ UNCHANGED store

\* The precondition of an operation on the text it finds.
Applicable(op, text) == (op = "create") <=> (text = NoText)

Apply(r) ==
  /\ call[r].phase = "pending"
  /\ Applicable(call[r].op, store[call[r].doc])
  /\ store' = [store EXCEPT ![call[r].doc] = call[r].text]
  /\ call' = [call EXCEPT ![r].phase = "applied"]

Return(r) ==
  /\ call[r].phase = "applied"
  /\ call' = [call EXCEPT ![r] = NoCall]
  /\ UNCHANGED store

FailCall(r) ==
  /\ call[r].phase = "pending"
  /\ call' = [call EXCEPT ![r] = NoCall]
  /\ UNCHANGED store

Next == \E r \in Reqs :
  Invoke(r) \/ Apply(r) \/ Return(r) \/ FailCall(r)

Spec == Init /\ [][Next]_vars
=============================================================================
