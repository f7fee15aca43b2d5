----------------------------- MODULE FifoChannel -----------------------------
(***************************************************************************)
(* What the control plane promises an outbound channel when no send has to *)
(* wait: a bounded first-in first-out queue in front of the connection.    *)
(* A message is refused when it comes, or written exactly once, and        *)
(* messages are written in the order in which they came.                   *)
(***************************************************************************)
EXTENDS Naturals, Sequences

CONSTANTS Limit, Bound

VARIABLES came, pending, written

Init == came = 0 /\ pending = <<>> /\ written = <<>>

Refuse ==
  /\ came' = came + 1
  /\ UNCHANGED <<pending, written>>

Accept ==
  /\ came' = came + 1
  /\ Len(pending) < Limit
  /\ pending' = Append(pending, came + 1)
  /\ UNCHANGED written

Pass ==
  /\ came' = came + 1
  /\ pending = <<>>
  /\ written' = Append(written, came + 1)
  /\ UNCHANGED pending

Transmit ==
  /\ pending # <<>>
  /\ written' = Append(written, Head(pending))
  /\ pending' = Tail(pending)
  /\ UNCHANGED came

Next ==
  \/ came < Bound /\ (Refuse \/ Accept \/ Pass)
  \/ Transmit

Spec == Init /\ [][Next]_<<came, pending, written>>
=============================================================================
