----------------------- MODULE ControlPlaneRefinement -----------------------
(***************************************************************************)
(* The abstract channel the control plane is shown to implement.           *)
(***************************************************************************)
EXTENDS ControlPlane

Fifo == INSTANCE FifoChannel WITH
  Limit <- MAX_QUEUE_SIZE, Bound <- MaxMessages,
  came <- calls, pending <- queue, written <- log

\* When no send has to wait and adapters report no status of their own, the
\* queue, the flush and the direct delivery of deliver_outbound_message are one
\* first-in first-out channel: failed sends and reconnects neither reorder,
\* repeat nor lose a message that was accepted.
IsFifo == Fifo!Spec
=============================================================================
