------------------------------- MODULE MCPcie -------------------------------
(***************************************************************************)
(* The two data paths of the PCIe driver: a stream of DMA buffers, and the *)
(* bucket through which the device reports its events.  PcieStream takes   *)
(* the bucket as the FIFO that EventBucket implements, so a behaviour      *)
(* drives one of the two: part says which.                                 *)
(***************************************************************************)
EXTENDS PcieStream, EventBucket

VARIABLE part

MCVars == <<part, vars, BucketVars>>

MCInit == part \in {"stream", "bucket"} /\ Init /\ BucketInit

MCNext ==
    \/ part = "stream" /\ Next /\ UNCHANGED <<part, BucketVars>>
    \/ part = "bucket" /\ BucketNext /\ UNCHANGED <<part, vars>>

\* The fairness of the part that is driven.
MCFairness ==
    /\ WF_vars(part = "stream" /\ Device) /\ WF_vars(part = "stream" /\ Irq)
    /\ WF_vars(part = "stream" /\ WaitTake) /\ WF_vars(part = "stream" /\ WaitCopy)
    /\ WF_vars(part = "stream" /\ TakeBuffer) /\ WF_vars(part = "stream" /\ Release)
    /\ WF_BucketVars(part = "bucket" /\ DeviceWrite)
    /\ WF_BucketVars(part = "bucket" /\ IrqEnter) /\ WF_BucketVars(part = "bucket" /\ IrqEvent)
    /\ WF_BucketVars(part = "bucket" /\ IrqLeave) /\ WF_BucketVars(part = "bucket" /\ IrqAck)

MCSpec == MCInit /\ [][MCNext]_MCVars /\ MCFairness
=============================================================================
