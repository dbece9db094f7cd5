------------------------------- MODULE MCUsb --------------------------------
(***************************************************************************)
(* The receive and the transmit stream over libusb.  They share no buffer  *)
(* and no counter, so a behaviour drives one of the two: dir says which.   *)
(***************************************************************************)
EXTENDS UsbRxStream, UsbTxStream

VARIABLE dir

MCVars == <<dir, vars, TxVars>>

MCInit == dir \in {"rx", "tx"} /\ Init /\ TxInit

MCNext ==
    \/ dir = "rx" /\ Next /\ UNCHANGED <<dir, TxVars>>
    \/ dir = "tx" /\ TxNext /\ UNCHANGED <<dir, vars>>

\* The fairness of the stream that is driven.
MCFairness ==
    /\ WF_vars(dir = "rx" /\ HcFill)
    /\ WF_vars(dir = "rx" /\ Callback) /\ WF_vars(dir = "rx" /\ Restart)
    /\ WF_vars(dir = "rx" /\ RecvWait) /\ WF_vars(dir = "rx" /\ RecvRelease)
    /\ WF_TxVars(dir = "tx" /\ SendGet) /\ WF_TxVars(dir = "tx" /\ SendCommit)
    /\ WF_TxVars(dir = "tx" /\ HcSend) /\ WF_TxVars(dir = "tx" /\ TxCallback)

MCSpec == MCInit /\ [][MCNext]_MCVars /\ MCFairness
=============================================================================
