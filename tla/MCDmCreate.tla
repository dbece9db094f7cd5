----------------------------- MODULE MCDmCreate -----------------------------
(***************************************************************************)
(* usdr_dm_create with two channels whose files end after different        *)
(* numbers of samples, and the ring buffer between its threads.  DmCreate  *)
(* takes a ring as the FIFO that RingBuffer implements, so a behaviour     *)
(* drives one of the two: part says which.                                 *)
(***************************************************************************)
EXTENDS DmCreate, RingBuffer

VARIABLE part

MCFile == <<3, 2>>

MCVars == <<part, app, vars>>

\* The options of the program while the ring is driven.
MCOpts == CHOOSE o \in AppOpts : AppOptsOk(o)

MCInit ==
    /\ part \in {"app", "ring"}
    /\ Init
    /\ IF part = "app" THEN AppInit ELSE app = AppFresh(MCOpts)

MCNext ==
    \/ part = "app" /\ AppNext /\ UNCHANGED <<part, vars>>
    \/ part = "ring" /\ Next /\ UNCHANGED <<part, app>>

\* The fairness of the part that is driven.
MCFairness ==
    /\ WF_app(part = "app" /\ AppMain)
    /\ \A d \in {"rx", "tx"}, b \in AppCh : WF_app(part = "app" /\ AppThread(d, b))
    /\ WF_vars(part = "ring" /\ Pwait) /\ WF_vars(part = "ring" /\ Fill)
    /\ WF_vars(part = "ring" /\ Ppost) /\ WF_vars(part = "ring" /\ Cwait)
    /\ WF_vars(part = "ring" /\ Read) /\ WF_vars(part = "ring" /\ Cpost)

MCSpec == MCInit /\ [][MCNext]_MCVars /\ MCFairness
=============================================================================
