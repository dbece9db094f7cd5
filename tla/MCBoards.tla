------------------------------ MODULE MCBoards ------------------------------
(***************************************************************************)
(* The board drivers, each on its own: unit says which one a behaviour     *)
(* drives, through any sequence of calls up to the bound and with any of   *)
(* its accesses failing.  The others stay as they were made.               *)
(***************************************************************************)
EXTENDS XsdrBoard, UsdrBoard, DsdrBoard, LsdrBoard, LimeBoard, FrontEnds

VARIABLE unit

vars == <<unit, xsdr, usdr, dsdr, lsdr, limeb, fes>>

MCMaps == {<<0>>, <<1, 0>>, <<0, 2>>}

Init ==
    /\ unit \in {"xsdr", "usdr", "dsdr", "lsdr", "lime", "fes"}
    /\ IF unit = "xsdr" THEN XsdrInit ELSE xsdr = XsdrFresh("xsdr", FALSE)
    /\ IF unit = "usdr" THEN UsdrInit ELSE usdr = UsdrFresh(2, FALSE, FALSE)
    /\ IF unit = "dsdr" THEN DsdrInit ELSE dsdr = DsdrFresh("M2", {}, {})
    /\ IF unit = "lsdr" THEN LsdrInit ELSE lsdr = LsdrFresh(FALSE, FALSE, FALSE)
    /\ IF unit = "lime" THEN LimeBoardInit ELSE limeb = LimeFresh(FALSE)
    /\ IF unit = "fes" THEN FesInit ELSE fes = FesFresh("m2", "none", "none", 0, 0)

Next ==
    \/ unit = "xsdr" /\ XsdrNext /\ UNCHANGED <<unit, usdr, dsdr, lsdr, limeb, fes>>
    \/ unit = "usdr" /\ UsdrNext /\ UNCHANGED <<unit, xsdr, dsdr, lsdr, limeb, fes>>
    \/ unit = "dsdr" /\ DsdrNext /\ UNCHANGED <<unit, xsdr, usdr, lsdr, limeb, fes>>
    \/ unit = "lsdr" /\ LsdrNext /\ UNCHANGED <<unit, xsdr, usdr, dsdr, limeb, fes>>
    \/ unit = "lime" /\ LimeBoardNext /\ UNCHANGED <<unit, xsdr, usdr, dsdr, lsdr, fes>>
    \/ unit = "fes" /\ FesNext /\ UNCHANGED <<unit, xsdr, usdr, dsdr, lsdr, limeb>>

Spec == Init /\ [][Next]_vars
=============================================================================
