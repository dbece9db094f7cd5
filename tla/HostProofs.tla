----------------------------- MODULE HostProofs -----------------------------
(***************************************************************************)
(* Proofs about the parts of the library around the board drivers that     *)
(* MCHost drives one at a time: the control exchange of the FT601 bridge   *)
(* (FtCtrl), the receive stream of the LimeSDR (LimeStream), the kernel    *)
(* driver (KernelDriver), the cut of a packet into bursts (BurstCalc), the *)
(* life cycle of the transports (Plugins) and the aggregate of several     *)
(* devices (MultiDev).                                                     *)
(* The theorems hold for every number of threads, boards, files, packets,  *)
(* calls and failures.                                                     *)
(***************************************************************************)
EXTENDS FtCtrl, LimeStream, KernelDriver, BurstCalc, Plugins, MultiDev, SharedLemmas, FiniteSetTheorems, TLAPS

(***************************************************************************)
(* FtCtrl                                                                  *)
(***************************************************************************)

(* ft is a record of these fields.                                         *)
FtRecord ==
    ft = [ops |-> ft.ops, errs |-> ft.errs, out |-> ft.out, in |-> ft.in, sem |-> ft.sem,
          rb |-> ft.rb, outbusy |-> ft.outbusy, inbusy |-> ft.inbusy, dev |-> ft.dev,
          pc |-> ft.pc, cmd |-> ft.cmd, got |-> ft.got, clean |-> ft.clean]

FtFields ==
    /\ ft.ops \in Nat /\ ft.errs \in Nat /\ ft.out \in Nat /\ ft.in \in Nat
    /\ ft.sem \in Nat /\ ft.rb \in Nat
    /\ ft.outbusy \in BOOLEAN /\ ft.inbusy \in BOOLEAN /\ ft.clean \in BOOLEAN
    /\ ft.dev \in Seq(Nat)
    /\ ft.pc \in [FtThreads -> {"idle", "filled", "out", "wait", "parse"}]
    /\ ft.cmd \in [FtThreads -> Nat]
    /\ ft.got \in [FtThreads -> Seq(Nat)]

FtTypeOK == FtRecord /\ FtFields

(* The lock as a semaphore of one: free and nobody inside, or taken and    *)
(* one thread inside.                                                      *)
FtLocked ==
    \/ ft.sem = 1 /\ FtHolds(ft) = {}
    \/ ft.sem = 0 /\ \E t \in FtThreads : FtHolds(ft) = {t}

(* Nothing of an earlier exchange is left in the transfers, in the device  *)
(* or in the semaphore of the reply.                                       *)
FtQuiet == ~ft.outbusy /\ ~ft.inbusy /\ ft.dev = <<>> /\ ft.rb = 0

(* The command c is on its way out, or the device has it.                  *)
FtUnanswered(c) ==
    /\ ft.out = c /\ ft.rb = 0
    /\ \/ ft.outbusy /\ ft.dev = <<>>
       \/ ~ft.outbusy /\ ft.dev = <<c>>

(* The command c was answered.                                             *)
FtAnswered(c) == ~ft.outbusy /\ ~ft.inbusy /\ ft.dev = <<>> /\ ft.in = c

(* What is under way when thread t is at its step of a clean exchange.     *)
FtStage(t) ==
    /\ ft.pc[t] = "filled" => FtQuiet /\ ft.out = ft.cmd[t]
    /\ ft.pc[t] = "out" => ~ft.inbusy /\ FtUnanswered(ft.cmd[t])
    /\ ft.pc[t] = "wait" => \/ ft.inbusy /\ FtUnanswered(ft.cmd[t])
                            \/ ft.rb = 1 /\ FtAnswered(ft.cmd[t])
    /\ ft.pc[t] = "parse" => ft.rb = 0 /\ FtAnswered(ft.cmd[t])

(* While the history is clean at most one call is under way, the packets   *)
(* in the system are its own, and what was returned is what was asked for. *)
FtAlone == \A t, u \in FtThreads : ft.pc[t] # "idle" /\ ft.pc[u] # "idle" => t = u
FtRest == (\A t \in FtThreads : ft.pc[t] = "idle") => FtQuiet
FtStages == \A t \in FtThreads : FtStage(t)
FtReplies == \A t \in FtThreads : ft.got[t] # <<>> => ft.got[t][1] = ft.got[t][2]

FtCleanInv == ft.clean => FtAlone /\ FtRest /\ FtStages /\ FtReplies

(* The inductive invariant of the exchange.                                *)
FtInv == FtTypeOK /\ FtLocked /\ FtCleanInv

LEMMA FtInitInv == FtInit => FtInv
<1> SUFFICES ASSUME FtInit PROVE FtInv
  OBVIOUS
<1>1. FtTypeOK
  BY FtAssumption DEF FtInit, usbft601_uram_async_start, FtTypeOK, FtRecord, FtFields
<1>2. FtLocked
  BY DEF FtInit, usbft601_uram_async_start, FtLocked, FtHolds
<1>3. FtCleanInv
  BY DEF FtInit, usbft601_uram_async_start, FtCleanInv, FtAlone, FtRest, FtStages,
         FtReplies, FtQuiet, FtStage
<1> QED
  BY <1>1, <1>2, <1>3 DEF FtInv

LEMMA FtRecordStep == FtRecord /\ [FtNext]_ft => FtRecord'
<1> SUFFICES ASSUME FtRecord, [FtNext]_ft PROVE FtRecord'
  OBVIOUS
<1> USE DEF FtRecord, FtAt, FtErr, FtEnd, FtPost
<1>1. ASSUME NEW t \in FtThreads, FtFill(t) PROVE FtRecord'
  BY <1>1 DEF FtFill
<1>2. ASSUME NEW t \in FtThreads, usbft601_uram_ctrl_out_pkt(t) PROVE FtRecord'
  BY <1>2 DEF usbft601_uram_ctrl_out_pkt
<1>3. ASSUME NEW t \in FtThreads, FtOutFails(t) PROVE FtRecord'
  BY <1>3 DEF FtOutFails
<1>4. ASSUME NEW t \in FtThreads, usbft601_uram_ctrl_in_pkt(t) PROVE FtRecord'
  BY <1>4 DEF usbft601_uram_ctrl_in_pkt
<1>5. ASSUME NEW t \in FtThreads, FtInFails(t) PROVE FtRecord'
  BY <1>5 DEF FtInFails
<1>6. ASSUME NEW t \in FtThreads, usbft601_sem_ctrl_rb_wait(t) PROVE FtRecord'
  BY <1>6 DEF usbft601_sem_ctrl_rb_wait
<1>7. ASSUME NEW t \in FtThreads, FtWaitFails(t) PROVE FtRecord'
  BY <1>7 DEF FtWaitFails
<1>8. ASSUME NEW t \in FtThreads, FtParse(t) PROVE FtRecord'
  BY <1>8 DEF FtParse
<1>9. CASE libusb_transfer_ctrl_out_pkt
  BY <1>9 DEF libusb_transfer_ctrl_out_pkt
<1>10. CASE libusb_transfer_ctrl_rb
  BY <1>10 DEF libusb_transfer_ctrl_rb
<1>11. CASE UNCHANGED ft
  BY <1>11
<1> QED
  BY <1>1, <1>2, <1>3, <1>4, <1>5, <1>6, <1>7, <1>8, <1>9, <1>10, <1>11 DEF FtNext

LEMMA FtFieldsStep == FtRecord /\ FtFields /\ [FtNext]_ft => FtFields'
<1> SUFFICES ASSUME FtRecord, FtFields, [FtNext]_ft PROVE FtFields'
  OBVIOUS
<1> USE DEF FtRecord, FtFields, FtAt, FtErr, FtEnd, FtPost
<1>1. ASSUME NEW t \in FtThreads, FtFill(t) PROVE FtFields'
  BY <1>1 DEF FtFill
<1>2. ASSUME NEW t \in FtThreads, usbft601_uram_ctrl_out_pkt(t) PROVE FtFields'
  <2>1. CASE ft' = FtEnd(ft, t)
    BY <2>1
  <2>2. CASE ft' = [ft EXCEPT !.sem = @ - 1, !.outbusy = TRUE, !.pc[t] = "out"] /\ ft.sem > 0
    BY <2>2
  <2> QED
    BY <1>2, <2>1, <2>2 DEF usbft601_uram_ctrl_out_pkt
<1>3. ASSUME NEW t \in FtThreads, FtOutFails(t) PROVE FtFields'
  BY <1>3 DEF FtOutFails
<1>4. ASSUME NEW t \in FtThreads, usbft601_uram_ctrl_in_pkt(t) PROVE FtFields'
  <2>1. CASE ft' = FtPost(ft, t)
    BY <2>1
  <2>2. CASE ft' = [ft EXCEPT !.inbusy = TRUE, !.pc[t] = "wait"]
    BY <2>2
  <2> QED
    BY <1>4, <2>1, <2>2 DEF usbft601_uram_ctrl_in_pkt
<1>5. ASSUME NEW t \in FtThreads, FtInFails(t) PROVE FtFields'
  BY <1>5 DEF FtInFails
<1>6. ASSUME NEW t \in FtThreads, usbft601_sem_ctrl_rb_wait(t) PROVE FtFields'
  BY <1>6 DEF usbft601_sem_ctrl_rb_wait
<1>7. ASSUME NEW t \in FtThreads, FtWaitFails(t) PROVE FtFields'
  BY <1>7 DEF FtWaitFails
<1>8. ASSUME NEW t \in FtThreads, FtParse(t) PROVE FtFields'
  BY <1>8 DEF FtParse
<1>9. CASE libusb_transfer_ctrl_out_pkt
  <2>1. CASE ft' = [ft EXCEPT !.outbusy = FALSE, !.dev = Append(@, ft.out)]
    BY <2>1
  <2>2. CASE ft.errs > 0 /\ ft' = FtErr([ft EXCEPT !.outbusy = FALSE])
    BY <2>2
  <2> QED
    BY <1>9, <2>1, <2>2 DEF libusb_transfer_ctrl_out_pkt
<1>10. CASE libusb_transfer_ctrl_rb
  <2>1. CASE /\ ft.dev # <<>>
             /\ ft' = [ft EXCEPT !.inbusy = FALSE, !.in = Head(ft.dev), !.dev = Tail(@),
                                 !.rb = @ + 1]
    BY <2>1
  <2>2. CASE ft.errs > 0 /\ ft' = FtErr([ft EXCEPT !.inbusy = FALSE])
    BY <2>2
  <2> QED
    BY <1>10, <2>1, <2>2 DEF libusb_transfer_ctrl_rb
<1>11. CASE UNCHANGED ft
  BY <1>11
<1> QED
  BY <1>1, <1>2, <1>3, <1>4, <1>5, <1>6, <1>7, <1>8, <1>9, <1>10, <1>11 DEF FtNext

LEMMA FtLockedStep == FtRecord /\ FtFields /\ FtLocked /\ [FtNext]_ft => FtLocked'
<1> SUFFICES ASSUME FtRecord, FtFields, FtLocked, [FtNext]_ft PROVE FtLocked'
  OBVIOUS
<1> USE DEF FtRecord, FtFields, FtLocked, FtHolds, FtAt, FtErr, FtEnd, FtPost
<1>1. ASSUME NEW t \in FtThreads, FtFill(t) PROVE FtLocked'
  <2>1. ft'.sem = ft.sem /\ ft'.pc = [ft.pc EXCEPT ![t] = "filled"] /\ ft.pc[t] = "idle"
    BY <1>1 DEF FtFill
  <2>2. FtHolds(ft') = FtHolds(ft)
    BY <2>1
  <2> QED
    BY <2>1, <2>2
<1>2. ASSUME NEW t \in FtThreads, usbft601_uram_ctrl_out_pkt(t) PROVE FtLocked'
  <2>1. CASE ft.outbusy
    <3>1. ft'.sem = ft.sem /\ ft'.pc = [ft.pc EXCEPT ![t] = "idle"] /\ ft.pc[t] = "filled"
      BY <1>2, <2>1 DEF usbft601_uram_ctrl_out_pkt
    <3>2. FtHolds(ft') = FtHolds(ft)
      BY <3>1
    <3> QED
      BY <3>1, <3>2
  <2>2. CASE ~ft.outbusy
    <3>1. ft'.sem = ft.sem - 1 /\ ft'.pc = [ft.pc EXCEPT ![t] = "out"] /\ ft.sem > 0
      BY <1>2, <2>2 DEF usbft601_uram_ctrl_out_pkt
    <3>2. ft.sem = 1 /\ FtHolds(ft) = {}
      BY <3>1
    <3>3. FtHolds(ft') = {t}
      BY <3>1, <3>2
    <3>4. ft'.sem = 0
      BY <3>1, <3>2
    <3> HIDE DEF FtHolds, FtRecord, FtFields
    <3> QED
      BY <3>3, <3>4
  <2> QED
    BY <2>1, <2>2
<1>3. ASSUME NEW t \in FtThreads, FtOutFails(t) PROVE FtLocked'
  BY <1>3, ZenonT(40) DEF FtOutFails
<1>4. ASSUME NEW t \in FtThreads, usbft601_uram_ctrl_in_pkt(t) PROVE FtLocked'
  <2>1. CASE ft.inbusy
    <3>1. ft'.sem = ft.sem + 1 /\ ft'.pc = [ft.pc EXCEPT ![t] = "idle"] /\ ft.pc[t] = "out"
      BY <1>4, <2>1 DEF usbft601_uram_ctrl_in_pkt
    <3>2. ft.sem = 0 /\ FtHolds(ft) = {t}
      BY <3>1
    <3>3. FtHolds(ft') = {}
      BY <3>1, <3>2
    <3> QED
      BY <3>1, <3>2, <3>3
  <2>2. CASE ~ft.inbusy
    <3>1. ft'.sem = ft.sem /\ ft'.pc = [ft.pc EXCEPT ![t] = "wait"] /\ ft.pc[t] = "out"
      BY <1>4, <2>2 DEF usbft601_uram_ctrl_in_pkt
    <3>2. FtHolds(ft') = FtHolds(ft)
      BY <3>1
    <3> QED
      BY <3>1, <3>2
  <2> QED
    BY <2>1, <2>2
<1>5. ASSUME NEW t \in FtThreads, FtInFails(t) PROVE FtLocked'
  BY <1>5 DEF FtInFails
<1>6. ASSUME NEW t \in FtThreads, usbft601_sem_ctrl_rb_wait(t) PROVE FtLocked'
  BY <1>6, ZenonT(40) DEF usbft601_sem_ctrl_rb_wait
<1>7. ASSUME NEW t \in FtThreads, FtWaitFails(t) PROVE FtLocked'
  BY <1>7 DEF FtWaitFails
<1>8. ASSUME NEW t \in FtThreads, FtParse(t) PROVE FtLocked'
  BY <1>8 DEF FtParse
<1>9. CASE libusb_transfer_ctrl_out_pkt
  BY <1>9 DEF libusb_transfer_ctrl_out_pkt
<1>10. CASE libusb_transfer_ctrl_rb
  BY <1>10 DEF libusb_transfer_ctrl_rb
<1>11. CASE UNCHANGED ft
  BY <1>11
<1> QED
  BY <1>1, <1>2, <1>3, <1>4, <1>5, <1>6, <1>7, <1>8, <1>9, <1>10, <1>11 DEF FtNext

LEMMA FtCleanStep == FtRecord /\ FtFields /\ FtCleanInv /\ [FtNext]_ft => FtCleanInv'
<1> SUFFICES ASSUME FtRecord, FtFields, FtCleanInv, [FtNext]_ft, ft'.clean
             PROVE  FtAlone' /\ FtRest' /\ FtStages' /\ FtReplies'
  BY DEF FtCleanInv
<1> USE DEF FtAlone, FtRest, FtStages, FtReplies, FtStage, FtQuiet, FtUnanswered, FtAnswered
<1>1. ASSUME NEW t \in FtThreads, FtFill(t)
      PROVE  FtAlone' /\ FtRest' /\ FtStages' /\ FtReplies'
  <2>1. /\ ft'.clean = (ft.clean /\ \A u \in FtThreads : ft.pc[u] = "idle")
        /\ ft'.pc = [ft.pc EXCEPT ![t] = "filled"]
        /\ ft'.cmd = [ft.cmd EXCEPT ![t] = ft.ops + 1] /\ ft'.out = ft.ops + 1
        /\ ft'.got = [ft.got EXCEPT ![t] = <<>>]
        /\ ft'.outbusy = ft.outbusy /\ ft'.inbusy = ft.inbusy
        /\ ft'.dev = ft.dev /\ ft'.rb = ft.rb
    BY <1>1 DEF FtFill, FtRecord, FtAt
  <2>2. ft.clean /\ \A u \in FtThreads : ft.pc[u] = "idle"
    BY <2>1
  <2>3. FtQuiet /\ FtReplies
    BY <2>2 DEF FtCleanInv
  <2> QED
    BY <2>1, <2>2, <2>3, SMTT(30) DEF FtFields
<1>2. ASSUME NEW t \in FtThreads, usbft601_uram_ctrl_out_pkt(t)
      PROVE  FtAlone' /\ FtRest' /\ FtStages' /\ FtReplies'
  <2>1. ft'.clean = ft.clean
    BY <1>2 DEF usbft601_uram_ctrl_out_pkt, FtRecord, FtEnd
  <2>2. /\ ft.pc[t] = "filled" /\ FtQuiet /\ ft.out = ft.cmd[t] /\ FtReplies
        /\ \A u \in FtThreads \ {t} : ft.pc[u] = "idle"
    BY <1>2, <2>1 DEF usbft601_uram_ctrl_out_pkt, FtAt, FtCleanInv
  <2>3. /\ ft'.pc = [ft.pc EXCEPT ![t] = "out"] /\ ft'.outbusy
        /\ ft'.inbusy = ft.inbusy /\ ft'.dev = ft.dev /\ ft'.rb = ft.rb
        /\ ft'.out = ft.out /\ ft'.cmd = ft.cmd /\ ft'.got = ft.got
    BY <1>2, <2>2 DEF usbft601_uram_ctrl_out_pkt, FtRecord
  <2> QED
    BY <2>2, <2>3 DEF FtFields
<1>3. ASSUME NEW t \in FtThreads, FtOutFails(t) \/ FtInFails(t) \/ FtWaitFails(t)
      PROVE  FALSE
  BY <1>3 DEF FtOutFails, FtInFails, FtWaitFails, FtErr, FtPost, FtEnd, FtRecord
<1>4. ASSUME NEW t \in FtThreads, usbft601_uram_ctrl_in_pkt(t)
      PROVE  FtAlone' /\ FtRest' /\ FtStages' /\ FtReplies'
  <2>1. ft'.clean = ft.clean
    BY <1>4 DEF usbft601_uram_ctrl_in_pkt, FtRecord, FtPost, FtEnd
  <2>2. /\ ft.pc[t] = "out" /\ ~ft.inbusy /\ FtUnanswered(ft.cmd[t]) /\ FtReplies
        /\ \A u \in FtThreads \ {t} : ft.pc[u] = "idle"
    BY <1>4, <2>1 DEF usbft601_uram_ctrl_in_pkt, FtAt, FtCleanInv
  <2>3. /\ ft'.pc = [ft.pc EXCEPT ![t] = "wait"] /\ ft'.inbusy
        /\ ft'.outbusy = ft.outbusy /\ ft'.dev = ft.dev /\ ft'.rb = ft.rb
        /\ ft'.out = ft.out /\ ft'.cmd = ft.cmd /\ ft'.got = ft.got
    BY <1>4, <2>2, ZenonT(40) DEF usbft601_uram_ctrl_in_pkt, FtRecord
  <2>4. ft'.pc[t] = "wait" /\ \A u \in FtThreads \ {t} : ft'.pc[u] = "idle"
    BY <2>2, <2>3 DEF FtFields
  <2>5. FtStage(t)'
    BY <2>2, <2>3, <2>4
  <2> QED
    BY <2>2, <2>3, <2>4, <2>5
<1>5. ASSUME NEW t \in FtThreads, usbft601_sem_ctrl_rb_wait(t)
      PROVE  FtAlone' /\ FtRest' /\ FtStages' /\ FtReplies'
  <2>1. ft'.clean = ft.clean
    BY <1>5 DEF usbft601_sem_ctrl_rb_wait, FtRecord
  <2>2. /\ ft.pc[t] = "wait" /\ ft.rb = 1 /\ FtAnswered(ft.cmd[t]) /\ FtReplies
        /\ \A u \in FtThreads \ {t} : ft.pc[u] = "idle"
    BY <1>5, <2>1 DEF usbft601_sem_ctrl_rb_wait, FtAt, FtCleanInv
  <2>3. /\ ft'.pc = [ft.pc EXCEPT ![t] = "parse"] /\ ft'.rb = ft.rb - 1
        /\ ft'.inbusy = ft.inbusy /\ ft'.outbusy = ft.outbusy /\ ft'.dev = ft.dev
        /\ ft'.in = ft.in /\ ft'.cmd = ft.cmd /\ ft'.got = ft.got
    BY <1>5 DEF usbft601_sem_ctrl_rb_wait, FtRecord
  <2> QED
    BY <2>2, <2>3 DEF FtFields
<1>6. ASSUME NEW t \in FtThreads, FtParse(t)
      PROVE  FtAlone' /\ FtRest' /\ FtStages' /\ FtReplies'
  <2>1. ft'.clean = ft.clean
    BY <1>6 DEF FtParse, FtPost, FtEnd, FtRecord
  <2>2. /\ ft.pc[t] = "parse" /\ ft.rb = 0 /\ FtAnswered(ft.cmd[t]) /\ FtReplies
        /\ \A u \in FtThreads \ {t} : ft.pc[u] = "idle"
    BY <1>6, <2>1 DEF FtParse, FtAt, FtCleanInv
  <2>3. /\ ft'.pc = [ft.pc EXCEPT ![t] = "idle"] /\ ft'.rb = ft.rb
        /\ ft'.inbusy = ft.inbusy /\ ft'.outbusy = ft.outbusy /\ ft'.dev = ft.dev
        /\ ft'.got = [ft.got EXCEPT ![t] = <<ft.cmd[t], ft.in>>]
    BY <1>6 DEF FtParse, FtPost, FtEnd, FtRecord
  <2>4. \A u \in FtThreads : ft'.pc[u] = "idle"
    BY <2>2, <2>3 DEF FtFields
  <2>5. FtQuiet'
    BY <2>2, <2>3
  <2>6. FtReplies'
    BY <2>2, <2>3 DEF FtFields
  <2> QED
    BY <2>4, <2>5, <2>6
<1>7. CASE libusb_transfer_ctrl_out_pkt
  <2>1. /\ ft'.clean = ft.clean /\ ft.outbusy /\ ~ft'.outbusy
        /\ ft'.dev = Append(ft.dev, ft.out) /\ ft'.pc = ft.pc /\ ft'.rb = ft.rb
        /\ ft'.inbusy = ft.inbusy /\ ft'.out = ft.out /\ ft'.in = ft.in
        /\ ft'.cmd = ft.cmd /\ ft'.got = ft.got
    BY <1>7 DEF libusb_transfer_ctrl_out_pkt, FtErr, FtRecord
  <2>2. FtAlone /\ FtRest /\ FtStages /\ FtReplies
    BY <2>1 DEF FtCleanInv
  <2>3. ft.dev = <<>> => ft'.dev = <<ft.out>>
    BY <2>1 DEF FtFields
  <2> QED
    BY <2>1, <2>2, <2>3 DEF FtFields
<1>8. CASE libusb_transfer_ctrl_rb
  <2>1. /\ ft'.clean = ft.clean /\ ft.inbusy /\ ~ft'.inbusy /\ ft.dev # <<>>
        /\ ft'.in = Head(ft.dev) /\ ft'.dev = Tail(ft.dev) /\ ft'.pc = ft.pc
        /\ ft'.rb = ft.rb + 1 /\ ft'.outbusy = ft.outbusy /\ ft'.out = ft.out
        /\ ft'.cmd = ft.cmd /\ ft'.got = ft.got
    BY <1>8 DEF libusb_transfer_ctrl_rb, FtErr, FtRecord
  <2>2. FtAlone /\ FtRest /\ FtStages /\ FtReplies
    BY <2>1 DEF FtCleanInv
  <2>3. \A c \in Nat : ft.dev = <<c>> => ft'.dev = <<>> /\ ft'.in = c
    BY <2>1 DEF FtFields
  <2> QED
    BY <2>1, <2>2, <2>3, SMTT(30) DEF FtFields
<1>9. CASE UNCHANGED ft
  BY <1>9 DEF FtCleanInv
<1> QED
  BY <1>1, <1>2, <1>3, <1>4, <1>5, <1>6, <1>7, <1>8, <1>9 DEF FtNext

(* The invariant implies what the run checks.                              *)
LEMMA FtInvImplies == FtInv => FtExchanges
<1> SUFFICES ASSUME FtInv PROVE FtExchanges
  OBVIOUS
<1>1. Cardinality({}) = 0
  BY FS_EmptySet
<1>2. \A t \in FtThreads : Cardinality({t}) = 1
  BY FS_Singleton
<1>3. FtOneCaller
  BY <1>1, <1>2 DEF FtInv, FtLocked, FtOneCaller
<1>4. FtOwnReply
  BY DEF FtInv, FtCleanInv, FtReplies, FtOwnReply
<1> QED
  BY <1>3, <1>4 DEF FtExchanges

(* usbft601_ctrl_transfer, whatever fails and gives up in it: the lock is  *)
(* given back exactly once on every way out, so two callers are never      *)
(* inside; and calls that do not overlap get their own replies until the   *)
(* first failure.                                                          *)
THEOREM FtExchangesSafe == FtSpec => []FtExchanges
<1>1. FtInv /\ [FtNext]_ft => FtInv'
  BY FtRecordStep, FtFieldsStep, FtLockedStep, FtCleanStep DEF FtInv, FtTypeOK
<1> QED
  BY FtInitInv, <1>1, FtInvImplies, PTL DEF FtSpec

(***************************************************************************)
(* LimeStream                                                              *)
(***************************************************************************)

(* The stream is a record of these fields.                                 *)
LimeRecord(s) ==
    s = [pc |-> s.pc, dma |-> s.dma, cons |-> s.cons, hdr |-> s.hdr, prev |-> s.prev,
         lag |-> s.lag, over |-> s.over, host |-> s.host, fsym |-> s.fsym, hwt |-> s.hwt,
         bufs |-> s.bufs, restarts |-> s.restarts, last |-> s.last, due |-> s.due,
         since |-> s.since, tx |-> s.tx]

LimeFields(s) ==
    /\ s.pc \in {"idle", "wait", "burst"} /\ s.hdr \in BOOLEAN
    /\ s.cons \in Nat /\ s.over \in Nat
    /\ s.lag \in 0..LimeTime-1 /\ s.hwt \in 0..LimeTime-1
    /\ s.prev \in 0..LimeTime /\ s.fsym \in 0..LimeTime /\ s.due \in 0..LimeTime
    /\ s.host \in Seq(0..LimeTime)
    /\ s.dma # <<>> => s.dma \in [1..LimeBursts -> 0..LimeTime-1]

(* The packet so far: samples at the places their times say.               *)
LimePacket(s) ==
    /\ Len(s.host) <= LimePkt
    /\ \A k \in 1..Len(s.host) : s.host[k] \in {LimeZero, LimeAdd(s.fsym, k - 1)}

(* Where recv is in the buffer: behind its last sample, between two bursts *)
(* or inside one, whose header was seen; a lag that is left over stands    *)
(* before the first sample of its burst.                                   *)
LimePlace(s) ==
    /\ s.hdr => s.prev # LimeNone /\ s.dma # <<>>
    /\ ~s.hdr => s.lag = 0 /\ s.cons % LimeBurst = 0
    /\ s.lag # 0 => s.cons % LimeBurst = 0
    /\ s.dma # <<>> => s.cons < LimeBurst * LimeBursts

(* The time of the sample that comes next, after what is missing.          *)
LimeHere(s) == LimeAdd(s.prev, IF s.hdr THEN s.cons % LimeBurst ELSE LimeBurst)

(* The time t is that of the first sample still to be accounted for.       *)
LimeAt(s, t) == s.prev # LimeNone /\ LimeAdd(t, s.lag) = LimeHere(s)

(* A packet in the making goes on with the sample to come, and began where *)
(* the packet before ended, but for the whole packets counted in over.     *)
LimeGoesOn(s) ==
    IF s.host = <<>> \/ s.pc = "idle"
    THEN s.due # LimeNone => s.over = 0 /\ LimeAt(s, s.due)
    ELSE /\ s.fsym # LimeNone
         /\ LimeAt(s, LimeAdd(s.fsym, Len(s.host)))
         /\ s.lag = 0
         /\ s.due # LimeNone => s.fsym = LimeAdd(s.due, LimePkt * s.over)

LimeStateOK(s) ==
    /\ LimeRecord(s) /\ LimeFields(s) /\ LimePacket(s) /\ LimePlace(s) /\ LimeGoesOn(s)
    /\ s.pc # "idle" => (s.pc = "burst" <=> s.dma # <<>>) /\ Len(s.host) < LimePkt

LimeInv == LimeStateOK(lrx)
-----------------------------------------------------------------------------
(* Times modulo LimeTime.                                                  *)
LEMMA LimeAddType == \A a, b \in Nat : LimeAdd(a, b) \in 0..LimeTime-1
  BY LimeAssumption DEF LimeAdd

LEMMA LimeAddAdd ==
    ASSUME NEW a \in Nat, NEW b \in Nat, NEW c \in Nat
    PROVE  LimeAdd(LimeAdd(a, b), c) = LimeAdd(a, b + c)
<1>1. LimeTime \in Nat \ {0} /\ a + b \in Nat
  BY LimeAssumption
<1>2. (((a + b) % LimeTime) + c) % LimeTime = ((a + b) + c) % LimeTime
  BY <1>1, ModAdd
<1>3. (a + b) + c = a + (b + c)
  OBVIOUS
<1> QED
  BY <1>2, <1>3 DEF LimeAdd

LEMMA LimeAddZero == ASSUME NEW a \in 0..LimeTime-1 PROVE LimeAdd(a, 0) = a
<1>1. LimeTime \in Nat \ {0} /\ a + 0 = a
  BY LimeAssumption
<1> QED
  BY <1>1, NoWrap DEF LimeAdd

(* What is added and taken away again leaves a time as it was.             *)
LEMMA LimeAddSub ==
    ASSUME NEW a \in 0..LimeTime-1, NEW b \in Nat
    PROVE  /\ LimeSub(a, b) \in 0..LimeTime-1
           /\ LimeAdd(LimeSub(a, b), b) = a
           /\ LimeSub(LimeAdd(a, b), b) = a
<1> DEFINE T == LimeTime
           r == b % T
           q == b \div T
<1>1. T \in Nat \ {0}
  BY LimeAssumption
<1>2. r \in 0..T-1 /\ q \in Nat /\ b = T * q + r
  BY <1>1
<1> HIDE DEF T, r, q
<1>3. a + T - r \in Nat /\ a \in Nat
  BY <1>1, <1>2 DEF T
<1>4. LimeSub(a, b) = (a + T - r) % T
  BY DEF LimeSub, T, r
<1>5. (a + T * (q + 1)) % T = a
  <2> DEFINE n == q + 1
  <2>1. n \in Nat
    BY <1>2
  <2> HIDE DEF n
  <2>2. (a + T * n) % T = a % T
    BY <1>1, <1>3, <2>1, ModMultiple
  <2> QED
    BY <1>1, <2>2, NoWrap DEF T, n
<1>6. T * (q + 1) = T * q + T /\ T * q \in Nat
  BY <1>1, <1>2
<1>7. LimeAdd(LimeSub(a, b), b) = a
  <2>1. (((a + T - r) % T) + b) % T = ((a + T - r) + b) % T
    BY <1>1, <1>3, ModAdd
  <2>2. (a + T - r) + b = a + T * (q + 1)
    BY <1>1, <1>2, <1>3, <1>6
  <2> QED
    BY <1>4, <1>5, <2>1, <2>2 DEF LimeAdd, T
<1>8. LimeSub(LimeAdd(a, b), b) = a
  <2>1. T - r \in Nat
    BY <1>1, <1>2
  <2>2. (((a + b) % T) + (T - r)) % T = ((a + b) + (T - r)) % T
    <3> DEFINE c == a + b
               d == T - r
    <3>1. c \in Nat /\ d \in Nat
      BY <1>3, <2>1
    <3> HIDE DEF c, d
    <3>2. ((c % T) + d) % T = (c + d) % T
      BY <1>1, <3>1, ModAdd
    <3> QED
      BY <3>2 DEF c, d
  <2>3. (a + b) + (T - r) = a + T * (q + 1)
    BY <1>1, <1>2, <1>3, <1>6
  <2>4. LimeSub(LimeAdd(a, b), b) = (((a + b) % T) + T - r) % T
    BY DEF LimeSub, LimeAdd, T, r
  <2>5. ((a + b) % T) + T - r = ((a + b) % T) + (T - r)
    BY <1>1, <1>2, <1>3
  <2> QED
    BY <1>5, <2>2, <2>3, <2>4, <2>5
<1> QED
  BY <1>1, <1>3, <1>4, <1>7, <1>8 DEF T

-----------------------------------------------------------------------------
(* One pass of the loop of recv, part after part.                          *)

(* The packet has begun, where the one before ended, and goes on.          *)
LimeBegan(s) ==
    /\ s.fsym # LimeNone
    /\ LimeAt(s, LimeAdd(s.fsym, Len(s.host)))
    /\ s.due # LimeNone => s.fsym = LimeAdd(s.due, LimePkt * s.over)

LimeInBurst(s) ==
    /\ s.pc = "burst" /\ s.dma # <<>> /\ s.hdr /\ s.prev # LimeNone
    /\ s.cons < LimeBurst * LimeBursts
    /\ s.lag # 0 => s.cons % LimeBurst = 0

(* The header was read.                                                    *)
LimeSeen(s) ==
    /\ LimeInBurst(s) /\ Len(s.host) < LimePkt
    /\ s.host # <<>> => LimeBegan(s)
    /\ s.host = <<>> => (s.due # LimeNone => s.over = 0 /\ LimeAt(s, s.due))

(* What is missing was filled in, as far as the packet goes.               *)
LimeFilled(s) ==
    /\ LimeInBurst(s)
    /\ s.lag # 0 => Len(s.host) = LimePkt
    /\ s.host # <<>> => LimeBegan(s)
    /\ s.host = <<>> => (s.due # LimeNone => LimeAt(s, LimeAdd(s.due, LimePkt * s.over)))

(* Samples were copied, as far as the packet or the burst goes.            *)
LimeCopied(s) ==
    /\ s.pc = "burst" /\ s.dma # <<>> /\ s.prev # LimeNone /\ s.host # <<>>
    /\ s.cons <= LimeBurst * LimeBursts
    /\ s.lag # 0 => s.cons % LimeBurst = 0 /\ Len(s.host) = LimePkt
    /\ ~s.hdr => s.lag = 0 /\ s.cons % LimeBurst = 0
    /\ s.cons = LimeBurst * LimeBursts => ~s.hdr
    /\ LimeBegan(s)

LEMMA LimeNats ==
    /\ LimeBurst \in Nat \ {0} /\ LimeBursts \in Nat \ {0} /\ LimePkt \in Nat \ {0}
    /\ LimeTime \in Nat \ {0}
  BY LimeAssumption

LEMMA LimeTimes ==
    ASSUME NEW s, LimeFields(s)
    PROVE  /\ s.fsym \in Nat /\ s.due \in Nat /\ s.prev \in Nat /\ s.lag \in Nat /\ s.cons \in Nat
           /\ Len(s.host) \in Nat
           /\ LimeAdd(s.fsym, Len(s.host)) \in 0..LimeTime-1
           /\ s.due # LimeNone => s.due \in 0..LimeTime-1
           /\ s.prev # LimeNone => s.prev \in 0..LimeTime-1
<1>1. /\ s.fsym \in Nat /\ s.due \in Nat /\ s.prev \in Nat /\ s.lag \in Nat /\ s.cons \in Nat
      /\ s.due # LimeNone => s.due \in 0..LimeTime-1
      /\ s.prev # LimeNone => s.prev \in 0..LimeTime-1
  BY LimeNats, SMTT(30) DEF LimeFields, LimeNone
<1>2. Len(s.host) \in Nat
  BY DEF LimeFields
<1> QED
  BY <1>1, <1>2, LimeAddType

LEMMA LimeHeaderOK ==
    ASSUME NEW s, LimeRecord(s), LimeFields(s), LimePacket(s), LimePlace(s), LimeGoesOn(s),
           s.pc = "burst", s.dma # <<>>, Len(s.host) < LimePkt
    PROVE  /\ LimeRecord(LimeHeader(s)) /\ LimeFields(LimeHeader(s)) /\ LimePacket(LimeHeader(s))
           /\ LimeSeen(LimeHeader(s)) /\ LimeHeader(s).due = s.due
<1>1. CASE s.hdr
  <2>1. LimeHeader(s) = s
    BY <1>1 DEF LimeHeader
  <2>2. LimeInBurst(s)
    BY <1>1 DEF LimePlace, LimeInBurst
  <2> QED
    BY <2>1, <2>2 DEF LimeSeen, LimeGoesOn, LimeBegan
<1>2. CASE ~s.hdr
  <2> DEFINE r == LimeHeader(s)
             t == s.dma[s.cons \div LimeBurst + 1]
  <2>1. LimeRecord(r)
    BY <1>2 DEF LimeRecord, LimeHeader
  <2>2. /\ r.pc = s.pc /\ r.dma = s.dma /\ r.cons = s.cons /\ r.over = s.over
        /\ r.host = s.host /\ r.fsym = s.fsym /\ r.hwt = s.hwt /\ r.due = s.due
        /\ r.hdr = TRUE /\ r.prev = t
        /\ r.lag = IF s.prev = LimeNone THEN 0 ELSE LimeSub(t, LimeAdd(s.prev, LimeBurst))
    BY <1>2 DEF LimeRecord, LimeHeader
  <2> HIDE DEF r, t
  <2>3. t \in 0..LimeTime-1
    <3>1. s.cons \in Nat /\ s.cons < LimeBurst * LimeBursts
      BY DEF LimeFields, LimePlace
    <3>2. s.cons \div LimeBurst + 1 \in 1..LimeBursts
      <4> DEFINE q == s.cons \div LimeBurst
                 o == s.cons % LimeBurst
      <4>1. q \in Nat /\ o \in 0..LimeBurst-1 /\ s.cons = LimeBurst * q + o
        BY <3>1, LimeNats, DivMod
      <4> HIDE DEF q, o
      <4>2. q < LimeBursts
        <5> SUFFICES ASSUME q >= LimeBursts PROVE FALSE
          BY <4>1, LimeNats
        <5>1. LimeBurst * q >= LimeBurst * LimeBursts
          BY <4>1, LimeNats
        <5> QED
          BY <3>1, <4>1, <5>1, LimeNats
      <4> QED
        BY <4>1, <4>2, LimeNats, SMTT(30) DEF q
    <3> QED
      BY <3>2 DEF LimeFields, t
  <2>4. t \in Nat /\ t # LimeNone /\ t \in 0..LimeTime
    BY <2>3, LimeNats DEF LimeNone
  <2>5. ASSUME s.prev # LimeNone
        PROVE  /\ LimeAdd(s.prev, LimeBurst) \in 0..LimeTime-1
               /\ r.lag \in 0..LimeTime-1
               /\ LimeAdd(LimeAdd(s.prev, LimeBurst), r.lag) = t
    <3> DEFINE w == LimeAdd(s.prev, LimeBurst)
    <3>1. w \in 0..LimeTime-1 /\ w \in Nat
      <4>1. s.prev \in Nat
        BY LimeTimes
      <4>2. w \in 0..LimeTime-1
        BY <4>1, LimeAddType, LimeNats
      <4> HIDE DEF w
      <4> QED
        BY <4>2, LimeNats
    <3> HIDE DEF w
    <3>2. LimeSub(t, w) \in 0..LimeTime-1 /\ LimeAdd(LimeSub(t, w), w) = t
      BY <2>3, <3>1, LimeAddSub
    <3>3. LimeAdd(w, LimeSub(t, w)) = LimeAdd(LimeSub(t, w), w)
      BY <3>1, <3>2 DEF LimeAdd
    <3> QED
      BY <2>2, <2>5, <3>1, <3>2, <3>3 DEF w
  <2>6. r.lag \in 0..LimeTime-1
    BY <2>2, <2>5, LimeNats
  <2>7. LimeFields(r) /\ LimePacket(r)
    BY <2>2, <2>3, <2>4, <2>6 DEF LimeFields, LimePacket
  <2>8. s.cons % LimeBurst = 0 /\ s.lag = 0
    BY <1>2 DEF LimePlace
  <2>9. LimeInBurst(r)
    BY <2>2, <2>4, <2>8 DEF LimeInBurst, LimePlace
  <2>10. LimeHere(r) = t
    BY <2>2, <2>3, <2>8, LimeAddZero DEF LimeHere
  <2>11. ASSUME NEW x \in 0..LimeTime-1, LimeAt(s, x) PROVE LimeAt(r, x)
    <3>1. LimeAdd(x, 0) = LimeAdd(s.prev, LimeBurst) /\ s.prev # LimeNone
      BY <1>2, <2>8, <2>11 DEF LimeAt, LimeHere
    <3>2. x = LimeAdd(s.prev, LimeBurst)
      BY <3>1, LimeAddZero
    <3> QED
      BY <2>2, <2>4, <2>5, <2>10, <3>1, <3>2 DEF LimeAt
  <2>12. LimeAdd(s.fsym, Len(s.host)) \in 0..LimeTime-1 /\ (s.due # LimeNone => s.due \in 0..LimeTime-1)
    BY LimeTimes
  <2>13. s.host # <<>> => LimeBegan(r)
    BY <2>2, <2>11, <2>12 DEF LimeGoesOn, LimeBegan
  <2>14. s.host = <<>> => (s.due # LimeNone => s.over = 0 /\ LimeAt(r, s.due))
    BY <2>11, <2>12 DEF LimeGoesOn
  <2> QED
    BY <2>1, <2>2, <2>7, <2>9, <2>13, <2>14 DEF LimeSeen, r
<1> QED
  BY <1>1, <1>2

(* A place in the buffer moved on by n samples of the same burst.          *)
LEMMA LimeAdvance ==
    ASSUME NEW c \in Nat, c < LimeBurst * LimeBursts, NEW n \in Nat,
           n <= LimeBurst - (c % LimeBurst)
    PROVE  /\ c % LimeBurst \in 0..LimeBurst-1
           /\ c + n <= LimeBurst * LimeBursts
           /\ (c % LimeBurst) + n < LimeBurst => (c + n) % LimeBurst = (c % LimeBurst) + n
           /\ (c % LimeBurst) + n = LimeBurst => (c + n) % LimeBurst = 0
<1> DEFINE q == c \div LimeBurst
           o == c % LimeBurst
<1>1. q \in Nat /\ o \in 0..LimeBurst-1 /\ c = LimeBurst * q + o
  BY LimeNats, DivMod
<1> HIDE DEF q, o
<1>2. n <= LimeBurst - o
  BY DEF o
<1>3. LimeBurst * q \in Nat /\ LimeBurst * (q + 1) = LimeBurst * q + LimeBurst
  BY <1>1, LimeNats
<1>4. q + 1 <= LimeBursts
  <2> SUFFICES ASSUME q >= LimeBursts PROVE FALSE
    BY <1>1, LimeNats
  <2>1. LimeBurst * q >= LimeBurst * LimeBursts
    BY <1>1, LimeNats
  <2> QED
    BY <1>1, <1>3, <2>1, LimeNats
<1>5. LimeBurst * (q + 1) <= LimeBurst * LimeBursts
  BY <1>1, <1>4, LimeNats
<1>6. c + n <= LimeBurst * LimeBursts
  <2>1. LimeBurst * LimeBursts \in Nat
    BY LimeNats
  <2> QED
    BY <1>1, <1>2, <1>3, <1>5, <2>1, LimeNats
<1>7. ASSUME o + n < LimeBurst PROVE (c + n) % LimeBurst = o + n
  <2> DEFINE r == o + n
  <2>1. r \in 0..LimeBurst-1 /\ c + n = LimeBurst * q + r
    BY <1>1, <1>3, <1>7, LimeNats
  <2> HIDE DEF r
  <2>2. (LimeBurst * q + r) % LimeBurst = r
    BY <1>1, <2>1, LimeNats, DivModUnique
  <2> QED
    BY <2>1, <2>2 DEF r
<1>8. ASSUME o + n = LimeBurst PROVE (c + n) % LimeBurst = 0
  <2> DEFINE p == q + 1
  <2>1. p \in Nat /\ 0 \in 0..LimeBurst-1 /\ c + n = LimeBurst * p + 0
    BY <1>1, <1>3, <1>8, LimeNats
  <2> HIDE DEF p
  <2>2. (LimeBurst * p + 0) % LimeBurst = 0
    BY <2>1, LimeNats, DivModUnique
  <2> QED
    BY <2>1, <2>2
<1> QED
  BY <1>1, <1>6, <1>7, <1>8 DEF o

LEMMA LimeMinOK ==
    ASSUME NEW a \in Nat, NEW b \in Nat
    PROVE  /\ LimeMin(a, b) \in Nat /\ LimeMin(a, b) <= a /\ LimeMin(a, b) <= b
           /\ LimeMin(a, b) = a \/ LimeMin(a, b) = b
  BY DEF LimeMin

(* Zeros at the end of a packet.                                           *)
LEMMA LimeZeros ==
    ASSUME NEW h \in Seq(0..LimeTime), NEW n \in Nat
    PROVE  /\ h \o LimeFill(n) \in Seq(0..LimeTime)
           /\ Len(h \o LimeFill(n)) = Len(h) + n
           /\ \A k \in 1..Len(h) : (h \o LimeFill(n))[k] = h[k]
           /\ \A k \in (Len(h) + 1)..(Len(h) + n) : (h \o LimeFill(n))[k] = LimeZero
<1>1. LimeTime \in 0..LimeTime
  BY LimeNats
<1>2. LimeFill(n) \in Seq(0..LimeTime) /\ Len(LimeFill(n)) = n
      /\ \A k \in 1..n : LimeFill(n)[k] = LimeZero
  BY <1>1 DEF LimeFill, LimeZero
<1> QED
  BY <1>2

LEMMA LimeLagOK ==
    ASSUME NEW s, LimeRecord(s), LimeFields(s), LimePacket(s), LimeSeen(s)
    PROVE  /\ LimeRecord(LimeLag(s)) /\ LimeFields(LimeLag(s)) /\ LimePacket(LimeLag(s))
           /\ LimeFilled(LimeLag(s)) /\ LimeLag(s).due = s.due
<1> DEFINE r == LimeLag(s)
<1>0. s.due \in Nat /\ s.prev \in 0..LimeTime-1 /\ Len(s.host) \in Nat /\ s.fsym \in Nat
      /\ s.host \in Seq(0..LimeTime) /\ s.lag \in Nat /\ Len(s.host) < LimePkt /\ s.over \in Nat
      /\ s.prev \in Nat
  <2>1. s.prev # LimeNone /\ Len(s.host) < LimePkt
    BY DEF LimeSeen, LimeInBurst
  <2>2. s.host \in Seq(0..LimeTime) /\ s.over \in Nat
    BY DEF LimeFields
  <2> QED
    BY <2>1, <2>2, LimeTimes
<1>1. CASE s.lag = 0
  <2>1. r = s
    BY <1>1 DEF LimeLag
  <2>2. ASSUME s.host = <<>>, s.due # LimeNone PROVE LimeAt(s, LimeAdd(s.due, LimePkt * s.over))
    <3>1. s.over = 0 /\ LimeAt(s, s.due) /\ s.due \in 0..LimeTime-1
      BY <2>2, LimeTimes DEF LimeSeen
    <3>2. LimeAdd(s.due, LimePkt * s.over) = s.due
      BY <3>1, LimeAddZero, LimeNats
    <3> QED
      BY <3>1, <3>2
  <2> QED
    BY <1>1, <2>1, <2>2 DEF LimeFilled, LimeSeen
<1>2. CASE s.lag # 0 /\ s.host = <<>>
  <2> DEFINE m == s.lag % LimePkt
             v == s.lag \div LimePkt
  <2>1. m \in 0..LimePkt-1 /\ v \in Nat /\ s.lag = LimePkt * v + m
    BY <1>0, LimeNats, DivMod
  <2>2. LimeRecord(r)
    BY <1>2 DEF LimeRecord, LimeLag
  <2>3. /\ r.pc = s.pc /\ r.dma = s.dma /\ r.cons = s.cons /\ r.hdr = s.hdr
        /\ r.prev = s.prev /\ r.hwt = s.hwt /\ r.due = s.due
        /\ r.over = s.over + v /\ r.fsym = LimeSub(s.prev, m) /\ r.host = LimeFill(m)
        /\ r.lag = 0
    BY <1>2 DEF LimeRecord, LimeLag
  <2> HIDE DEF r, m, v
  <2>4. LimeSub(s.prev, m) \in 0..LimeTime-1 /\ LimeAdd(LimeSub(s.prev, m), m) = s.prev
    BY <1>0, <2>1, LimeAddSub
  <2>5. r.host \in Seq(0..LimeTime) /\ Len(r.host) = m /\ \A k \in 1..m : r.host[k] = LimeZero
    <3>1. LimeTime \in 0..LimeTime
      BY LimeNats
    <3> QED
      BY <2>1, <2>3, <3>1 DEF LimeFill, LimeZero
  <2>6. LimeFields(r)
    <3>1. r.over \in Nat /\ r.fsym \in 0..LimeTime /\ r.lag \in 0..LimeTime-1
      BY <1>0, <2>1, <2>3, <2>4, LimeNats, SMTT(30)
    <3> QED
      BY <2>3, <2>5, <3>1 DEF LimeFields
  <2>7. LimePacket(r)
    <3>1. Len(r.host) <= LimePkt
      BY <2>1, <2>5, LimeNats
    <3> QED
      BY <2>5, <3>1 DEF LimePacket
  <2>8. s.cons % LimeBurst = 0 /\ s.hdr
    BY <1>2 DEF LimeSeen, LimeInBurst
  <2>9. LimeHere(r) = s.prev /\ LimeHere(s) = s.prev
    BY <1>0, <2>3, <2>8, LimeAddZero DEF LimeHere
  <2>10. r.fsym # LimeNone /\ LimeAt(r, LimeAdd(r.fsym, Len(r.host)))
    <3>1. s.prev # LimeNone /\ LimeSub(s.prev, m) # LimeNone
      BY <1>0, <2>4, LimeNats DEF LimeNone
    <3>2. LimeAdd(r.fsym, Len(r.host)) = s.prev
      BY <2>3, <2>4, <2>5
    <3> QED
      BY <1>0, <2>3, <2>9, <3>1, <3>2, LimeAddZero DEF LimeAt
  <2>11. ASSUME s.due # LimeNone
         PROVE  r.fsym = LimeAdd(s.due, LimePkt * r.over)
    <3>1. s.over = 0 /\ LimeAdd(s.due, s.lag) = s.prev
      BY <1>2, <2>9, <2>11 DEF LimeSeen, LimeAt
    <3> DEFINE pv == LimePkt * v
               x == LimeAdd(s.due, pv)
    <3>2. pv \in Nat /\ LimePkt * r.over = pv
      BY <1>0, <2>1, <2>3, <3>1, LimeNats
    <3>3. s.lag = pv + m /\ m \in Nat
      BY <2>1
    <3> HIDE DEF pv
    <3>4. x \in 0..LimeTime-1
      BY <1>0, <3>2, LimeAddType
    <3>5. LimeAdd(x, m) = s.prev
      <4> DEFINE e == s.due
      <4>1. e \in Nat /\ pv \in Nat /\ m \in Nat
        BY <1>0, <3>2, <3>3
      <4> HIDE DEF e
      <4>2. LimeAdd(LimeAdd(e, pv), m) = LimeAdd(e, pv + m)
        BY <4>1, LimeAddAdd
      <4> QED
        BY <3>1, <3>3, <4>2 DEF e
    <3> HIDE DEF x
    <3>6. LimeSub(LimeAdd(x, m), m) = x
      BY <3>3, <3>4, LimeAddSub
    <3> QED
      BY <2>3, <3>2, <3>5, <3>6 DEF x
  <2>12. LimeBegan(r)
    BY <2>3, <2>10, <2>11 DEF LimeBegan
  <2>13. LimeInBurst(r)
    BY <2>3 DEF LimeInBurst, LimeSeen
  <2>14. ASSUME r.host = <<>>, s.due # LimeNone PROVE LimeAt(r, LimeAdd(s.due, LimePkt * r.over))
    <3>1. LimeAdd(r.fsym, 0) = r.fsym
      BY <2>3, <2>4, LimeAddZero
    <3>2. Len(r.host) = 0
      BY <2>14
    <3> QED
      BY <2>10, <2>11, <2>14, <3>1, <3>2
  <2> QED
    BY <2>2, <2>3, <2>6, <2>7, <2>12, <2>13, <2>14 DEF LimeFilled, r
<1>3. CASE s.lag # 0 /\ s.host # <<>>
  <2> DEFINE n == LimeMin(s.lag, LimePkt - Len(s.host))
  <2>1. n \in Nat /\ n <= s.lag /\ Len(s.host) + n <= LimePkt
        /\ (s.lag - n # 0 => Len(s.host) + n = LimePkt)
    <3> DEFINE a == s.lag
               b == LimePkt - Len(s.host)
    <3>1. a \in Nat /\ b \in Nat
      BY <1>0, LimeNats
    <3> HIDE DEF a, b
    <3>2. /\ LimeMin(a, b) \in Nat /\ LimeMin(a, b) <= a /\ LimeMin(a, b) <= b
          /\ LimeMin(a, b) = a \/ LimeMin(a, b) = b
      BY <3>1, LimeMinOK
    <3>3. n = LimeMin(a, b)
      BY DEF a, b
    <3> HIDE DEF n
    <3>4. n \in Nat /\ n <= a /\ n <= b /\ (n = a \/ n = b)
      BY <3>2, <3>3
    <3> QED
      BY <1>0, <3>4, LimeNats DEF a, b
  <2>2. LimeRecord(r)
    BY <1>3 DEF LimeRecord, LimeLag
  <2>3. /\ r.pc = s.pc /\ r.dma = s.dma /\ r.cons = s.cons /\ r.hdr = s.hdr
        /\ r.prev = s.prev /\ r.hwt = s.hwt /\ r.due = s.due /\ r.over = s.over
        /\ r.fsym = s.fsym /\ r.host = s.host \o LimeFill(n) /\ r.lag = s.lag - n
    BY <1>3 DEF LimeRecord, LimeLag
  <2> HIDE DEF r, n
  <2>4. /\ r.host \in Seq(0..LimeTime) /\ Len(r.host) = Len(s.host) + n
        /\ \A k \in 1..Len(s.host) : r.host[k] = s.host[k]
        /\ \A k \in (Len(s.host) + 1)..(Len(s.host) + n) : r.host[k] = LimeZero
    <3> DEFINE h == s.host
    <3>1. h \in Seq(0..LimeTime) /\ n \in Nat
      BY <1>0, <2>1
    <3>2. r.host = h \o LimeFill(n)
      BY <2>3
    <3> HIDE DEF h
    <3> QED
      BY <3>1, <3>2, LimeZeros, ZenonT(40) DEF h
  <2>5. LimeFields(r)
    <3>1. r.lag \in 0..LimeTime-1
      <4>1. s.lag \in 0..LimeTime-1
        BY DEF LimeFields
      <4> QED
        BY <1>0, <2>1, <2>3, <4>1, LimeNats, SMTT(30)
    <3> QED
      BY <2>3, <2>4, <3>1 DEF LimeFields
  <2>6. LimePacket(r)
    <3>1. Len(r.host) <= LimePkt
      BY <2>1, <2>4
    <3>2. ASSUME NEW k \in 1..Len(r.host) PROVE r.host[k] \in {LimeZero, LimeAdd(r.fsym, k - 1)}
      <4>1. k \in 1..Len(s.host) \/ k \in (Len(s.host) + 1)..(Len(s.host) + n)
        BY <1>0, <2>1, <2>4
      <4> QED
        BY <2>3, <2>4, <4>1 DEF LimePacket
    <3> QED
      BY <3>1, <3>2 DEF LimePacket
  <2>7. LimeInBurst(r)
    BY <1>3, <2>3 DEF LimeInBurst, LimeSeen
  <2>8. LimeAt(r, LimeAdd(r.fsym, Len(r.host)))
    <3>1. LimeAt(s, LimeAdd(s.fsym, Len(s.host))) /\ s.prev # LimeNone
      BY <1>3 DEF LimeSeen, LimeBegan, LimeInBurst
    <3> DEFINE f == s.fsym
               a == Len(s.host)
               b == s.lag
               c == Len(r.host)
               d == r.lag
    <3>2. f \in Nat /\ a \in Nat /\ b \in Nat /\ c = a + n /\ d = b - n /\ n \in Nat /\ n <= b
      BY <1>0, <2>1, <2>3, <2>4
    <3> HIDE DEF f, a, b, c, d
    <3>3. c \in Nat /\ d \in Nat /\ c + d = a + b
      BY <3>2
    <3>4. LimeAdd(LimeAdd(f, a), b) = LimeAdd(f, a + b) /\ LimeAdd(LimeAdd(f, c), d) = LimeAdd(f, c + d)
      BY <3>2, <3>3, LimeAddAdd
    <3>5. LimeHere(r) = LimeHere(s)
      BY <2>3 DEF LimeHere
    <3> QED
      BY <2>3, <3>1, <3>3, <3>4, <3>5 DEF LimeAt, a, b, c, d, f
  <2>9. LimeBegan(r)
    BY <1>3, <2>3, <2>8 DEF LimeBegan, LimeSeen
  <2>10. r.host # <<>>
    <3>1. Len(s.host) # 0
      BY <1>0, <1>3
    <3> QED
      BY <1>0, <2>1, <2>4, <3>1
  <2>11. r.lag # 0 => Len(r.host) = LimePkt
    BY <2>1, <2>3, <2>4
  <2> QED
    BY <2>2, <2>3, <2>5, <2>6, <2>7, <2>9, <2>10, <2>11 DEF LimeFilled, r
<1> QED
  BY <1>1, <1>2, <1>3

(* n samples of a burst, from the o-th on, at the end of a packet.          *)
LimeRun(p, o, n) == [i \in 1..n |-> LimeAdd(p, o + i - 1)]

LimeAppended(h, n, p, o) ==
    LET e == LimeRun(p, o, n) IN
    /\ h \o e \in Seq(0..LimeTime) /\ Len(h \o e) = Len(h) + n
    /\ \A k \in 1..Len(h) : (h \o e)[k] = h[k]
    /\ \A k \in (Len(h) + 1)..(Len(h) + n) : (h \o e)[k] = LimeAdd(p, o + (k - Len(h) - 1))

LEMMA LimeSamples ==
    ASSUME NEW h \in Seq(0..LimeTime), NEW n \in Nat, NEW p \in Nat, NEW o \in Nat
    PROVE  LimeAppended(h, n, p, o)
<1> DEFINE e == LimeRun(p, o, n)
<1>1. \A i \in 1..n : LimeAdd(p, o + i - 1) \in 0..LimeTime
  <2> SUFFICES ASSUME NEW i \in 1..n PROVE LimeAdd(p, o + i - 1) \in 0..LimeTime
    OBVIOUS
  <2> DEFINE x == o + i - 1
  <2>1. x \in Nat
    OBVIOUS
  <2> HIDE DEF x
  <2>2. LimeAdd(p, x) \in 0..LimeTime-1
    BY <2>1, LimeAddType
  <2>3. LimeAdd(p, x) \in 0..LimeTime
    BY <2>2, LimeNats
  <2> QED
    BY <2>3 DEF x
<1>2. e \in Seq(0..LimeTime) /\ Len(e) = n /\ \A i \in 1..n : e[i] = LimeAdd(p, o + i - 1)
  BY <1>1 DEF LimeRun
<1> HIDE DEF e
<1>3. h \o e \in Seq(0..LimeTime)
  BY <1>2
<1>4. Len(h \o e) = Len(h) + n /\ Len(h) \in Nat
  BY <1>2
<1>5. \A k \in 1..Len(h) : (h \o e)[k] = h[k]
  BY <1>2
<1>6. ASSUME NEW k \in (Len(h) + 1)..(Len(h) + n)
      PROVE  (h \o e)[k] = LimeAdd(p, o + (k - Len(h) - 1))
  <2>1. k - Len(h) \in 1..n /\ o + (k - Len(h)) - 1 = o + (k - Len(h) - 1)
    BY <1>4
  <2>2. (h \o e)[k] = e[k - Len(h)]
    BY <1>2, <1>4
  <2> QED
    BY <1>2, <2>1, <2>2
<1> QED
  BY <1>3, <1>4, <1>5, <1>6 DEF e, LimeAppended

LEMMA LimeCopyOK ==
    ASSUME NEW s, LimeRecord(s), LimeFields(s), LimePacket(s), LimeFilled(s)
    PROVE  /\ LimeRecord(LimeCopy(s)) /\ LimeFields(LimeCopy(s)) /\ LimePacket(LimeCopy(s))
           /\ LimeCopied(LimeCopy(s)) /\ LimeCopy(s).due = s.due
<1> DEFINE r == LimeCopy(s)
           off == s.cons % LimeBurst
           len == Len(s.host)
           n == LimeMin(LimePkt - len, LimeBurst - off)
<1>0. /\ s.due \in Nat /\ s.prev \in 0..LimeTime-1 /\ s.fsym \in Nat /\ s.prev \in Nat
      /\ s.host \in Seq(0..LimeTime) /\ s.lag \in Nat /\ s.over \in Nat /\ s.cons \in Nat
      /\ s.cons < LimeBurst * LimeBursts /\ s.hdr /\ s.prev # LimeNone
  <2>1. s.prev # LimeNone /\ s.cons < LimeBurst * LimeBursts /\ s.hdr
    BY DEF LimeFilled, LimeInBurst
  <2>2. s.host \in Seq(0..LimeTime) /\ s.over \in Nat
    BY DEF LimeFields
  <2> QED
    BY <2>1, <2>2, LimeTimes
<1>1. off \in 0..LimeBurst-1 /\ off \in Nat
  BY <1>0, LimeNats, SMTT(30)
<1>2. len \in Nat /\ len <= LimePkt
  BY LimeTimes DEF LimePacket
<1>3. /\ n \in Nat /\ len + n <= LimePkt /\ off + n <= LimeBurst
      /\ n = 0 => len = LimePkt
  <2> DEFINE a == LimePkt - len
             b == LimeBurst - off
  <2> HIDE DEF off, len
  <2>1. a \in Nat /\ b \in Nat /\ b # 0
    BY <1>1, <1>2, LimeNats
  <2> HIDE DEF a, b
  <2>2. /\ LimeMin(a, b) \in Nat /\ LimeMin(a, b) <= a /\ LimeMin(a, b) <= b
        /\ LimeMin(a, b) = a \/ LimeMin(a, b) = b
    BY <2>1, LimeMinOK
  <2>3. n = LimeMin(a, b)
    BY DEF a, b
  <2> HIDE DEF n
  <2>4. n \in Nat /\ n <= a /\ n <= b /\ (n = a \/ n = b)
    BY <2>2, <2>3
  <2> QED
    BY <1>1, <1>2, <2>1, <2>4, LimeNats DEF a, b
<1>4. CASE n = 0
  <2>1. r = s
    BY <1>4 DEF LimeCopy
  <2>2. s.host # <<>>
    BY <1>3, <1>4, LimeNats
  <2>3. LimeBegan(s)
    BY <2>2 DEF LimeFilled
  <2>4. s.cons # LimeBurst * LimeBursts /\ s.cons <= LimeBurst * LimeBursts
    <3>1. LimeBurst * LimeBursts \in Nat
      BY LimeNats
    <3> QED
      BY <1>0, <3>1
  <2>5. LimeCopied(s)
    BY <1>0, <2>2, <2>3, <2>4 DEF LimeFilled, LimeInBurst, LimeCopied
  <2> QED
    BY <2>1, <2>5
<1>5. CASE n # 0
  <2>1. LimeRecord(r)
    BY <1>5 DEF LimeRecord, LimeCopy
  <2>2. /\ r.pc = s.pc /\ r.dma = s.dma /\ r.prev = s.prev /\ r.hwt = s.hwt /\ r.due = s.due
        /\ r.over = s.over /\ r.lag = s.lag /\ r.cons = s.cons + n
        /\ r.hdr = (off + n # LimeBurst)
        /\ r.host = s.host \o [i \in 1..n |-> LimeAdd(s.prev, off + i - 1)]
        /\ r.fsym = IF s.host = <<>> THEN LimeAdd(s.prev, off) ELSE s.fsym
    BY <1>5 DEF LimeRecord, LimeCopy
  <2> HIDE DEF r, n, off
  <2>3. s.lag = 0
    <3>1. s.lag # 0 => len = LimePkt
      BY DEF LimeFilled
    <3> HIDE DEF len
    <3> QED
      BY <1>2, <1>3, <1>5, <3>1, LimeNats
  <2>4. /\ r.host \in Seq(0..LimeTime) /\ Len(r.host) = len + n
        /\ \A k \in 1..len : r.host[k] = s.host[k]
        /\ \A k \in (len + 1)..(len + n) : r.host[k] = LimeAdd(s.prev, off + (k - len - 1))
    <3> DEFINE h == s.host
               p == s.prev
               e == LimeRun(p, off, n)
    <3>1. h \in Seq(0..LimeTime) /\ p \in Nat /\ n \in Nat /\ off \in Nat
      BY <1>0, <1>1, <1>3
    <3>2. r.host = h \o e
      BY <2>2 DEF LimeRun
    <3> HIDE DEF h, p
    <3>3. LimeAppended(h, n, p, off)
      BY <3>1, LimeSamples
    <3>4. /\ h \o e \in Seq(0..LimeTime) /\ Len(h \o e) = Len(h) + n
          /\ \A k \in 1..Len(h) : (h \o e)[k] = h[k]
          /\ \A k \in (Len(h) + 1)..(Len(h) + n) : (h \o e)[k] = LimeAdd(p, off + (k - Len(h) - 1))
      BY <3>3 DEF LimeAppended
    <3> HIDE DEF e
    <3> QED
      BY <3>2, <3>4 DEF h, p
  <2>5. r.fsym \in 0..LimeTime-1 /\ r.fsym \in Nat /\ LimeAdd(r.fsym, len) = LimeAdd(s.prev, off)
    <3>1. LimeAdd(s.prev, off) \in 0..LimeTime-1
      BY <1>0, <1>1, LimeAddType
    <3>2. CASE s.host = <<>>
      <4>1. r.fsym = LimeAdd(s.prev, off) /\ len = 0
        BY <2>2, <3>2
      <4>2. LimeAdd(r.fsym, 0) = r.fsym
        BY <3>1, <4>1, LimeAddZero
      <4> HIDE DEF len
      <4> QED
        BY <3>1, <4>1, <4>2
    <3>3. CASE s.host # <<>>
      <4>1. s.fsym # LimeNone /\ LimeAt(s, LimeAdd(s.fsym, len))
        BY <3>3 DEF LimeFilled, LimeBegan
      <4>2. s.fsym \in 0..LimeTime-1
        BY <4>1, LimeNats DEF LimeFields, LimeNone
      <4>3. LimeAdd(s.fsym, len) \in 0..LimeTime-1
        BY LimeTimes
      <4>4. LimeAdd(LimeAdd(s.fsym, len), 0) = LimeAdd(s.prev, off)
        BY <1>0, <2>3, <4>1 DEF LimeAt, LimeHere, off
      <4>5. LimeAdd(LimeAdd(s.fsym, len), 0) = LimeAdd(s.fsym, len)
        BY <4>3, LimeAddZero
      <4> QED
        BY <1>0, <2>2, <3>3, <4>2, <4>4, <4>5
    <3> QED
      BY <3>2, <3>3
  <2>6. ASSUME NEW j \in Nat PROVE LimeAdd(r.fsym, len + j) = LimeAdd(s.prev, off + j)
    <3> DEFINE f == r.fsym
               p == s.prev
    <3>1. f \in Nat /\ p \in Nat /\ LimeAdd(f, len) = LimeAdd(p, off)
      BY <1>0, <2>5
    <3> HIDE DEF f, p, len
    <3>2. LimeAdd(LimeAdd(f, len), j) = LimeAdd(f, len + j)
      BY <1>2, <3>1, LimeAddAdd
    <3>3. LimeAdd(LimeAdd(p, off), j) = LimeAdd(p, off + j)
      BY <1>1, <3>1, LimeAddAdd
    <3> QED
      BY <3>1, <3>2, <3>3 DEF f, p
  <2>7. LimePacket(r)
    <3>1. Len(r.host) <= LimePkt
      BY <1>3, <2>4
    <3>2. ASSUME NEW k \in 1..Len(r.host) PROVE r.host[k] \in {LimeZero, LimeAdd(r.fsym, k - 1)}
      <4>1. CASE k \in 1..len
        <5>1. s.host # <<>>
          BY <4>1
        <5> QED
          BY <2>2, <2>4, <4>1, <5>1 DEF LimePacket
      <4>2. CASE k \in (len + 1)..(len + n)
        <5> DEFINE j == k - len - 1
        <5> HIDE DEF len
        <5>1. j \in Nat /\ len + j = k - 1
          BY <1>2, <4>2
        <5>2. r.host[k] = LimeAdd(s.prev, off + j)
          BY <2>4, <4>2
        <5>3. LimeAdd(r.fsym, len + j) = LimeAdd(s.prev, off + j)
          BY <2>6, <5>1
        <5> QED
          BY <5>1, <5>2, <5>3
      <4>3. k \in 1..len \/ k \in (len + 1)..(len + n)
        <5> HIDE DEF len
        <5> QED
          BY <1>2, <1>3, <2>4
      <4> QED
        BY <4>1, <4>2, <4>3
    <3> QED
      BY <3>1, <3>2 DEF LimePacket
  <2>8. LimeFields(r)
    <3>1. r.cons \in Nat
      <4>1. \A c, m \in Nat : c + m \in Nat
        OBVIOUS
      <4> QED
        BY <1>0, <1>3, <2>2, <4>1
    <3>3. r.fsym \in 0..LimeTime
      BY <2>5, LimeNats
    <3>2. r.hdr \in BOOLEAN
      BY <2>2
    <3> QED
      BY <2>2, <2>4, <3>1, <3>2, <3>3 DEF LimeFields
  <2>9. /\ r.cons <= LimeBurst * LimeBursts
        /\ off + n < LimeBurst => r.cons % LimeBurst = off + n
        /\ off + n = LimeBurst => r.cons % LimeBurst = 0
    <3> DEFINE c == s.cons
    <3>1. c \in Nat /\ c < LimeBurst * LimeBursts /\ n <= LimeBurst - (c % LimeBurst) /\ c % LimeBurst = off
      <4>1. c % LimeBurst = off
        BY DEF off
      <4> QED
        BY <1>0, <1>1, <1>3, <4>1, LimeNats
    <3>2. r.cons = c + n
      BY <2>2
    <3> HIDE DEF c
    <3>3. /\ c + n <= LimeBurst * LimeBursts
          /\ (c % LimeBurst) + n < LimeBurst => (c + n) % LimeBurst = (c % LimeBurst) + n
          /\ (c % LimeBurst) + n = LimeBurst => (c + n) % LimeBurst = 0
      BY <1>3, <3>1, LimeAdvance
    <3> QED
      BY <3>1, <3>2, <3>3
  <2>10. r.hdr => r.cons % LimeBurst = off + n
    <3>1. r.hdr => off + n # LimeBurst
      BY <2>2
    <3>2. off + n # LimeBurst => off + n < LimeBurst
      BY <1>1, <1>3, LimeNats
    <3> QED
      BY <2>9, <3>1, <3>2
  <2>11. LimeHere(r) = LimeAdd(s.prev, off + n)
    BY <2>2, <2>10 DEF LimeHere
  <2>12. LimeAt(r, LimeAdd(r.fsym, Len(r.host)))
    <3>1. LimeAdd(r.fsym, Len(r.host)) = LimeAdd(s.prev, off + n)
      BY <1>3, <2>4, <2>6
    <3>2. LimeAdd(r.fsym, Len(r.host)) \in 0..LimeTime-1
      BY <2>8, LimeTimes
    <3>3. LimeAdd(LimeAdd(r.fsym, Len(r.host)), 0) = LimeAdd(r.fsym, Len(r.host))
      BY <3>2, LimeAddZero
    <3> QED
      BY <1>0, <2>2, <2>3, <2>11, <3>1, <3>3 DEF LimeAt
  <2>13. ASSUME s.due # LimeNone PROVE r.fsym = LimeAdd(s.due, LimePkt * s.over)
    <3>1. CASE s.host = <<>>
      <4> DEFINE x == LimeAdd(s.due, LimePkt * s.over)
      <4>1. x \in 0..LimeTime-1
        <5>1. LimePkt * s.over \in Nat
          BY <1>0, LimeNats
        <5> QED
          BY <1>0, <5>1, LimeAddType
      <4>2. LimeAdd(x, 0) = LimeAdd(s.prev, off)
        BY <1>0, <2>3, <2>13, <3>1 DEF LimeFilled, LimeAt, LimeHere, off
      <4> HIDE DEF x
      <4>3. LimeAdd(x, 0) = x
        BY <4>1, LimeAddZero
      <4> QED
        BY <2>2, <3>1, <4>2, <4>3 DEF x
    <3>2. CASE s.host # <<>>
      BY <2>2, <2>13, <3>2 DEF LimeFilled, LimeBegan
    <3> QED
      BY <3>1, <3>2
  <2>14. LimeBegan(r)
    <3>1. r.fsym # LimeNone
      BY <2>5, LimeNats DEF LimeNone
    <3> QED
      BY <2>2, <2>12, <2>13, <3>1 DEF LimeBegan
  <2>15. r.cons = LimeBurst * LimeBursts => ~r.hdr
    <3>1. (LimeBurst * LimeBursts) % LimeBurst = 0
      <4>1. 0 \in 0..LimeBurst-1 /\ LimeBursts \in Nat
        BY LimeNats
      <4>2. (LimeBurst * LimeBursts + 0) % LimeBurst = 0
        BY <4>1, LimeNats, DivModUnique
      <4>3. LimeBurst * LimeBursts + 0 = LimeBurst * LimeBursts
        BY LimeNats
      <4> QED
        BY <4>2, <4>3
    <3>2. off + n # 0
      BY <1>1, <1>3, <1>5
    <3> QED
      BY <2>10, <3>1, <3>2
  <2>16. ~r.hdr => r.cons % LimeBurst = 0
    BY <2>2, <2>9
  <2>17. LimeCopied(r)
    <3>1. s.pc = "burst" /\ s.dma # <<>>
      BY DEF LimeFilled, LimeInBurst
    <3>2. r.host # <<>>
      <4>1. Len(r.host) # 0
        <5> HIDE DEF len
        <5> QED
          BY <1>2, <1>3, <1>5, <2>4
      <4> QED
        BY <4>1
    <3> QED
      BY <3>2, <1>0, <2>2, <2>3, <2>9, <2>14, <2>15, <2>16, <3>1 DEF LimeCopied
  <2> QED
    BY <2>1, <2>2, <2>7, <2>8, <2>17 DEF r
<1> QED
  BY <1>4, <1>5


LEMMA LimeLoopEndOK ==
    ASSUME NEW s, LimeRecord(s), LimeFields(s), LimePacket(s), LimeCopied(s)
    PROVE  /\ LimeStateOK(LimeLoopEnd(s))
           /\ LimeLoopEnd(s).pc = "idle" /\ s.due # LimeNone =>
                 LimeLoopEnd(s).last = LimeAdd(s.due, LimePkt * LimeLoopEnd(s).since)
<1> DEFINE r == LimeLoopEnd(s)
           done == s.cons = LimeBurst * LimeBursts
           full == Len(s.host) = LimePkt
<1>1. LimeRecord(r)
  BY DEF LimeRecord, LimeLoopEnd
<1>2. /\ r.hdr = s.hdr /\ r.prev = s.prev /\ r.lag = s.lag /\ r.hwt = s.hwt
      /\ r.host = s.host /\ r.fsym = s.fsym
      /\ done => r.dma = <<>> /\ r.cons = 0
      /\ ~done => r.dma = s.dma /\ r.cons = s.cons
      /\ full => r.pc = "idle" /\ r.over = 0 /\ r.due = LimeAdd(s.fsym, LimePkt) /\ r.last = s.fsym
                 /\ r.since = s.over
      /\ ~full => r.over = s.over /\ r.due = s.due
      /\ ~full /\ done => r.pc = "wait"
      /\ ~full /\ ~done => r.pc = "burst"
  BY DEF LimeRecord, LimeLoopEnd
<1> HIDE DEF r
<1>3. LimeAdd(s.fsym, LimePkt) \in 0..LimeTime-1
  BY LimeTimes, LimeNats, LimeAddType
<1>4. LimeAdd(s.fsym, LimePkt) \in 0..LimeTime
  BY <1>3, LimeNats
<1>5. 0 \in Nat /\ 0 % LimeBurst = 0
  BY LimeNats, NoWrap
<1>6. LimeFields(r)
  <2>1. r.due \in 0..LimeTime /\ r.over \in Nat /\ r.cons \in Nat
    BY <1>2, <1>4, <1>5 DEF LimeFields
  <2>2. r.pc \in {"idle", "wait", "burst"}
    BY <1>2
  <2> QED
    BY <1>2, <2>1, <2>2 DEF LimeFields
<1>7. LimePacket(r)
  BY <1>2 DEF LimePacket
<1>8. LimeBegan(s) /\ s.prev # LimeNone /\ s.host # <<>> /\ s.dma # <<>>
  BY DEF LimeCopied
<1>9. ~done => s.cons < LimeBurst * LimeBursts
  <2>1. LimeBurst * LimeBursts \in Nat /\ s.cons \in Nat /\ s.cons <= LimeBurst * LimeBursts
    BY LimeNats DEF LimeFields, LimeCopied
  <2> QED
    BY <2>1
<1>10. done => ~s.hdr /\ s.lag = 0
  BY DEF LimeCopied
<1>11. LimePlace(r)
  BY <1>2, <1>5, <1>8, <1>9, <1>10 DEF LimePlace, LimeCopied
<1>12. LimeHere(r) = LimeHere(s)
  BY <1>2, <1>10 DEF LimeHere
<1>13. LimeAt(r, LimeAdd(s.fsym, Len(s.host)))
  BY <1>2, <1>8, <1>12 DEF LimeAt, LimeBegan
<1>14. LimeGoesOn(r)
  <2>1. CASE full
    BY <1>2, <1>13, <2>1 DEF LimeGoesOn
  <2>2. CASE ~full
    <3>1. s.lag = 0 /\ r.pc # "idle"
      BY <1>2, <2>2 DEF LimeCopied
    <3> QED
      BY <1>2, <1>8, <1>13, <2>2, <3>1 DEF LimeGoesOn, LimeBegan
  <2> QED
    BY <2>1, <2>2
<1>15. r.pc # "idle" => (r.pc = "burst" <=> r.dma # <<>>) /\ Len(r.host) < LimePkt
  <2>1. ~full => Len(s.host) < LimePkt
    <3>1. Len(s.host) \in Nat /\ Len(s.host) <= LimePkt
      BY LimeTimes DEF LimePacket
    <3> QED
      BY <3>1, LimeNats
  <2> QED
    BY <1>2, <1>8, <2>1
<1>16. r.pc = "idle" /\ s.due # LimeNone => r.last = LimeAdd(s.due, LimePkt * r.since)
  BY <1>2, <1>8 DEF LimeBegan
<1> QED
  BY <1>1, <1>6, <1>7, <1>11, <1>14, <1>15, <1>16 DEF LimeStateOK, r

(* A pass of the loop: the parts of it one after the other.                *)
LEMMA LimeStepOK ==
    ASSUME NEW s, LimeStateOK(s), s.pc = "burst",
           NEW r, r = LimeLoopEnd(LimeCopy(LimeLag(LimeHeader(s))))
    PROVE  /\ LimeStateOK(r)
           /\ r.pc = "idle" /\ s.due # LimeNone => r.last = LimeAdd(s.due, LimePkt * r.since)
<1> DEFINE a == LimeHeader(s)
           b == LimeLag(a)
           c == LimeCopy(b)
<1>1. LimeRecord(a) /\ LimeFields(a) /\ LimePacket(a) /\ LimeSeen(a) /\ a.due = s.due
  BY LimeHeaderOK DEF LimeStateOK
<1> HIDE DEF a
<1>2. LimeRecord(b) /\ LimeFields(b) /\ LimePacket(b) /\ LimeFilled(b) /\ b.due = a.due
  BY <1>1, LimeLagOK
<1> HIDE DEF b
<1>3. LimeRecord(c) /\ LimeFields(c) /\ LimePacket(c) /\ LimeCopied(c) /\ c.due = b.due
  BY <1>2, LimeCopyOK
<1> HIDE DEF c
<1>4. r = LimeLoopEnd(c)
  BY DEF a, b, c
<1> QED
  BY <1>1, <1>2, <1>3, <1>4, LimeLoopEndOK

(* The times of a buffer of the device.                                    *)
LEMMA LimeBufferType ==
    ASSUME NEW t \in 0..LimeTime-1, NEW l \in LimeLosses
    PROVE  /\ LimeBuffer(t, l) \in [1..LimeBursts -> 0..LimeTime-1]
           /\ LimeBuffer(t, l) # <<>>
           /\ LimeAdd(LimeBuffer(t, l)[LimeBursts], LimeBurst) \in 0..LimeTime-1
<1>1. l \in [1..LimeBursts -> 0..(LimeBursts * LimeLoss)]
  BY DEF LimeLosses
<1>2. ASSUME NEW i \in 1..LimeBursts PROVE LimeAdd(t, LimeBurst * (i - 1 + l[i])) \in 0..LimeTime-1
  <2> DEFINE x == i - 1 + l[i]
             y == LimeBurst * x
  <2>1. x \in Nat
    BY <1>1
  <2> HIDE DEF x
  <2>2. y \in Nat
    BY <2>1, LimeNats
  <2> HIDE DEF y
  <2>3. LimeAdd(t, y) \in 0..LimeTime-1
    BY <2>2, LimeNats, LimeAddType
  <2> QED
    BY <2>3 DEF x, y
<1>3. LimeBuffer(t, l) \in [1..LimeBursts -> 0..LimeTime-1]
  BY <1>2 DEF LimeBuffer
<1>4. LimeBursts \in 1..LimeBursts
  BY LimeNats
<1>5. LimeBuffer(t, l) # <<>>
  BY <1>3, <1>4
<1>6. LimeBuffer(t, l)[LimeBursts] \in Nat
  BY <1>3, <1>4, LimeNats
<1> QED
  BY <1>3, <1>5, <1>6, LimeNats, LimeAddType

(* The other actions: recv begins, a buffer comes, the wait times out, the *)
(* clock of the device restarts, a packet is sent.                         *)
LEMMA LimeOthersOK ==
    ASSUME NEW s, LimeStateOK(s), NEW r,
           \/ r = [s EXCEPT !.hwt = 0, !.restarts = @ - 1, !.due = LimeNone]
           \/ /\ s.pc = "idle"
              /\ r = [s EXCEPT !.pc = IF s.dma # <<>> THEN "burst" ELSE "wait", !.host = <<>>,
                               !.fsym = LimeNone]
           \/ /\ s.pc = "wait"
              /\ r = [s EXCEPT !.pc = "idle", !.due = LimeNone]
           \/ /\ s.pc = "idle"
              /\ \E x : r = [s EXCEPT !.tx = x]
    PROVE  LimeStateOK(r)
<1>0. LimeRecord(s) /\ LimeFields(s) /\ LimePacket(s) /\ LimePlace(s) /\ LimeGoesOn(s)
      /\ (s.pc # "idle" => (s.pc = "burst" <=> s.dma # <<>>) /\ Len(s.host) < LimePkt)
  BY DEF LimeStateOK
<1>1. 0 \in 0..LimeTime-1 /\ LimeNone \in 0..LimeTime /\ LimePkt > 0 /\ <<>> \in Seq(0..LimeTime)
      /\ Len(<<>>) = 0 /\ 0 <= LimePkt
  BY LimeNats DEF LimeNone
<1>2. CASE r = [s EXCEPT !.hwt = 0, !.restarts = @ - 1, !.due = LimeNone]
  <2>1. LimeRecord(r)
    BY <1>0, <1>2 DEF LimeRecord
  <2>2. /\ r.pc = s.pc /\ r.dma = s.dma /\ r.cons = s.cons /\ r.hdr = s.hdr /\ r.prev = s.prev
        /\ r.lag = s.lag /\ r.over = s.over /\ r.host = s.host /\ r.fsym = s.fsym
        /\ r.hwt = 0 /\ r.due = LimeNone
    BY <1>0, <1>2 DEF LimeRecord
  <2>3. LimeFields(r) /\ LimePacket(r) /\ LimePlace(r)
    BY <1>0, <1>1, <2>2 DEF LimeFields, LimePacket, LimePlace
  <2>4. LimeGoesOn(r)
    BY <1>0, <2>2 DEF LimeGoesOn, LimeAt, LimeHere
  <2> QED
    BY <1>0, <2>1, <2>2, <2>3, <2>4 DEF LimeStateOK
<1>3. CASE /\ s.pc = "idle"
           /\ r = [s EXCEPT !.pc = IF s.dma # <<>> THEN "burst" ELSE "wait", !.host = <<>>,
                            !.fsym = LimeNone]
  <2>1. LimeRecord(r)
    BY <1>0, <1>3 DEF LimeRecord
  <2>2. /\ r.pc = (IF s.dma # <<>> THEN "burst" ELSE "wait") /\ r.dma = s.dma /\ r.cons = s.cons
        /\ r.hdr = s.hdr /\ r.prev = s.prev /\ r.lag = s.lag /\ r.over = s.over /\ r.host = <<>>
        /\ r.fsym = LimeNone /\ r.hwt = s.hwt /\ r.due = s.due
    BY <1>0, <1>3 DEF LimeRecord
  <2>3. LimeFields(r) /\ LimePacket(r) /\ LimePlace(r)
    BY <1>0, <1>1, <2>2 DEF LimeFields, LimePacket, LimePlace
  <2>4. LimeGoesOn(r)
    BY <1>0, <1>3, <2>2 DEF LimeGoesOn, LimeAt, LimeHere
  <2> QED
    BY <1>1, <2>1, <2>2, <2>3, <2>4 DEF LimeStateOK
<1>4. CASE s.pc = "wait" /\ r = [s EXCEPT !.pc = "idle", !.due = LimeNone]
  <2>1. LimeRecord(r)
    BY <1>0, <1>4 DEF LimeRecord
  <2>2. /\ r.pc = "idle" /\ r.dma = s.dma /\ r.cons = s.cons /\ r.hdr = s.hdr /\ r.prev = s.prev
        /\ r.lag = s.lag /\ r.over = s.over /\ r.host = s.host /\ r.fsym = s.fsym
        /\ r.hwt = s.hwt /\ r.due = LimeNone
    BY <1>0, <1>4 DEF LimeRecord
  <2>3. LimeFields(r) /\ LimePacket(r) /\ LimePlace(r)
    BY <1>0, <1>1, <2>2 DEF LimeFields, LimePacket, LimePlace
  <2>4. LimeGoesOn(r)
    BY <2>2 DEF LimeGoesOn
  <2> QED
    BY <2>1, <2>2, <2>3, <2>4 DEF LimeStateOK
<1>5. ASSUME s.pc = "idle", NEW x, r = [s EXCEPT !.tx = x] PROVE LimeStateOK(r)
  <2>1. LimeRecord(r)
    BY <1>0, <1>5 DEF LimeRecord
  <2>2. /\ r.pc = s.pc /\ r.dma = s.dma /\ r.cons = s.cons /\ r.hdr = s.hdr /\ r.prev = s.prev
        /\ r.lag = s.lag /\ r.over = s.over /\ r.host = s.host /\ r.fsym = s.fsym
        /\ r.hwt = s.hwt /\ r.due = s.due
    BY <1>0, <1>5 DEF LimeRecord
  <2>3. LimeFields(r) /\ LimePacket(r) /\ LimePlace(r)
    BY <1>0, <2>2 DEF LimeFields, LimePacket, LimePlace
  <2>4. LimeGoesOn(r)
    BY <1>0, <2>2 DEF LimeGoesOn, LimeAt, LimeHere
  <2> QED
    BY <1>0, <2>1, <2>2, <2>3, <2>4 DEF LimeStateOK
<1> QED
  BY <1>2, <1>3, <1>4, <1>5

LEMMA LimeWaitOK ==
    ASSUME NEW s, LimeStateOK(s), s.pc = "wait", NEW l \in LimeLosses, NEW r,
           r = [s EXCEPT !.pc = "burst", !.dma = LimeBuffer(s.hwt, l), !.cons = 0, !.hdr = FALSE,
                         !.bufs = @ - 1, !.hwt = LimeAdd(LimeBuffer(s.hwt, l)[LimeBursts], LimeBurst)]
    PROVE  LimeStateOK(r)
<1>0. LimeRecord(s) /\ LimeFields(s) /\ LimePacket(s) /\ LimePlace(s) /\ LimeGoesOn(s)
      /\ s.dma = <<>> /\ Len(s.host) < LimePkt
  BY DEF LimeStateOK
<1> DEFINE b == LimeBuffer(s.hwt, l)
           w == LimeAdd(b[LimeBursts], LimeBurst)
<1>1. LimeRecord(r)
  BY <1>0 DEF LimeRecord
<1>2. /\ r.pc = "burst" /\ r.dma = b /\ r.cons = 0 /\ r.hdr = FALSE /\ r.prev = s.prev
      /\ r.lag = s.lag /\ r.over = s.over /\ r.host = s.host /\ r.fsym = s.fsym
      /\ r.hwt = w /\ r.due = s.due
  BY <1>0 DEF LimeRecord
<1>3. s.hwt \in 0..LimeTime-1
  BY <1>0 DEF LimeFields
<1>4. b \in [1..LimeBursts -> 0..LimeTime-1] /\ b # <<>> /\ w \in 0..LimeTime-1
  BY <1>3, LimeBufferType
<1> HIDE DEF b, w
<1>5. 0 \in Nat /\ 0 % LimeBurst = 0 /\ 0 < LimeBurst * LimeBursts
  BY LimeNats, NoWrap
<1>6. LimeFields(r) /\ LimePacket(r)
  BY <1>0, <1>2, <1>4, <1>5 DEF LimeFields, LimePacket
<1>7. ~s.hdr
  BY <1>0 DEF LimePlace
<1>8. LimePlace(r)
  BY <1>0, <1>2, <1>4, <1>5, <1>7 DEF LimePlace
<1>9. LimeGoesOn(r)
  BY <1>0, <1>2, <1>7 DEF LimeGoesOn, LimeAt, LimeHere
<1> QED
  BY <1>0, <1>1, <1>2, <1>4, <1>6, <1>8, <1>9 DEF LimeStateOK

(* The packets follow one another in every pass of the loop.               *)
LEMMA LimeInductive ==
    LimeInv /\ [LimeNext]_lrx =>
        /\ LimeInv'
        /\ lrx.pc = "burst" /\ lrx'.pc = "idle" /\ lrx.due # LimeNone =>
              lrx'.last = LimeAdd(lrx.due, LimePkt * lrx'.since)
<1> SUFFICES ASSUME LimeInv, [LimeNext]_lrx
             PROVE  /\ LimeStateOK(lrx')
                    /\ lrx.pc = "burst" /\ lrx'.pc = "idle" /\ lrx.due # LimeNone =>
                          lrx'.last = LimeAdd(lrx.due, LimePkt * lrx'.since)
  BY DEF LimeInv
<1>0. LimeStateOK(lrx)
  BY DEF LimeInv
<1>1. CASE LimeBurstStep
  <2>1. lrx.pc = "burst" /\ lrx' = LimeLoopEnd(LimeCopy(LimeLag(LimeHeader(lrx))))
    BY <1>1 DEF LimeBurstStep
  <2> QED
    BY <1>0, <2>1, LimeStepOK
<1>2. CASE LimeWait
  <2>1. PICK l \in LimeLosses :
           lrx' = [lrx EXCEPT !.pc = "burst", !.dma = LimeBuffer(lrx.hwt, l), !.cons = 0,
                              !.hdr = FALSE, !.bufs = @ - 1,
                              !.hwt = LimeAdd(LimeBuffer(lrx.hwt, l)[LimeBursts], LimeBurst)]
    BY <1>2 DEF LimeWait
  <2>2. lrx.pc = "wait"
    BY <1>2, SMTT(30) DEF LimeWait
  <2> QED
    BY <1>0, <2>1, <2>2, LimeWaitOK
<1>3. CASE LimeRestart
  <2>1. lrx' = [lrx EXCEPT !.hwt = 0, !.restarts = @ - 1, !.due = LimeNone]
    BY <1>3 DEF LimeRestart
  <2>2. lrx'.pc = lrx.pc
    BY <1>0, <2>1, SMTT(30) DEF LimeStateOK, LimeRecord
  <2> QED
    BY <1>0, <2>1, <2>2, LimeOthersOK
<1>4. CASE LimeRecv
  BY <1>0, <1>4, LimeOthersOK, ZenonT(60) DEF LimeRecv
<1>5. CASE LimeTimeout
  BY <1>0, <1>5, LimeOthersOK, ZenonT(60) DEF LimeTimeout
<1>6. CASE LimeSend
  <2>1. lrx.pc = "idle" /\ \E x : lrx' = [lrx EXCEPT !.tx = x]
    BY <1>6 DEF LimeSend
  <2> QED
    BY <1>0, <2>1, LimeOthersOK
<1>7. CASE UNCHANGED lrx
  BY <1>0, <1>7
<1> QED
  BY <1>1, <1>2, <1>3, <1>4, <1>5, <1>6, <1>7 DEF LimeNext

LEMMA LimeInitially == LimeInit => LimeInv
<1> SUFFICES ASSUME LimeInit PROVE LimeStateOK(lrx)
  BY DEF LimeInv
<1>1. LimeRecord(lrx)
  BY DEF LimeInit, create_limesdr_stream, LimeRecord
<1>2. /\ lrx.pc = "idle" /\ lrx.dma = <<>> /\ lrx.cons = 0 /\ lrx.hdr = FALSE
      /\ lrx.prev = LimeNone /\ lrx.lag = 0 /\ lrx.over = 0 /\ lrx.host = <<>>
      /\ lrx.fsym = LimeNone /\ lrx.hwt = 0 /\ lrx.due = LimeNone
  BY DEF LimeInit, create_limesdr_stream
<1>3. 0 \in 0..LimeTime-1 /\ LimeNone \in 0..LimeTime /\ <<>> \in Seq(0..LimeTime)
      /\ Len(<<>>) = 0 /\ 0 <= LimePkt /\ 0 % LimeBurst = 0
  BY LimeNats, NoWrap DEF LimeNone
<1>4. LimeFields(lrx)
  BY <1>2, <1>3, 0 \in Nat DEF LimeFields
<1>5. LimePacket(lrx)
  <2>1. Len(lrx.host) = 0
    BY <1>2, <1>3
  <2> QED
    BY <1>3, <2>1 DEF LimePacket
<1>6. LimePlace(lrx)
  BY <1>2, <1>3 DEF LimePlace
<1>7. LimeGoesOn(lrx)
  BY <1>2 DEF LimeGoesOn
<1> QED
  BY <1>1, <1>2, <1>4, <1>5, <1>6, <1>7 DEF LimeStateOK

LEMMA LimeInvariant == LimeSpec => []LimeInv
  BY LimeInitially, LimeInductive, PTL DEF LimeSpec

(* Every sample handed to the host stands at the place its time says, for  *)
(* every size of burst and packet, any losses, and wherever the clock of   *)
(* the device restarts: what recv of stream_limesdr.c fills in and copies. *)
THEOREM LimeSamplesInTime == LimeSpec => []LimeSamplesTimed
<1>1. LimeInv => LimeSamplesTimed
  BY DEF LimeInv, LimeStateOK, LimePacket, LimeSamplesTimed
<1> QED
  BY <1>1, LimeInvariant, PTL

(* The packets recv returns follow one another, later only by the whole    *)
(* packets counted as overruns, as long as no call timed out and the clock *)
(* did not restart in between.                                             *)
THEOREM LimePacketsContinuous == LimeSpec => LimeContinuous
<1>1. LimeInv /\ [LimeNext]_lrx =>
        [lrx.pc = "burst" /\ lrx'.pc = "idle" /\ lrx.due # LimeNone =>
            lrx'.last = LimeAdd(lrx.due, LimePkt * lrx'.since)]_lrx
  BY LimeInductive
<1> QED
  BY <1>1, LimeInvariant, PTL DEF LimeSpec, LimeContinuous

(***************************************************************************)
(* KernelDriver                                                            *)
(***************************************************************************)
KdRecord(s) ==
    s = [faults |-> s.faults, calls |-> s.calls, loaded |-> s.loaded, devices |-> s.devices,
         nodes |-> s.nodes, drv |-> s.drv, obj |-> s.obj, oops |-> s.oops]

KdDev(o) ==
    o = [b |-> o.b, st |-> o.st, rem |-> o.rem, no |-> o.no, excl |-> o.excl, open |-> o.open,
         init |-> o.init, irq |-> o.irq, bucket |-> o.bucket, size |-> o.size, mem |-> o.mem,
         conf |-> o.conf, map |-> o.map, stale |-> o.stale, was |-> o.was]

(* A structure: who uses it, what its interrupt and its streams need, and  *)
(* how far its removal got.                                                *)
KdDevOK(o) ==
    /\ KdDev(o)
    /\ o.st \in {"valid", "gone", "freed"} /\ o.rem \in {0, 1, 2} /\ o.open \in {0, 1}
    /\ o.excl \in BOOLEAN /\ o.init \in BOOLEAN /\ o.irq \in BOOLEAN /\ o.bucket \in BOOLEAN
    /\ o.was \in BOOLEAN
    /\ o.size \in [KdStreams -> Nat]
    /\ \A k \in KdStreams : o.size[k] # 0 => k \in o.mem
    /\ o.map \subseteq o.conf /\ o.conf \subseteq KdStreams
    /\ o.stale = FALSE
    /\ o.open = 1 => o.excl /\ o.st # "freed"
    /\ o.open = 0 => o.conf = {}
    /\ o.rem = 0 => o.bucket /\ o.st # "gone"
    /\ o.rem # 0 /\ o.was => o.init /\ ~o.irq
    /\ o.st = "freed" => ~o.irq

(* The boards bound to the driver and their structures.                    *)
KdBound(s) ==
    /\ s.drv \in [KdBoards -> Int]
    /\ \A b \in KdBoards : s.drv[b] \notin {0, KdNull} =>
          /\ s.drv[b] \in DOMAIN s.obj /\ s.obj[s.drv[b]].b = b
          /\ s.obj[s.drv[b]].st = "valid"
    /\ \A i \in DOMAIN s.obj : s.obj[i].st = "valid" =>
          /\ s.obj[i].b \in KdBoards /\ s.drv[s.obj[i].b] = i
          /\ s.obj[i].no \in s.nodes
    /\ \A n \in s.nodes : \E i \in DOMAIN s.obj : s.obj[i].st = "valid" /\ s.obj[i].no = n
    /\ \A i, j \in DOMAIN s.obj :
          s.obj[i].st = "valid" /\ s.obj[j].st = "valid" /\ s.obj[i].no = s.obj[j].no => i = j

KdStateOK(s) ==
    /\ KdRecord(s)
    /\ Len(s.obj) \in Nat /\ DOMAIN s.obj = 1..Len(s.obj) /\ s.obj = [i \in DOMAIN s.obj |-> s.obj[i]]
    /\ \A i \in DOMAIN s.obj : KdDevOK(s.obj[i])
    /\ KdBound(s)

KdInv == KdStateOK(kd)
-----------------------------------------------------------------------------
(* What is done to a structure leaves it in order.                         *)
LEMMA KdFreeOK ==
    ASSUME NEW o, KdDevOK(o), NEW k \in KdStreams, k \notin o.map
    PROVE  KdDevOK(KdFree(o, k)) /\ KdFree(o, k).b = o.b /\ KdFree(o, k).no = o.no
           /\ KdFree(o, k).st = o.st /\ KdFree(o, k).map = o.map /\ KdFree(o, k).open = o.open
           /\ KdFree(o, k).conf = o.conf
<1> DEFINE p == KdFree(o, k)
<1>0. KdDev(o) /\ p = [o EXCEPT !.mem = o.mem \ {k}, !.stale = FALSE, !.size = [o.size EXCEPT ![k] = 0]]
  <2>1. (o.stale \/ (k \in o.map /\ o.rem = 0)) = FALSE
    BY DEF KdDevOK
  <2>2. KdDev(o)
    BY DEF KdDevOK
  <2> QED
    BY <2>1, <2>2 DEF KdFree
<1> HIDE DEF p
<1>1. KdDev(p)
  BY <1>0 DEF KdDev
<1>2. /\ p.b = o.b /\ p.st = o.st /\ p.rem = o.rem /\ p.no = o.no /\ p.excl = o.excl /\ p.open = o.open
      /\ p.init = o.init /\ p.irq = o.irq /\ p.bucket = o.bucket /\ p.mem = o.mem \ {k}
      /\ p.conf = o.conf /\ p.map = o.map /\ p.was = o.was
      /\ p.size = [o.size EXCEPT ![k] = 0]
  BY <1>0 DEF KdDev
<1>3. p.stale = FALSE
  BY <1>0 DEF KdDev
<1>4. p.size \in [KdStreams -> Nat] /\ \A j \in KdStreams : p.size[j] # 0 => j \in p.mem
  BY <1>2 DEF KdDevOK
<1>5. KdDevOK(p)
  BY <1>1, <1>2, <1>3, <1>4 DEF KdDevOK
<1> QED
  BY <1>2, <1>5 DEF p

(* p is the structure o after a call of its process or a step that leaves  *)
(* the board plugged.                                                      *)
KdSame(p, o) == KdDevOK(p) /\ p.b = o.b /\ p.no = o.no /\ p.st = o.st

LEMMA KdOpenOK ==
    ASSUME NEW o, KdDevOK(o), o.st = "valid", NEW x \in usdrfd_open(o)
    PROVE  KdSame(x.s, o)
<1> DEFINE p == [o EXCEPT !.excl = TRUE, !.open = o.open + 1]
<1>1. CASE o.excl
  BY <1>1 DEF usdrfd_open, Fail, KdSame
<1>2. CASE ~o.excl
  <2>1. x.s = p /\ o.open = 0
    BY <1>2 DEF usdrfd_open, Ok, KdDevOK
  <2>0. KdDev(o) /\ p = [o EXCEPT !.excl = TRUE, !.open = o.open + 1]
    BY DEF KdDevOK
  <2> HIDE DEF p
  <2>5. KdDev(p)
    BY <2>0 DEF KdDev
  <2>2. /\ p.b = o.b /\ p.st = o.st /\ p.rem = o.rem /\ p.no = o.no /\ p.excl = TRUE
        /\ p.open = o.open + 1 /\ p.init = o.init /\ p.irq = o.irq /\ p.bucket = o.bucket
        /\ p.size = o.size /\ p.mem = o.mem /\ p.conf = o.conf /\ p.map = o.map /\ p.stale = o.stale
        /\ p.was = o.was
    BY <2>0 DEF KdDev
  <2>3. p.open = 1
    BY <2>1, <2>2
  <2>4. KdDevOK(p)
    BY <2>2, <2>3, <2>5 DEF KdDevOK
  <2> QED
    BY <2>1, <2>2, <2>4 DEF KdSame
<1> QED
  BY <1>1, <1>2 DEF KdDevOK

LEMMA KdReleaseOK ==
    ASSUME NEW o, KdDevOK(o), o.open > 0
    PROVE  KdSame(usdrfd_release(o), o)
<1> DEFINE p == usdrfd_release(o)
<1>1. o.open = 1 /\ o.open - 1 = 0 /\ KdDev(o)
  BY DEF KdDevOK
<1>6. KdDev(p)
  BY <1>1 DEF KdDev, usdrfd_release
<1>2. /\ p.b = o.b /\ p.st = o.st /\ p.rem = o.rem /\ p.no = o.no
      /\ p.open = o.open - 1 /\ p.init = o.init /\ p.irq = o.irq /\ p.bucket = o.bucket
      /\ p.size = o.size /\ p.mem = o.mem /\ p.conf = {} /\ p.map = {} /\ p.stale = o.stale
      /\ p.was = o.was
  BY <1>1 DEF KdDev, usdrfd_release
<1>3. p.excl = IF o.st # "valid" THEN o.excl ELSE FALSE
  BY <1>1 DEF KdDev, usdrfd_release
<1> HIDE DEF p
<1>4. p.excl \in BOOLEAN
  BY <1>3 DEF KdDevOK
<1>5. KdDevOK(p)
  BY <1>1, <1>2, <1>4, <1>6 DEF KdDevOK
<1> QED
  BY <1>2, <1>5 DEF KdSame, p

LEMMA KdLayoutOK ==
    ASSUME NEW o, KdDevOK(o), o.st = "valid", ~o.init
    PROVE  KdSame([o EXCEPT !.irq = TRUE, !.init = TRUE], o)
<1> DEFINE p == [o EXCEPT !.irq = TRUE, !.init = TRUE]
<1>0. KdDev(o) /\ p = [o EXCEPT !.irq = TRUE, !.init = TRUE]
  BY DEF KdDevOK
<1> HIDE DEF p
<1>1. KdDev(p)
  BY <1>0 DEF KdDev
<1>2. /\ p.b = o.b /\ p.st = o.st /\ p.rem = o.rem /\ p.no = o.no /\ p.excl = o.excl
      /\ p.open = o.open /\ p.init = TRUE /\ p.irq = TRUE /\ p.bucket = o.bucket
      /\ p.size = o.size /\ p.mem = o.mem /\ p.conf = o.conf /\ p.map = o.map /\ p.stale = o.stale
      /\ p.was = o.was
  BY <1>0 DEF KdDev
<1>3. KdDevOK(p)
  BY <1>1, <1>2 DEF KdDevOK
<1> QED
  BY <1>2, <1>3 DEF KdSame, p

(* The streams the process has, and those it has mapped.                   *)
LEMMA KdStreamsOK ==
    ASSUME NEW o, KdDevOK(o), NEW C, NEW M, M \subseteq C, C \subseteq KdStreams, o.open = 1
    PROVE  KdSame([o EXCEPT !.conf = C, !.map = M], o)
<1> DEFINE p == [o EXCEPT !.conf = C, !.map = M]
<1>0. KdDev(o) /\ p = [o EXCEPT !.conf = C, !.map = M]
  BY DEF KdDevOK
<1> HIDE DEF p
<1>1. KdDev(p)
  BY <1>0 DEF KdDev
<1>2. /\ p.b = o.b /\ p.st = o.st /\ p.rem = o.rem /\ p.no = o.no /\ p.excl = o.excl
      /\ p.open = o.open /\ p.init = o.init /\ p.irq = o.irq /\ p.bucket = o.bucket
      /\ p.size = o.size /\ p.mem = o.mem /\ p.conf = C /\ p.map = M /\ p.stale = o.stale
      /\ p.was = o.was
  BY <1>0 DEF KdDev
<1>3. KdDevOK(p)
  BY <1>1, <1>2 DEF KdDevOK
<1> QED
  BY <1>2, <1>3 DEF KdSame, p

LEMMA KdAllocOK ==
    ASSUME NEW o, KdDevOK(o), NEW k \in KdStreams, NEW z \in KdSizes, o.open = 1
    PROVE  KdSame([o EXCEPT !.size[k] = z, !.mem = o.mem \cup {k}, !.conf = o.conf \cup {k}], o)
<1> DEFINE p == [o EXCEPT !.size[k] = z, !.mem = o.mem \cup {k}, !.conf = o.conf \cup {k}]
<1>0. KdDev(o) /\ p = [o EXCEPT !.size[k] = z, !.mem = o.mem \cup {k}, !.conf = o.conf \cup {k}]
  BY DEF KdDevOK
<1> HIDE DEF p
<1>1. KdDev(p)
  BY <1>0 DEF KdDev
<1>2. /\ p.b = o.b /\ p.st = o.st /\ p.rem = o.rem /\ p.no = o.no /\ p.excl = o.excl
      /\ p.open = o.open /\ p.init = o.init /\ p.irq = o.irq /\ p.bucket = o.bucket
      /\ p.size = [o.size EXCEPT ![k] = z] /\ p.mem = o.mem \cup {k} /\ p.conf = o.conf \cup {k}
      /\ p.map = o.map /\ p.stale = o.stale /\ p.was = o.was
  BY <1>0 DEF KdDev
<1>3. p.size \in [KdStreams -> Nat] /\ \A j \in KdStreams : p.size[j] # 0 => j \in p.mem
  BY <1>2 DEF KdDevOK, KdSizes
<1>4. p.map \subseteq p.conf /\ p.conf \subseteq KdStreams
  BY <1>2 DEF KdDevOK
<1>5. KdDevOK(p)
  BY <1>1, <1>2, <1>3, <1>4 DEF KdDevOK
<1> QED
  BY <1>2, <1>5 DEF KdSame, p

(* usdr_remove: the interrupt before the memory it needs.                  *)
LEMMA KdRemoveFirstOK ==
    ASSUME NEW o, KdDevOK(o), o.rem = 0
    PROVE  KdSame([(IF o.init THEN KdStopEvents(o) ELSE o) EXCEPT !.rem = 1, !.was = o.init], o)
<1> DEFINE q == IF o.init THEN KdStopEvents(o) ELSE o
           w == o.init
           p == [q EXCEPT !.rem = 1, !.was = w]
<1>1. KdDev(q) /\ (o.init => q = [o EXCEPT !.irq = FALSE]) /\ (~o.init => q = o)
  BY DEF KdDevOK, KdDev, KdStopEvents
<1> HIDE DEF q, w
<1>5. p = [q EXCEPT !.rem = 1, !.was = w]
  OBVIOUS
<1> HIDE DEF p
<1>6. KdDev(p)
  BY <1>1, <1>5 DEF KdDev
<1>2. /\ p.b = q.b /\ p.st = q.st /\ p.rem = 1 /\ p.no = q.no /\ p.excl = q.excl
      /\ p.open = q.open /\ p.init = q.init /\ p.irq = q.irq /\ p.bucket = q.bucket
      /\ p.size = q.size /\ p.mem = q.mem /\ p.conf = q.conf /\ p.map = q.map /\ p.stale = q.stale
      /\ p.was = w
  BY <1>1, <1>5 DEF KdDev
<1>3. /\ q.b = o.b /\ q.st = o.st /\ q.no = o.no /\ q.excl = o.excl
      /\ q.open = o.open /\ q.init = o.init /\ q.bucket = o.bucket
      /\ q.size = o.size /\ q.mem = o.mem /\ q.conf = o.conf /\ q.map = o.map /\ q.stale = o.stale
      /\ q.irq \in BOOLEAN /\ (o.init => ~q.irq) /\ (o.st = "freed" => ~q.irq)
  BY <1>1 DEF KdDevOK, KdDev
<1>4. KdDevOK(p)
  BY <1>2, <1>3, <1>6 DEF KdDevOK, w
<1> QED
  BY <1>2, <1>3, <1>4 DEF KdSame, p, q, w

LEMMA KdRemoveSecondOK ==
    ASSUME NEW o, KdDevOK(o), o.rem = 1
    PROVE  KdSame([(IF o.was THEN KdFreeStreams(deinit_bucket(o)) ELSE o) EXCEPT !.rem = 2], o)
<1> DEFINE q == IF o.was THEN KdFreeStreams(deinit_bucket(o)) ELSE o
           p == [q EXCEPT !.rem = 2]
<1>1. /\ KdDev(q) /\ KdDev(o) /\ (~o.was => q = o)
      /\ o.was => q = [o EXCEPT !.bucket = FALSE, !.mem = {}, !.size = [k \in KdStreams |-> 0]]
  BY DEF KdDevOK, KdDev, KdFreeStreams, deinit_bucket
<1> HIDE DEF q
<1>6. KdDev(p)
  BY <1>1 DEF KdDev
<1>2. /\ p.b = q.b /\ p.st = q.st /\ p.rem = 2 /\ p.no = q.no /\ p.excl = q.excl
      /\ p.open = q.open /\ p.init = q.init /\ p.irq = q.irq /\ p.bucket = q.bucket
      /\ p.size = q.size /\ p.mem = q.mem /\ p.conf = q.conf /\ p.map = q.map /\ p.stale = q.stale
      /\ p.was = q.was
  BY <1>1 DEF KdDev
<1> HIDE DEF p
<1>3. /\ q.b = o.b /\ q.st = o.st /\ q.no = o.no /\ q.excl = o.excl /\ q.irq = o.irq
      /\ q.open = o.open /\ q.init = o.init /\ q.conf = o.conf /\ q.map = o.map /\ q.stale = o.stale
      /\ q.was = o.was /\ q.bucket \in BOOLEAN
  BY <1>1, ZenonT(40) DEF KdDevOK, KdDev
<1>4. q.size \in [KdStreams -> Nat] /\ \A k \in KdStreams : q.size[k] # 0 => k \in q.mem
  <2>1. CASE o.was
    <3>1. q.size = [k \in KdStreams |-> 0]
      BY <1>1, <2>1 DEF KdDev
    <3> QED
      BY <3>1
  <2>2. CASE ~o.was
    BY <1>1, <2>2 DEF KdDevOK
  <2> QED
    BY <2>1, <2>2
<1>5. KdDevOK(p)
  BY <1>2, <1>3, <1>4, <1>6 DEF KdDevOK
<1> QED
  BY <1>2, <1>3, <1>5 DEF KdSame, p, q

LEMMA KdGoneOK ==
    ASSUME NEW o, KdDevOK(o), o.rem = 2, o.st = "valid"
    PROVE  KdDevOK(KdGone(o)) /\ KdGone(o).b = o.b /\ KdGone(o).no = o.no /\ KdGone(o).st = "gone"
<1> DEFINE p == KdGone(o)
<1>0. KdDev(o)
  BY DEF KdDevOK
<1>1. KdDev(p)
  BY <1>0 DEF KdDev, KdGone
<1>2. /\ p.b = o.b /\ p.st = "gone" /\ p.rem = o.rem /\ p.no = o.no /\ p.excl = o.excl
      /\ p.open = o.open /\ p.init = o.init /\ p.irq = o.irq /\ p.bucket = o.bucket
      /\ p.size = o.size /\ p.mem = o.mem /\ p.conf = o.conf /\ p.map = o.map /\ p.stale = o.stale
      /\ p.was = o.was
  BY <1>0 DEF KdDev, KdGone
<1> HIDE DEF p
<1>3. KdDevOK(p)
  BY <1>1, <1>2 DEF KdDevOK
<1> QED
  BY <1>2, <1>3 DEF p

LEMMA KdFreedOK ==
    ASSUME NEW o, KdDevOK(o), o.open = 0, o.rem = 0 \/ o.st # "valid"
    PROVE  KdDevOK([o EXCEPT !.st = "freed", !.irq = FALSE]) /\ [o EXCEPT !.st = "freed", !.irq = FALSE].st = "freed"
<1> DEFINE p == [o EXCEPT !.st = "freed", !.irq = FALSE]
<1>0. KdDev(o) /\ p = [o EXCEPT !.st = "freed", !.irq = FALSE]
  BY DEF KdDevOK
<1> HIDE DEF p
<1>1. KdDev(p)
  BY <1>0 DEF KdDev
<1>2. /\ p.b = o.b /\ p.st = "freed" /\ p.rem = o.rem /\ p.no = o.no /\ p.excl = o.excl
      /\ p.open = o.open /\ p.init = o.init /\ p.irq = FALSE /\ p.bucket = o.bucket
      /\ p.size = o.size /\ p.mem = o.mem /\ p.conf = o.conf /\ p.map = o.map /\ p.stale = o.stale
      /\ p.was = o.was
  BY <1>0 DEF KdDev
<1>4. p.irq \in BOOLEAN /\ ~p.irq
  BY <1>2
<1>5. /\ p.st = "freed" /\ p.open = 0 /\ p.rem \in {0, 1, 2} /\ p.map \subseteq p.conf /\ p.conf = {}
      /\ p.size \in [KdStreams -> Nat] /\ \A k \in KdStreams : p.size[k] # 0 => k \in p.mem
  BY <1>2 DEF KdDevOK
<1>6. /\ p.excl \in BOOLEAN /\ p.init \in BOOLEAN /\ p.bucket \in BOOLEAN /\ p.was \in BOOLEAN
      /\ p.stale = FALSE /\ (p.rem = 0 => p.bucket) /\ (p.rem # 0 /\ p.was => p.init)
  BY <1>2 DEF KdDevOK
<1>3. KdDevOK(p)
  BY <1>1, <1>4, <1>5, <1>6 DEF KdDevOK
<1> QED
  BY <1>2, <1>3 DEF p
-----------------------------------------------------------------------------
(* What a call leaves: t is s with the structure i as p, or with one       *)
(* failure less to come.                                                   *)
KdWith(s, t, i, p) ==
    /\ KdRecord(t) /\ t.nodes = s.nodes /\ t.drv = s.drv
    /\ t.obj = [s.obj EXCEPT ![i] = p]

LEMMA KdOneOK ==
    ASSUME NEW s, KdStateOK(s), NEW i \in DOMAIN s.obj, NEW p, KdSame(p, s.obj[i]),
           NEW t, KdWith(s, t, i, p)
    PROVE  KdStateOK(t)
<1>1. /\ Len(s.obj) \in Nat /\ DOMAIN s.obj = 1..Len(s.obj) /\ KdBound(s)
      /\ \A j \in DOMAIN s.obj : KdDevOK(s.obj[j])
  BY DEF KdStateOK
<1>2. DOMAIN t.obj = DOMAIN s.obj
  BY DEF KdWith
<1>3. /\ \A j \in DOMAIN s.obj : t.obj[j].b = s.obj[j].b /\ t.obj[j].no = s.obj[j].no
                                  /\ t.obj[j].st = s.obj[j].st
      /\ \A j \in DOMAIN s.obj : KdDevOK(t.obj[j])
  BY <1>1 DEF KdWith, KdSame
<1>4. Len(t.obj) = Len(s.obj)
  BY <1>1, <1>2 DEF KdWith
<1>5. KdBound(t)
  BY <1>1, <1>2, <1>3, SMTT(30) DEF KdBound, KdWith
<1>6. t.obj = [j \in DOMAIN t.obj |-> t.obj[j]]
  BY <1>2 DEF KdWith
<1> QED
  BY <1>1, <1>2, <1>3, <1>4, <1>5, <1>6 DEF KdStateOK, KdWith

LEMMA KdIo ==
    ASSUME NEW s, NEW t, NEW x \in Io(s, t)
    PROVE  \/ x.ok = TRUE /\ x.s = t
           \/ x.ok = FALSE /\ x.s = [s EXCEPT !.faults = s.faults - 1]
  BY DEF Io, Ok, Faulty, Fail

(* A failure changes nothing but the number of failures to come.           *)
LEMMA KdFaulty ==
    ASSUME NEW s, KdRecord(s)
    PROVE  LET t == [s EXCEPT !.faults = s.faults - 1]
           IN  /\ KdRecord(t) /\ t.nodes = s.nodes /\ t.drv = s.drv /\ t.obj = s.obj
               /\ t.devices = s.devices /\ t.loaded = s.loaded
<1> DEFINE t == [s EXCEPT !.faults = s.faults - 1]
<1>1. t = [s EXCEPT !.faults = s.faults - 1]
  OBVIOUS
<1> HIDE DEF t
<1>2. /\ KdRecord(t) /\ t.nodes = s.nodes /\ t.drv = s.drv /\ t.obj = s.obj
      /\ t.devices = s.devices /\ t.loaded = s.loaded
  BY <1>1 DEF KdRecord
<1> QED
  BY <1>2 DEF t

LEMMA KdKept ==
    ASSUME NEW s, NEW t, NEW i \in DOMAIN s.obj,
           KdRecord(t), t.nodes = s.nodes, t.drv = s.drv, t.obj = s.obj,
           KdStateOK(s)
    PROVE  KdWith(s, t, i, s.obj[i]) /\ KdSame(s.obj[i], s.obj[i])
<1>1. s.obj = [s.obj EXCEPT ![i] = s.obj[i]]
  BY DEF KdStateOK
<1> QED
  BY <1>1 DEF KdWith, KdSame, KdStateOK

LEMMA KdInitialized ==
    ASSUME NEW s, KdStateOK(s), NEW i \in DOMAIN s.obj, s.obj[i].st = "valid",
           NEW x \in usdr_device_initialie(s, i)
    PROVE  \E p : KdSame(p, s.obj[i]) /\ KdWith(s, x.s, i, p)
<1>0. KdRecord(s) /\ KdDevOK(s.obj[i])
  BY DEF KdStateOK
<1>1. CASE s.obj[i].init
  <2>1. x \in Ok(s)
    BY <1>1 DEF usdr_device_initialie
  <2>2. x.s = s
    BY <2>1 DEF Ok
  <2> QED
    BY <1>0, <2>2, KdKept
<1>2. CASE ~s.obj[i].init
  <2> DEFINE f == [s EXCEPT !.faults = s.faults - 1]
             p == [s.obj[i] EXCEPT !.irq = TRUE, !.init = TRUE]
  <2>1. PICK y \in KdInterrupts(s, i) :
            x \in IF y.ok THEN Ok([y.s EXCEPT !.obj[i].init = TRUE]) ELSE {y}
    BY <1>2 DEF usdr_device_initialie, Then
  <2>2. PICK w \in Io(s, s) :
            y \in IF w.ok THEN Io(w.s, [w.s EXCEPT !.obj[i].irq = TRUE]) ELSE {w}
    BY DEF KdInterrupts, Then
  <2>3. (w.ok = TRUE /\ w.s = s) \/ (w.ok = FALSE /\ w.s = f)
    BY KdIo
  <2>4. \/ y.ok = TRUE /\ y.s = [s EXCEPT !.obj[i].irq = TRUE]
        \/ y.ok = FALSE /\ y.s = f
    <3>1. CASE w.ok = TRUE /\ w.s = s
      <4>1. y \in Io(s, [s EXCEPT !.obj[i].irq = TRUE])
        BY <2>2, <3>1
      <4> QED
        BY <4>1, KdIo
    <3>2. CASE w.ok = FALSE /\ w.s = f
      BY <2>2, <3>2
    <3> QED
      BY <2>3, <3>1, <3>2
  <2>5. CASE y.ok = FALSE /\ y.s = f
    <3>1. x.s = f
      BY <2>1, <2>5
    <3> QED
      BY <1>0, <3>1, KdFaulty, KdKept, ZenonT(40)
  <2>6. CASE y.ok = TRUE /\ y.s = [s EXCEPT !.obj[i].irq = TRUE]
    <3> DEFINE u == [s EXCEPT !.obj[i].irq = TRUE]
    <3>1. x.s = [u EXCEPT !.obj[i].init = TRUE]
      BY <2>1, <2>6 DEF Ok
    <3>6. u = [s EXCEPT !.obj = [s.obj EXCEPT ![i] = [s.obj[i] EXCEPT !.irq = TRUE]]]
      OBVIOUS
    <3> HIDE DEF u
    <3>2. KdRecord(u) /\ u.nodes = s.nodes /\ u.drv = s.drv
          /\ u.obj = [s.obj EXCEPT ![i] = [s.obj[i] EXCEPT !.irq = TRUE]]
      BY <1>0, <3>6 DEF KdRecord
    <3>3. KdRecord(x.s) /\ x.s.nodes = u.nodes /\ x.s.drv = u.drv
          /\ x.s.obj = [u.obj EXCEPT ![i] = [u.obj[i] EXCEPT !.init = TRUE]]
      BY <3>1, <3>2 DEF KdRecord
    <3>4. x.s.obj = [s.obj EXCEPT ![i] = p]
      <4>1. u.obj[i] = [s.obj[i] EXCEPT !.irq = TRUE]
        BY <3>2
      <4>2. [u.obj[i] EXCEPT !.init = TRUE] = p
        BY <1>0, <4>1 DEF KdDevOK, KdDev
      <4> HIDE DEF p
      <4> QED
        BY <3>2, <3>3, <4>2
    <3>5. KdSame(p, s.obj[i])
      BY <1>0, <1>2, KdLayoutOK
    <3> QED
      BY <3>2, <3>3, <3>4, <3>5 DEF KdWith
  <2> QED
    BY <2>4, <2>5, <2>6
<1> QED
  BY <1>1, <1>2

LEMMA KdConfigured ==
    ASSUME NEW o, KdDevOK(o), NEW C, o.map \subseteq C, C \subseteq KdStreams, o.open = 1
    PROVE  KdSame([o EXCEPT !.conf = C], o)
<1>1. [o EXCEPT !.conf = C] = [o EXCEPT !.conf = C, !.map = o.map]
  <2> DEFINE p == [o EXCEPT !.conf = C]
             q == [o EXCEPT !.conf = C, !.map = o.map]
  <2>1. KdDev(o) /\ p = [o EXCEPT !.conf = C] /\ q = [o EXCEPT !.conf = C, !.map = o.map]
    BY DEF KdDevOK
  <2> HIDE DEF p, q
  <2>2. p = q
    BY <2>1 DEF KdDev
  <2> QED
    BY <2>2 DEF p, q
<1> QED
  BY <1>1, KdStreamsOK

LEMMA KdMapped ==
    ASSUME NEW o, KdDevOK(o), NEW M, M \subseteq o.conf, o.open = 1
    PROVE  KdSame([o EXCEPT !.map = M], o)
<1>0. o.conf \subseteq KdStreams
  BY DEF KdDevOK
<1>1. [o EXCEPT !.map = M] = [o EXCEPT !.conf = o.conf, !.map = M]
  <2> DEFINE p == [o EXCEPT !.map = M]
             q == [o EXCEPT !.conf = o.conf, !.map = M]
  <2>1. KdDev(o) /\ p = [o EXCEPT !.map = M] /\ q = [o EXCEPT !.conf = o.conf, !.map = M]
    BY DEF KdDevOK
  <2> HIDE DEF p, q
  <2>2. p = q
    BY <2>1 DEF KdDev
  <2> QED
    BY <2>2 DEF p, q
<1> QED
  BY <1>0, <1>1, KdStreamsOK

(* The structure i of s replaced.                                          *)
LEMMA KdReplaced ==
    ASSUME NEW s, KdRecord(s), NEW i, NEW p
    PROVE  KdWith(s, [s EXCEPT !.obj[i] = p], i, p)
<1> DEFINE t == [s EXCEPT !.obj[i] = p]
<1>1. t = [s EXCEPT !.obj = [s.obj EXCEPT ![i] = p]]
  OBVIOUS
<1> HIDE DEF t
<1>2. KdWith(s, t, i, p)
  BY <1>1 DEF KdWith, KdRecord
<1> QED
  BY <1>2 DEF t

(* The structure o without the buffers of the stream k.                    *)
KdCleared(o, k) == IF o.size[k] = 0 THEN o ELSE KdFree(o, k)

LEMMA KdClearedOK ==
    ASSUME NEW o, KdDevOK(o), NEW k \in KdStreams, k \notin o.map
    PROVE  /\ KdSame(KdCleared(o, k), o) /\ KdCleared(o, k).map = o.map
           /\ KdCleared(o, k).conf = o.conf /\ KdCleared(o, k).open = o.open
  BY KdFreeOK DEF KdCleared, KdSame

LEMMA KdStreamFreed ==
    ASSUME NEW s, KdStateOK(s), NEW i \in DOMAIN s.obj, s.obj[i].open = 1,
           NEW k \in KdStreams, k \notin s.obj[i].map
    PROVE  \E p : KdSame(p, s.obj[i]) /\ KdWith(s, usdr_stream_free(s, i, k), i, p)
<1> DEFINE o == s.obj[i]
           q == KdCleared(o, k)
           p == [q EXCEPT !.conf = q.conf \ {k}]
<1>0. KdRecord(s) /\ KdDevOK(o)
  BY DEF KdStateOK
<1>1. usdr_stream_free(s, i, k) = [s EXCEPT !.obj[i] = p]
  BY DEF usdr_stream_free, KdCleared
<1>2. KdDevOK(q) /\ KdSame(q, o) /\ q.map = o.map /\ q.conf = o.conf /\ q.open = 1
  BY <1>0, KdClearedOK DEF KdSame
<1>3. q.map \subseteq q.conf \ {k} /\ q.conf \ {k} \subseteq KdStreams
  BY <1>0, <1>2 DEF KdDevOK
<1> HIDE DEF q
<1>4. KdSame(p, q)
  BY <1>2, <1>3, KdConfigured
<1>5. KdWith(s, [s EXCEPT !.obj[i] = p], i, p)
  BY <1>0, KdReplaced
<1> HIDE DEF p
<1>6. KdSame(p, o)
  BY <1>2, <1>4 DEF KdSame
<1> QED
  BY <1>1, <1>5, <1>6

(* What holds after a call from a state that differs in the failures.      *)
LEMMA KdFromFaulty ==
    ASSUME NEW s, NEW f, f.nodes = s.nodes, f.drv = s.drv, f.obj = s.obj,
           NEW t, NEW i, NEW p, KdWith(f, t, i, p)
    PROVE  KdWith(s, t, i, p)
  BY DEF KdWith

LEMMA KdFaultyOK ==
    ASSUME NEW s, KdStateOK(s), NEW f, KdRecord(f), f.nodes = s.nodes, f.drv = s.drv, f.obj = s.obj
    PROVE  KdStateOK(f)
  BY DEF KdStateOK, KdBound

LEMMA KdMmapped ==
    ASSUME NEW s, KdStateOK(s), NEW i \in DOMAIN s.obj, s.obj[i].open = 1,
           NEW k \in KdStreams, k \in s.obj[i].conf \ s.obj[i].map, NEW x \in usdrfd_mmap(s, i, k)
    PROVE  \E p : KdSame(p, s.obj[i]) /\ KdWith(s, x.s, i, p)
<1> DEFINE o == s.obj[i]
           f == [s EXCEPT !.faults = s.faults - 1]
<1>0. KdRecord(s) /\ KdDevOK(o)
  BY DEF KdStateOK
<1>1. \/ x.s = usdr_stream_free(s, i, k)
      \/ x.s = usdr_stream_free(f, i, k)
      \/ x.s = [s EXCEPT !.obj[i].map = @ \cup {k}]
  <2>1. CASE o.size[k] = 0
    <3>1. x \in Fail(usdr_stream_free(s, i, k))
      BY <2>1 DEF usdrfd_mmap
    <3> QED
      BY <3>1 DEF Fail
  <2>2. CASE o.size[k] # 0
    <3>1. \/ x \in Ok([s EXCEPT !.obj[i].map = @ \cup {k}])
          \/ \E y \in Faulty(s) : x = [y EXCEPT !.s = usdr_stream_free(y.s, i, k)]
      BY <2>2 DEF usdrfd_mmap
    <3>2. ASSUME NEW y \in Faulty(s), x = [y EXCEPT !.s = usdr_stream_free(y.s, i, k)]
          PROVE  x.s = usdr_stream_free(f, i, k)
      <4>1. y = [s |-> f, ok |-> FALSE]
        BY DEF Faulty, Fail
      <4> QED
        BY <3>2, <4>1
    <3>3. x \in Ok([s EXCEPT !.obj[i].map = @ \cup {k}]) => x.s = [s EXCEPT !.obj[i].map = @ \cup {k}]
      BY DEF Ok
    <3> QED
      BY <3>1, <3>2, <3>3
  <2> QED
    BY <2>1, <2>2
<1>2. KdStateOK(f) /\ f.nodes = s.nodes /\ f.drv = s.drv /\ f.obj = s.obj
  BY <1>0, KdFaulty, KdFaultyOK
<1> HIDE DEF f
<1>3. \E p : KdSame(p, o) /\ KdWith(s, usdr_stream_free(s, i, k), i, p)
  BY KdStreamFreed
<1>4. \E p : KdSame(p, o) /\ KdWith(s, usdr_stream_free(f, i, k), i, p)
  <2>1. \E p : KdSame(p, f.obj[i]) /\ KdWith(f, usdr_stream_free(f, i, k), i, p)
    BY <1>2, KdStreamFreed
  <2> QED
    BY <1>2, <2>1, KdFromFaulty
<1>5. ASSUME x.s = [s EXCEPT !.obj[i].map = @ \cup {k}]
      PROVE  \E p : KdSame(p, o) /\ KdWith(s, x.s, i, p)
  <2> DEFINE p == [o EXCEPT !.map = o.map \cup {k}]
  <2>1. x.s = [s EXCEPT !.obj[i] = p]
    BY <1>5
  <2>2. o.map \cup {k} \subseteq o.conf
    BY <1>0 DEF KdDevOK
  <2>3. KdSame(p, o)
    BY <1>0, <2>2, KdMapped
  <2> HIDE DEF p
  <2> QED
    BY <1>0, <2>1, <2>3, KdReplaced
<1> QED
  BY <1>1, <1>3, <1>4, <1>5

LEMMA KdConfed ==
    ASSUME NEW s, KdStateOK(s), NEW i \in DOMAIN s.obj, s.obj[i].open = 1,
           NEW k \in KdStreams \ s.obj[i].conf, NEW z \in KdSizes, NEW x \in KdConf(s, i, k, z)
    PROVE  \E p : KdSame(p, s.obj[i]) /\ KdWith(s, x.s, i, p)
<1> DEFINE o == s.obj[i]
           q == KdCleared(o, k)
           f == [s EXCEPT !.obj[i] = q]
<1>0. KdRecord(s) /\ KdDevOK(o)
  BY DEF KdStateOK
<1>1. CASE o.size[k] >= z
  <2> DEFINE p == [o EXCEPT !.conf = o.conf \cup {k}]
  <2>1. x \in Ok([s EXCEPT !.obj[i].conf = @ \cup {k}])
    BY <1>1 DEF KdConf
  <2>2. x.s = [s EXCEPT !.obj[i] = p]
    BY <2>1 DEF Ok
  <2>3. o.map \subseteq o.conf \cup {k} /\ o.conf \cup {k} \subseteq KdStreams
    BY <1>0 DEF KdDevOK
  <2>4. KdSame(p, o)
    BY <1>0, <2>3, KdConfigured
  <2> HIDE DEF p
  <2> QED
    BY <1>0, <2>2, <2>4, KdReplaced
<1>2. CASE ~(o.size[k] >= z)
  <2> DEFINE g == [f EXCEPT !.obj[i].size[k] = z, !.obj[i].mem = @ \cup {k}, !.obj[i].conf = @ \cup {k}]
             p == [q EXCEPT !.size[k] = z, !.mem = q.mem \cup {k}, !.conf = q.conf \cup {k}]
  <2>1. x \in Io(f, g)
    BY <1>2 DEF KdConf, KdCleared
  <2>2. k \notin o.map
    BY <1>0 DEF KdDevOK
  <2>3. KdSame(q, o) /\ KdDevOK(q) /\ q.open = 1
    BY <1>0, <2>2, KdClearedOK DEF KdSame
  <2> HIDE DEF q
  <2>4. KdWith(s, f, i, q)
    BY <1>0, KdReplaced
  <2>5. KdRecord(f) /\ f.obj = [s.obj EXCEPT ![i] = q] /\ f.obj[i] = q
    BY <2>4 DEF KdWith
  <2> HIDE DEF f
  <2>6. g = [f EXCEPT !.obj[i] = [f.obj[i] EXCEPT !.size[k] = z, !.mem = @ \cup {k}, !.conf = @ \cup {k}]]
    BY <2>5, ZenonT(40) DEF KdRecord
  <2>7. g = [f EXCEPT !.obj[i] = p]
    BY <2>5, <2>6
  <2> HIDE DEF g
  <2>8. KdSame(p, q)
    BY <2>3, KdAllocOK
  <2> HIDE DEF p
  <2>9. KdSame(p, o)
    BY <2>3, <2>8 DEF KdSame
  <2>10. KdWith(f, g, i, p)
    BY <2>5, <2>7, KdReplaced
  <2>11. KdWith(s, g, i, p)
    <3>1. [f.obj EXCEPT ![i] = p] = [s.obj EXCEPT ![i] = p]
      BY <2>5
    <3> QED
      BY <2>4, <2>10, <3>1 DEF KdWith
  <2>12. ASSUME x.s = [f EXCEPT !.faults = f.faults - 1]
         PROVE  KdWith(s, x.s, i, q)
    <3>1. KdRecord(x.s) /\ x.s.nodes = f.nodes /\ x.s.drv = f.drv /\ x.s.obj = f.obj
      BY <2>5, <2>12, KdFaulty
    <3> QED
      BY <2>4, <3>1 DEF KdWith
  <2>13. x.s = g \/ x.s = [f EXCEPT !.faults = f.faults - 1]
    BY <2>1, KdIo
  <2> QED
    BY <2>3, <2>9, <2>11, <2>12, <2>13
<1> QED
  BY <1>1, <1>2

LEMMA KdUnmapped ==
    ASSUME NEW s, KdStateOK(s), NEW i \in DOMAIN s.obj, s.obj[i].open = 1, NEW k
    PROVE  \E p : KdSame(p, s.obj[i]) /\ KdWith(s, KdUnmap(s, i, k), i, p)
<1> DEFINE o == s.obj[i]
           p == [o EXCEPT !.map = o.map \ {k}]
<1>0. KdRecord(s) /\ KdDevOK(o)
  BY DEF KdStateOK
<1>1. KdUnmap(s, i, k) = [s EXCEPT !.obj[i] = p]
  BY DEF KdUnmap
<1>2. o.map \ {k} \subseteq o.conf
  BY <1>0 DEF KdDevOK
<1>3. KdSame(p, o)
  BY <1>0, <1>2, KdMapped
<1> HIDE DEF p
<1> QED
  BY <1>0, <1>1, <1>3, KdReplaced
-----------------------------------------------------------------------------
(* The fields of a state that a call with the number of calls counted down *)
(* leaves.                                                                 *)
LEMMA KdCounted ==
    ASSUME NEW s, KdStateOK(s), NEW t, t = [s EXCEPT !.calls = s.calls - 1]
    PROVE  KdStateOK(t)
<1>1. KdRecord(t) /\ t.nodes = s.nodes /\ t.drv = s.drv /\ t.obj = s.obj
  BY DEF KdStateOK, KdRecord
<1> QED
  BY <1>1, KdFaultyOK

LEMMA KdDone ==
    ASSUME NEW S, KdDo(S), \A x \in S : KdStateOK(x.s)
    PROVE  KdStateOK(kd')
<1>1. PICK x \in S : kd' = [x.s EXCEPT !.calls = @ - 1]
  BY DEF KdDo
<1> QED
  BY <1>1, KdCounted

(* A board comes: without a structure, or with a new one and its node.     *)
LEMMA KdNullOK ==
    ASSUME NEW s, KdStateOK(s), NEW b \in KdBoards, s.drv[b] = 0, NEW t,
           t = [s EXCEPT !.drv = [s.drv EXCEPT ![b] = KdNull]]
    PROVE  KdStateOK(t)
<1>1. KdRecord(t) /\ t.nodes = s.nodes /\ t.obj = s.obj /\ t.drv = [s.drv EXCEPT ![b] = KdNull]
  BY DEF KdStateOK, KdRecord
<1>2. KdBound(s) /\ 0 \notin DOMAIN s.obj
  BY DEF KdStateOK
<1>3. \A c \in KdBoards : t.drv[c] \in Int /\ (c # b => t.drv[c] = s.drv[c]) /\ (c = b => t.drv[c] = KdNull)
  BY <1>1, <1>2 DEF KdBound, KdNull
<1>4. t.drv \in [KdBoards -> Int]
  BY <1>1, <1>2 DEF KdBound, KdNull
<1>5. \A i \in DOMAIN s.obj : s.obj[i].st = "valid" => s.obj[i].b # b
  BY <1>2 DEF KdBound
<1>6. KdBound(t)
  BY <1>1, <1>2, <1>3, <1>4, <1>5 DEF KdBound
<1> QED
  BY <1>1, <1>6 DEF KdStateOK

LEMMA KdFreshDev ==
    ASSUME NEW b, NEW n
    PROVE  /\ KdDevOK(usdr_dev(b, n)) /\ usdr_dev(b, n).b = b /\ usdr_dev(b, n).no = n
           /\ usdr_dev(b, n).st = "valid"
<1> DEFINE o == usdr_dev(b, n)
<1>1. KdDev(o)
  BY DEF usdr_dev, KdDev
<1>2. /\ o.b = b /\ o.no = n /\ o.st = "valid" /\ o.rem = 0 /\ o.excl = FALSE /\ o.open = 0
      /\ o.init = FALSE /\ o.irq = FALSE /\ o.bucket = TRUE /\ o.mem = {}
      /\ o.conf = {} /\ o.map = {} /\ o.stale = FALSE /\ o.was = FALSE
      /\ o.size = [k \in KdStreams |-> 0]
  BY DEF usdr_dev
<1> HIDE DEF o
<1>3. o.size \in [KdStreams -> Nat] /\ \A k \in KdStreams : o.size[k] = 0
  BY <1>2
<1>5. /\ o.excl \in BOOLEAN /\ o.init \in BOOLEAN /\ o.irq \in BOOLEAN /\ o.bucket \in BOOLEAN
      /\ o.was \in BOOLEAN /\ o.bucket
  BY <1>2
<1>6. /\ o.st \in {"valid", "gone", "freed"} /\ o.st # "gone" /\ o.st # "freed"
      /\ o.rem = 0 /\ o.rem \in {0, 1, 2} /\ o.open = 0 /\ o.open \in {0, 1} /\ o.conf = {}
      /\ o.map \subseteq o.conf /\ o.stale = FALSE
  BY <1>2
<1>4. KdDevOK(o)
  BY <1>1, <1>3, <1>5, <1>6 DEF KdDevOK
<1> QED
  BY <1>2, <1>4 DEF o

LEMMA KdBoundOK ==
    ASSUME NEW s, KdStateOK(s), NEW b \in KdBoards, s.drv[b] = 0, s.devices \notin s.nodes, NEW t,
           t = [s EXCEPT !.obj = Append(@, usdr_dev(b, s.devices)), !.drv[b] = Len(s.obj) + 1,
                         !.nodes = @ \cup {s.devices}, !.devices = @ + 1]
    PROVE  KdStateOK(t)
<1> DEFINE o == usdr_dev(b, s.devices)
           n == Len(s.obj) + 1
<1>1. KdDevOK(o) /\ o.b = b /\ o.no = s.devices /\ o.st = "valid"
  BY KdFreshDev
<1>2. /\ KdRecord(t) /\ t.obj = Append(s.obj, o) /\ t.drv = [s.drv EXCEPT ![b] = n]
      /\ t.nodes = s.nodes \cup {s.devices}
  BY DEF KdStateOK, KdRecord
<1> HIDE DEF o
<1>3. /\ Len(s.obj) \in Nat /\ DOMAIN s.obj = 1..Len(s.obj) /\ KdBound(s)
      /\ \A i \in DOMAIN s.obj : KdDevOK(s.obj[i])
      /\ s.obj = [i \in DOMAIN s.obj |-> s.obj[i]]
  BY DEF KdStateOK
<1>4. /\ Len(t.obj) = n /\ DOMAIN t.obj = 1..n /\ n \in Nat
      /\ \A i \in DOMAIN s.obj : t.obj[i] = s.obj[i]
      /\ t.obj[n] = o
      /\ t.obj = [i \in DOMAIN t.obj |-> t.obj[i]]
  <2> DEFINE V == {s.obj[i] : i \in DOMAIN s.obj} \cup {o}
             q == s.obj
  <2>1. q \in Seq(V) /\ o \in V
    BY <1>3
  <2>2. t.obj = Append(q, o) /\ n = Len(q) + 1 /\ DOMAIN q = 1..Len(q) /\ Len(q) \in Nat
    BY <1>2, <1>3
  <2> HIDE DEF V, q, n
  <2>3. /\ Len(Append(q, o)) = Len(q) + 1 /\ DOMAIN Append(q, o) = 1..(Len(q) + 1)
        /\ \A i \in 1..Len(q) : Append(q, o)[i] = q[i]
        /\ Append(q, o)[Len(q) + 1] = o
    BY <2>1, <2>2
  <2>4. Append(q, o) \in Seq(V)
    BY <2>1
  <2>5. Append(q, o) = [i \in DOMAIN Append(q, o) |-> Append(q, o)[i]]
    <3> DEFINE a == Append(q, o)
    <3>1. a \in Seq(V)
      BY <2>4
    <3> HIDE DEF a
    <3>2. a = [i \in DOMAIN a |-> a[i]]
      BY <3>1
    <3> QED
      BY <3>2 DEF a
  <2> QED
    BY <2>2, <2>3, <2>5 DEF q
<1> HIDE DEF n
<1>5. n \notin DOMAIN s.obj /\ DOMAIN t.obj = DOMAIN s.obj \cup {n} /\ n \notin {0, KdNull} /\ n \in Int
  BY <1>3, <1>4 DEF n, KdNull
<1>6. \A i \in DOMAIN t.obj : KdDevOK(t.obj[i])
  BY <1>1, <1>3, <1>4, <1>5
<1>7. /\ t.drv \in [KdBoards -> Int] /\ t.drv[b] = n
      /\ \A c \in KdBoards : c # b => t.drv[c] = s.drv[c]
  BY <1>2, <1>3, <1>5 DEF KdBound
<1>8. \A i \in DOMAIN s.obj : s.obj[i].st = "valid" => s.obj[i].b # b
  <2>1. 0 \notin DOMAIN s.obj
    BY <1>3
  <2> QED
    BY <1>3, <2>1 DEF KdBound
<1>9. KdBound(t)
  <2>1. \A c \in KdBoards : t.drv[c] \notin {0, KdNull} =>
           /\ t.drv[c] \in DOMAIN t.obj /\ t.obj[t.drv[c]].b = c
           /\ t.obj[t.drv[c]].st = "valid"
    BY <1>1, <1>3, <1>4, <1>5, <1>7 DEF KdBound
  <2>2. \A i \in DOMAIN t.obj : t.obj[i].st = "valid" =>
           /\ t.obj[i].b \in KdBoards /\ t.drv[t.obj[i].b] = i
           /\ t.obj[i].no \in t.nodes
    BY <1>1, <1>2, <1>3, <1>4, <1>5, <1>7, <1>8, SMTT(30) DEF KdBound
  <2>3. \A m \in t.nodes : \E i \in DOMAIN t.obj : t.obj[i].st = "valid" /\ t.obj[i].no = m
    BY <1>1, <1>2, <1>3, <1>4, <1>5, SMTT(30) DEF KdBound
  <2>4. \A i, j \in DOMAIN t.obj :
           t.obj[i].st = "valid" /\ t.obj[j].st = "valid" /\ t.obj[i].no = t.obj[j].no => i = j
    BY <1>1, <1>3, <1>4, <1>5, SMTT(30) DEF KdBound
  <2> QED
    BY <1>7, <2>1, <2>2, <2>3, <2>4 DEF KdBound
<1> QED
  BY <1>2, <1>4, <1>6, <1>9 DEF KdStateOK

(* usdr_probe: a failure, a board without a structure, or one more.        *)
LEMMA KdProbed ==
    ASSUME NEW s, KdStateOK(s), NEW b \in KdBoards, s.drv[b] = 0, NEW x \in usdr_probe(s, b)
    PROVE  KdStateOK(x.s)
<1> DEFINE null == [s EXCEPT !.drv = [s.drv EXCEPT ![b] = KdNull]]
           f == [s EXCEPT !.faults = s.faults - 1]
           g == [null EXCEPT !.faults = null.faults - 1]
           new == [s EXCEPT !.obj = Append(@, usdr_dev(b, s.devices)), !.drv[b] = Len(s.obj) + 1,
                            !.nodes = @ \cup {s.devices}, !.devices = @ + 1]
<1>0. KdRecord(s)
  BY DEF KdStateOK
<1>1. \/ s.devices \notin s.nodes /\ x.s = new
      \/ x.s = null
      \/ x.s = f
      \/ x.s = g
  <2>1. \/ x \in Faulty(s) \/ x \in Faulty(null)
        \/ s.devices \in s.nodes /\ x \in Ok(null)
        \/ s.devices \notin s.nodes /\ x \in Ok(new)
    BY DEF usdr_probe
  <2>2. x \in Faulty(s) => x.s = f
    BY DEF Faulty, Fail
  <2>3. x \in Faulty(null) => x.s = g
    <3> HIDE DEF null
    <3> QED
      BY DEF Faulty, Fail
  <2>4. (x \in Ok(null) => x.s = null) /\ (x \in Ok(new) => x.s = new)
    <3> HIDE DEF null, new
    <3> QED
      BY DEF Ok
  <2> HIDE DEF new, null, f, g
  <2> QED
    BY <2>1, <2>2, <2>3, <2>4
<1>2. KdStateOK(null)
  BY KdNullOK
<1>3. KdStateOK(f)
  BY <1>0, KdFaulty, KdFaultyOK
<1>4. KdStateOK(g)
  <2> HIDE DEF null
  <2>1. KdRecord(null)
    BY <1>2 DEF KdStateOK
  <2> QED
    BY <1>2, <2>1, KdFaulty, KdFaultyOK
<1>5. s.devices \notin s.nodes => KdStateOK(new)
  BY KdBoundOK
<1> HIDE DEF new, null, f, g
<1> QED
  BY <1>1, <1>2, <1>3, <1>4, <1>5

(* usdr_remove, step by step; with the last one the node goes.             *)
LEMMA KdRemoved ==
    ASSUME NEW s, KdStateOK(s), NEW i \in DOMAIN s.obj, s.obj[i].st = "valid"
    PROVE  KdStateOK(usdr_remove(s, i))
<1> DEFINE o == s.obj[i]
           p == [(IF o.init THEN KdStopEvents(o) ELSE o) EXCEPT !.rem = 1, !.was = o.init]
           q == [(IF o.was THEN KdFreeStreams(deinit_bucket(o)) ELSE o) EXCEPT !.rem = 2]
           g == KdGone(o)
           t == usdr_remove(s, i)
<1>0. KdRecord(s) /\ KdDevOK(o) /\ KdBound(s)
  BY DEF KdStateOK
<1>1. CASE o.rem = 0
  <2>1. t = [s EXCEPT !.obj[i] = p]
    BY <1>1 DEF usdr_remove
  <2>2. KdSame(p, o)
    BY <1>0, <1>1, KdRemoveFirstOK
  <2> HIDE DEF p, t
  <2>3. KdWith(s, t, i, p)
    BY <1>0, <2>1, KdReplaced
  <2>4. KdStateOK(t)
    BY <2>2, <2>3, KdOneOK
  <2> QED
    BY <2>4 DEF t
<1>2. CASE o.rem = 1
  <2>1. t = [s EXCEPT !.obj[i] = q]
    BY <1>2 DEF usdr_remove
  <2>2. KdSame(q, o)
    BY <1>0, <1>2, KdRemoveSecondOK
  <2> HIDE DEF q, t
  <2>3. KdWith(s, t, i, q)
    BY <1>0, <2>1, KdReplaced
  <2>4. KdStateOK(t)
    BY <2>2, <2>3, KdOneOK
  <2> QED
    BY <2>4 DEF t
<1>3. CASE o.rem = 2
  <2>1. t = [KdDestroyNode(s, i) EXCEPT !.obj[i] = g, !.drv[o.b] = 0]
    BY <1>3 DEF usdr_remove
  <2>2. KdDevOK(g) /\ g.b = o.b /\ g.no = o.no /\ g.st = "gone"
    BY <1>0, <1>3, KdGoneOK
  <2> HIDE DEF g, t
  <2>3. /\ KdRecord(t) /\ t.nodes = s.nodes \ {o.no} /\ t.drv = [s.drv EXCEPT ![o.b] = 0]
        /\ t.obj = [s.obj EXCEPT ![i] = g]
    <3> DEFINE d == KdDestroyNode(s, i)
    <3>1. d = [s EXCEPT !.nodes = s.nodes \ {o.no}, !.devices = s.devices - 1]
      BY DEF KdDestroyNode
    <3>2. t = [d EXCEPT !.obj = [d.obj EXCEPT ![i] = g], !.drv = [d.drv EXCEPT ![o.b] = 0]]
      BY <2>1
    <3> HIDE DEF d
    <3>3. KdRecord(d) /\ d.nodes = s.nodes \ {o.no} /\ d.drv = s.drv /\ d.obj = s.obj
      BY <1>0, <3>1 DEF KdRecord
    <3> QED
      BY <3>2, <3>3 DEF KdRecord
  <2>4. o.b \in KdBoards /\ s.drv[o.b] = i /\ s.drv \in [KdBoards -> Int]
    BY <1>0 DEF KdBound
  <2>5. /\ t.drv \in [KdBoards -> Int] /\ t.drv[o.b] = 0
        /\ \A c \in KdBoards : c # o.b => t.drv[c] = s.drv[c]
    BY <2>3, <2>4
  <2>6. /\ DOMAIN t.obj = DOMAIN s.obj /\ t.obj[i] = g
        /\ \A j \in DOMAIN s.obj : j # i => t.obj[j] = s.obj[j]
        /\ t.obj = [j \in DOMAIN t.obj |-> t.obj[j]]
    BY <2>3
  <2>7. \A j \in DOMAIN s.obj : s.obj[j].st = "valid" /\ j # i => s.obj[j].b # o.b /\ s.obj[j].no # o.no
    BY <1>0, <2>4 DEF KdBound
  <2>8. KdBound(t)
    <3>1. \A c \in KdBoards : t.drv[c] \notin {0, KdNull} =>
             /\ t.drv[c] \in DOMAIN t.obj /\ t.obj[t.drv[c]].b = c
             /\ t.obj[t.drv[c]].st = "valid"
      BY <1>0, <2>4, <2>5, <2>6 DEF KdBound
    <3>2. \A j \in DOMAIN t.obj : t.obj[j].st = "valid" =>
             /\ t.obj[j].b \in KdBoards /\ t.drv[t.obj[j].b] = j
             /\ t.obj[j].no \in t.nodes
      BY <1>0, <2>2, <2>3, <2>5, <2>6, <2>7, SMTT(30) DEF KdBound
    <3>3. \A m \in t.nodes : \E j \in DOMAIN t.obj : t.obj[j].st = "valid" /\ t.obj[j].no = m
      BY <1>0, <2>3, <2>6 DEF KdBound
    <3>4. \A j, k \in DOMAIN t.obj :
             t.obj[j].st = "valid" /\ t.obj[k].st = "valid" /\ t.obj[j].no = t.obj[k].no => j = k
      BY <1>0, <2>2, <2>6 DEF KdBound
    <3> QED
      BY <2>5, <3>1, <3>2, <3>3, <3>4 DEF KdBound
  <2>9. /\ Len(t.obj) \in Nat /\ DOMAIN t.obj = 1..Len(t.obj)
        /\ \A j \in DOMAIN t.obj : KdDevOK(t.obj[j])
    BY <2>2, <2>6 DEF KdStateOK
  <2>10. KdStateOK(t)
    BY <2>3, <2>6, <2>8, <2>9 DEF KdStateOK
  <2> QED
    BY <2>10 DEF t
<1> QED
  BY <1>0, <1>1, <1>2, <1>3 DEF KdDevOK

(* usdr_cleanup with no file open and no removal under way.                *)
LEMMA KdCleanedUp ==
    ASSUME NEW s, KdStateOK(s),
           \A i \in DOMAIN s.obj : s.obj[i].open = 0 /\ (s.obj[i].rem = 0 \/ s.obj[i].st # "valid")
    PROVE  KdStateOK(usdr_cleanup(s))
<1> DEFINE t == usdr_cleanup(s)
           F(i) == [s.obj[i] EXCEPT !.st = "freed", !.irq = FALSE]
           oo == s.loaded = "empty" \/ \E b \in KdBoards : s.drv[b] = KdNull
<1>0. KdRecord(s) /\ Len(s.obj) \in Nat /\ DOMAIN s.obj = 1..Len(s.obj)
  BY DEF KdStateOK
<1>1. t = [s EXCEPT !.loaded = "no", !.drv = [b \in KdBoards |-> 0], !.nodes = {}, !.devices = 0,
                    !.oops = oo, !.obj = [i \in DOMAIN s.obj |-> F(i)]]
  BY DEF usdr_cleanup
<1>2. \A i \in DOMAIN s.obj : KdDevOK(F(i)) /\ F(i).st = "freed"
  BY KdFreedOK DEF KdStateOK
<1> HIDE DEF t, F, oo
<1>3. KdRecord(t) /\ t.drv = [b \in KdBoards |-> 0] /\ t.nodes = {} /\ t.obj = [i \in DOMAIN s.obj |-> F(i)]
  BY <1>0, <1>1 DEF KdRecord
<1>4. /\ DOMAIN t.obj = DOMAIN s.obj /\ \A i \in DOMAIN t.obj : t.obj[i] = F(i)
      /\ t.obj = [i \in DOMAIN t.obj |-> t.obj[i]]
  BY <1>3
<1>5. Len(t.obj) \in Nat /\ DOMAIN t.obj = 1..Len(t.obj)
  BY <1>0, <1>4
<1>6. KdBound(t)
  BY <1>2, <1>3, <1>4 DEF KdBound
<1>7. KdStateOK(t)
  BY <1>2, <1>3, <1>4, <1>5, <1>6 DEF KdStateOK
<1> QED
  BY <1>7 DEF t
-----------------------------------------------------------------------------
(* A call that changes one structure, of which nothing but the structure   *)
(* and the failures are left changed.                                      *)
LEMMA KdOneDone ==
    ASSUME NEW S, KdDo(S), KdStateOK(kd), NEW i \in DOMAIN kd.obj,
           \A x \in S : \E p : KdSame(p, kd.obj[i]) /\ KdWith(kd, x.s, i, p)
    PROVE  KdStateOK(kd')
<1>1. \A x \in S : KdStateOK(x.s)
  BY KdOneOK
<1> QED
  BY <1>1, KdDone

LEMMA KdSetDone ==
    ASSUME KdStateOK(kd), NEW i \in DOMAIN kd.obj, NEW p, KdSame(p, kd.obj[i]), KdDo(Ok(KdSet(i, p)))
    PROVE  KdStateOK(kd')
<1>1. KdWith(kd, KdSet(i, p), i, p)
  BY KdReplaced DEF KdSet, KdStateOK
<1>2. \A x \in Ok(KdSet(i, p)) : x.s = KdSet(i, p)
  BY DEF Ok
<1> QED
  BY <1>1, <1>2, KdOneDone

LEMMA KdOkDone ==
    ASSUME NEW t, KdStateOK(t), KdDo(Ok(t))
    PROVE  KdStateOK(kd')
<1>1. \A x \in Ok(t) : x.s = t
  BY DEF Ok
<1> QED
  BY <1>1, KdDone

LEMMA KdInductive ==
    KdInv /\ [KdNext]_kd => KdInv'
<1> SUFFICES ASSUME KdStateOK(kd), [KdNext]_kd PROVE KdStateOK(kd')
  BY DEF KdInv
<1>0. KdRecord(kd) /\ \A i \in DOMAIN kd.obj : KdDevOK(kd.obj[i])
  BY DEF KdStateOK
<1>1. CASE KdLoad
  <2>1. \A t \in {kd, [kd EXCEPT !.faults = kd.faults - 1]} : KdStateOK(t)
    BY <1>0, KdFaulty, KdFaultyOK
  <2>2. ASSUME NEW x \in usdr_module_init(kd) PROVE KdStateOK(x.s)
    <3>1. PICK y \in Io(kd, kd) :
             x \in IF y.ok THEN Ok([y.s EXCEPT !.loaded = "yes"])
                                \cup {[o EXCEPT !.s.loaded = "empty"] : o \in Faulty(y.s)} \cup Faulty(y.s)
                   ELSE {y}
      BY DEF usdr_module_init, Then
    <3>2. (y.ok = TRUE /\ y.s = kd) \/ (y.ok = FALSE /\ y.s = [kd EXCEPT !.faults = kd.faults - 1])
      BY KdIo
    <3> DEFINE f == [kd EXCEPT !.faults = kd.faults - 1]
    <3>3. \A u \in {kd, f} : KdRecord(u) /\ KdStateOK(u)
      BY <2>1 DEF KdStateOK
    <3> HIDE DEF f
    <3>4. ASSUME NEW u \in {kd, f}, NEW l PROVE KdStateOK([u EXCEPT !.loaded = l])
      <4> DEFINE v == [u EXCEPT !.loaded = l]
      <4>1. v = [u EXCEPT !.loaded = l]
        OBVIOUS
      <4> HIDE DEF v
      <4>2. KdRecord(v) /\ v.nodes = u.nodes /\ v.drv = u.drv /\ v.obj = u.obj
        BY <3>3, <4>1 DEF KdRecord
      <4>3. KdStateOK(v)
        BY <3>3, <4>2, KdFaultyOK
      <4> QED
        BY <4>3 DEF v
    <3>5. CASE y.ok = FALSE /\ y.s = f
      BY <3>1, <3>3, <3>5
    <3>6. CASE y.ok = TRUE /\ y.s = kd
      <4>1. \/ x \in Ok([kd EXCEPT !.loaded = "yes"])
            \/ \E o \in Faulty(kd) : x = [o EXCEPT !.s.loaded = "empty"]
            \/ x \in Faulty(kd)
        BY <3>1, <3>6
      <4>2. \A o \in Faulty(kd) : o = [s |-> f, ok |-> FALSE]
        BY DEF Faulty, Fail, f
      <4>3. \/ x.s = [kd EXCEPT !.loaded = "yes"]
            \/ x.s = [f EXCEPT !.loaded = "empty"]
            \/ x.s = f
        BY <4>1, <4>2 DEF Ok
      <4> QED
        BY <3>3, <3>4, <4>3
    <3> QED
      BY <3>2, <3>5, <3>6 DEF f
  <2>3. KdDo(usdr_module_init(kd))
    BY <1>1 DEF KdLoad
  <2> QED
    BY <2>2, <2>3, KdDone
<1>2. CASE KdUnload
  <2>1. KdStateOK(usdr_cleanup(kd))
    BY <1>2, KdCleanedUp DEF KdUnload
  <2>2. KdDo(Ok(usdr_cleanup(kd)))
    BY <1>2 DEF KdUnload
  <2> QED
    BY <2>1, <2>2, KdOkDone
<1>3. CASE KdProbe
  <2>1. PICK b \in KdBoards : kd.drv[b] = 0 /\ KdDo(usdr_probe(kd, b))
    BY <1>3 DEF KdProbe
  <2>2. \A x \in usdr_probe(kd, b) : KdStateOK(x.s)
    BY <2>1, KdProbed
  <2> QED
    BY <2>1, <2>2, KdDone
<1>4. CASE KdRemove
  <2>1. PICK b \in KdBoards :
           /\ kd.drv[b] # 0
           /\ KdDo(Ok(IF kd.drv[b] = KdNull THEN [kd EXCEPT !.oops = TRUE] ELSE usdr_remove(kd, kd.drv[b])))
    BY <1>4 DEF KdRemove
  <2>2. CASE kd.drv[b] = KdNull
    <3> DEFINE v == [kd EXCEPT !.oops = TRUE]
    <3>1. v = [kd EXCEPT !.oops = TRUE] /\ KdDo(Ok(v))
      BY <2>1, <2>2
    <3> HIDE DEF v
    <3>2. KdRecord(v) /\ v.nodes = kd.nodes /\ v.drv = kd.drv /\ v.obj = kd.obj
      BY <1>0, <3>1 DEF KdRecord
    <3>3. KdStateOK(v)
      BY <3>2, KdFaultyOK
    <3> QED
      BY <3>1, <3>3, KdOkDone
  <2>3. CASE kd.drv[b] # KdNull
    <3> DEFINE i == kd.drv[b]
    <3>1. i \in DOMAIN kd.obj /\ kd.obj[i].st = "valid"
      BY <2>1, <2>3 DEF KdStateOK, KdBound
    <3>2. KdStateOK(usdr_remove(kd, i))
      BY <3>1, KdRemoved
    <3>3. KdDo(Ok(usdr_remove(kd, i)))
      BY <2>1, <2>3
    <3> QED
      BY <3>2, <3>3, KdOkDone
  <2> QED
    BY <2>2, <2>3
<1>5. CASE KdOpen
  <2>1. PICK i \in DOMAIN kd.obj : kd.obj[i].st = "valid"
                                   /\ \E x \in usdrfd_open(kd.obj[i]) : KdDo(Ok(KdSet(i, x.s)))
    BY <1>5 DEF KdOpen
  <2>2. PICK x \in usdrfd_open(kd.obj[i]) : KdDo(Ok(KdSet(i, x.s)))
    BY <2>1
  <2>3. KdSame(x.s, kd.obj[i])
    BY <1>0, <2>1, KdOpenOK
  <2> QED
    BY <2>2, <2>3, KdSetDone
<1>6. CASE KdRelease
  <2>1. PICK i \in DOMAIN kd.obj : kd.obj[i].open > 0 /\ KdDo(Ok(KdSet(i, usdrfd_release(kd.obj[i]))))
    BY <1>6 DEF KdRelease
  <2>2. KdSame(usdrfd_release(kd.obj[i]), kd.obj[i])
    BY <1>0, <2>1, KdReleaseOK
  <2> QED
    BY <2>1, <2>2, KdSetDone
<1>7. CASE KdLayout
  <2>1. PICK i \in DOMAIN kd.obj : kd.obj[i].st = "valid" /\ KdDo(usdr_device_initialie(kd, i))
    BY <1>7 DEF KdLayout, KdIoctl
  <2>2. \A x \in usdr_device_initialie(kd, i) : \E p : KdSame(p, kd.obj[i]) /\ KdWith(kd, x.s, i, p)
    BY <2>1, KdInitialized
  <2> QED
    BY <2>1, <2>2, KdOneDone
<1>8. \A i \in DOMAIN kd.obj : kd.obj[i].open > 0 => kd.obj[i].open = 1
  BY <1>0 DEF KdDevOK
<1>9. CASE KdStreamConf
  <2>1. PICK i \in DOMAIN kd.obj : /\ kd.obj[i].open > 0
                                   /\ \E k \in KdStreams \ kd.obj[i].conf, z \in KdSizes : KdDo(KdConf(kd, i, k, z))
    BY <1>9 DEF KdStreamConf, KdReadyIoctl, KdIoctl
  <2>2. PICK k \in KdStreams \ kd.obj[i].conf, z \in KdSizes : KdDo(KdConf(kd, i, k, z))
    BY <2>1
  <2>3. \A x \in KdConf(kd, i, k, z) : \E p : KdSame(p, kd.obj[i]) /\ KdWith(kd, x.s, i, p)
    BY <1>8, <2>1, KdConfed
  <2> QED
    BY <2>2, <2>3, KdOneDone
<1>10. CASE KdStreamMap
  <2>1. PICK i \in DOMAIN kd.obj : /\ kd.obj[i].open > 0
                                   /\ \E k \in kd.obj[i].conf \ kd.obj[i].map : KdDo(usdrfd_mmap(kd, i, k))
    BY <1>10 DEF KdStreamMap, KdReadyIoctl, KdIoctl
  <2>2. PICK k \in kd.obj[i].conf \ kd.obj[i].map : KdDo(usdrfd_mmap(kd, i, k))
    BY <2>1
  <2>3. k \in KdStreams
    BY <1>0 DEF KdDevOK
  <2>4. \A x \in usdrfd_mmap(kd, i, k) : \E p : KdSame(p, kd.obj[i]) /\ KdWith(kd, x.s, i, p)
    BY <1>8, <2>1, <2>3, KdMmapped
  <2> QED
    BY <2>2, <2>4, KdOneDone
<1>11. CASE KdStreamUnmap
  <2>1. PICK i \in DOMAIN kd.obj : /\ kd.obj[i].open > 0
                                   /\ \E k \in kd.obj[i].map : KdDo(Ok(KdUnmap(kd, i, k)))
    BY <1>11 DEF KdStreamUnmap
  <2>2. PICK k \in kd.obj[i].map : KdDo(Ok(KdUnmap(kd, i, k)))
    BY <2>1
  <2>3. \E p : KdSame(p, kd.obj[i]) /\ KdWith(kd, KdUnmap(kd, i, k), i, p)
    BY <1>8, <2>1, KdUnmapped
  <2>4. KdStateOK(KdUnmap(kd, i, k))
    BY <2>3, KdOneOK
  <2> QED
    BY <2>2, <2>4, KdOkDone
<1>12. CASE KdStreamFree
  <2>1. PICK i \in DOMAIN kd.obj : /\ kd.obj[i].open > 0
                                   /\ \E k \in kd.obj[i].conf \ kd.obj[i].map : KdDo(Ok(usdr_stream_free(kd, i, k)))
    BY <1>12 DEF KdStreamFree, KdReadyIoctl, KdIoctl
  <2>2. PICK k \in kd.obj[i].conf \ kd.obj[i].map : KdDo(Ok(usdr_stream_free(kd, i, k)))
    BY <2>1
  <2>3. k \in KdStreams
    BY <1>0 DEF KdDevOK
  <2>4. \E p : KdSame(p, kd.obj[i]) /\ KdWith(kd, usdr_stream_free(kd, i, k), i, p)
    BY <1>8, <2>1, <2>3, KdStreamFreed
  <2>5. KdStateOK(usdr_stream_free(kd, i, k))
    BY <2>4, KdOneOK
  <2> QED
    BY <2>2, <2>5, KdOkDone
<1>13. CASE UNCHANGED kd
  BY <1>13
<1> QED
  BY <1>1, <1>2, <1>3, <1>4, <1>5, <1>6, <1>7, <1>9, <1>10, <1>11, <1>12, <1>13 DEF KdNext

LEMMA KdInitially == KdInit => KdInv
<1> SUFFICES ASSUME KdInit PROVE KdStateOK(kd)
  BY DEF KdInv
<1>1. KdRecord(kd) /\ kd.obj = <<>> /\ kd.nodes = {} /\ kd.drv = [b \in KdBoards |-> 0]
  BY DEF KdInit, KdFresh, KdRecord
<1>2. /\ DOMAIN kd.obj = {} /\ Len(kd.obj) = 0 /\ DOMAIN kd.obj = 1..Len(kd.obj)
      /\ kd.obj = [i \in DOMAIN kd.obj |-> kd.obj[i]]
  BY <1>1
<1>3. KdBound(kd)
  BY <1>1, <1>2 DEF KdBound
<1> QED
  BY <1>1, <1>2, <1>3 DEF KdStateOK

(* What the PCIe driver can be made to touch is there, and the device      *)
(* nodes are those of the boards, one each and with one user, for every    *)
(* number of boards, streams and failures: the calls of a process may fall *)
(* between the steps of usdr_remove, and boards leave in any order.        *)
THEOREM KdAlwaysAlive == KdSpec => []KdLife
<1>1. KdInv => KdLife
  <2> SUFFICES ASSUME KdStateOK(kd) PROVE KdReached /\ KdNodes
    BY DEF KdInv, KdLife
  <2>1. ASSUME NEW i \in DOMAIN kd.obj
        PROVE  LET o == kd.obj[i] IN
               /\ o.open > 0 => o.st # "freed"
               /\ o.irq /\ (o.rem > 0 => o.was) => o.bucket /\ o.st = "valid"
               /\ \A k \in KdStreams : o.size[k] # 0 => k \in o.mem
               /\ ~o.stale
    <3> DEFINE o == kd.obj[i]
    <3>1. KdDevOK(o)
      BY DEF KdStateOK
    <3> HIDE DEF o
    <3>2. (o.open > 0 => o.st # "freed") /\ (\A k \in KdStreams : o.size[k] # 0 => k \in o.mem) /\ ~o.stale
      BY <3>1 DEF KdDevOK
    <3>3. ASSUME o.irq, o.rem > 0 => o.was PROVE o.bucket /\ o.st = "valid"
      <4>1. o.rem = 0
        BY <3>1, <3>3 DEF KdDevOK
      <4> QED
        BY <3>1, <3>3, <4>1 DEF KdDevOK
    <3> QED
      BY <3>2, <3>3 DEF o
  <2>2. KdReached
    BY <2>1 DEF KdReached
  <2>3. KdBound(kd) /\ \A i \in DOMAIN kd.obj : kd.obj[i].open <= 1
    BY DEF KdStateOK, KdDevOK
  <2>4. KdNodes
    BY <2>3 DEF KdNodes, KdBound
  <2> QED
    BY <2>2, <2>4
<1> QED
  BY <1>1, KdInitially, KdInductive, PTL DEF KdSpec
-----------------------------------------------------------------------------
(* The bursts of a packet (BurstCalc): every answer of the front ends to   *)
(* every request.                                                          *)

\* Min is that element.
LEMMA MinIsLeast ==
    ASSUME NEW T \in SUBSET Nat, T # {}
    PROVE  Min(T) \in T /\ \A y \in T : Min(T) <= y
BY LeastElement DEF Min

\* Factors that are not 0.
LEMMA ProductPositive ==
    ASSUME NEW a \in Nat \ {0}, NEW b \in Nat \ {0}
    PROVE  a * b \in Nat \ {0} /\ a * b = b * a
<1>1. a * 1 <= a * b /\ a * b \in Nat
  BY TimesGrows
<1>2. a * b = b * a /\ a * 1 = a
  OBVIOUS
<1> QED
  BY <1>1, <1>2

\* Division: the quotient is at least q exactly when q divisors fit.
LEMMA QuotientAtLeast ==
    ASSUME NEW a \in Nat, NEW n \in Nat \ {0}, NEW q \in Nat
    PROVE  a \div n >= q <=> n * q <= a
<1> DEFINE d == a \div n
           r == a % n
<1>1. d \in Nat /\ r \in 0..n-1 /\ a = n * d + r
  BY DivMod
<1> HIDE DEF d, r
<1>2. ASSUME d >= q PROVE n * q <= a
  BY <1>1, <1>2, TimesGrows
<1>3. ASSUME d < q PROVE n * q > a
  <2>1. n * (d + 1) <= n * q
    BY <1>1, <1>3, TimesGrows
  <2>2. n * (d + 1) = n * d + n
    BY <1>1
  <2> QED
    BY <1>1, <2>1, <2>2
<1> QED
  BY <1>1, <1>2, <1>3 DEF d

\* Rounding up: that many divisors cover the dividend.
LEMMA CeilDivCovers ==
    ASSUME NEW a \in Nat, NEW n \in Nat \ {0}
    PROVE  CeilDiv(a, n) \in Nat /\ n * CeilDiv(a, n) >= a
<1>1. /\ CeilDiv(a, n) \in Nat /\ (a + n - 1) % n \in 0..n-1
      /\ a + n - 1 = n * CeilDiv(a, n) + ((a + n - 1) % n)
  <2>1. a + n - 1 \in Nat
    OBVIOUS
  <2> QED
    BY <2>1, DivMod DEF CeilDiv
<1> DEFINE c == CeilDiv(a, n)
<1>2. n * c \in Nat
  BY <1>1
<1> QED
  BY <1>1, <1>2

\* A multiple is divided without a remainder.
LEMMA ExactQuotient ==
    ASSUME NEW n \in Nat \ {0}, NEW q \in Nat
    PROVE  (n * q) \div n = q /\ (n * q) % n = 0
<1>1. (n * q + 0) \div n = q /\ (n * q + 0) % n = 0
  BY DivModUnique
<1>2. n * q + 0 = n * q
  OBVIOUS
<1> QED
  BY <1>1, <1>2

\* What burst_fe_calculate is given: a front end whose words fill its FIFO
\* and that can be told of two bursts, and a request for whole numbers.
BurstFe(c) ==
    /\ c.max \in Nat /\ c.fifo \in Nat /\ c.samples \in Nat /\ c.lanes \in Nat
    /\ c.lane \in Nat \ {0} /\ c.mod \in Nat \ {0}
    /\ c.words = c.fifo \div c.lane
    /\ c.capmask \in Nat /\ c.capmask >= 2

BurstAsk(q) == q.raw \in Nat /\ q.bits \in Nat /\ q.syms \in Nat /\ q.per \in Nat

\* The bursts a hold w words each: none of the packet is left out, and if
\* no word is left empty either, they fit the FIFO as often as told and a
\* smaller number of bursts would have broken a limit.
BurstFits(c, q, a, w) ==
    LET words == BurstWords(c, q)
    IN  /\ w \in Nat /\ a.bytes = w * c.lane
        /\ a.count * w >= words
        /\ a.count * w = words =>
              /\ a.cap \in Nat /\ a.cap >= 2 /\ a.cap * a.bytes <= c.fifo
              /\ \A b \in 1..(a.count - 1) :
                    \/ words % b # 0 \/ q.syms % b # 0
                    \/ 2 * ((words \div b) * c.lane) > c.fifo
                    \/ q.syms \div b > c.samples
                    \/ (q.syms \div b) % c.mod # 0

BurstCutOK(c, q, a) ==
    /\ a.count \in 1..c.max /\ a.samples \in Nat /\ a.count * a.samples = q.syms
    /\ \E w \in Nat : BurstFits(c, q, a, w)

\* The words of a packet hold its bits.
LEMMA WordsCover ==
    ASSUME NEW c, NEW q, BurstFe(c), BurstAsk(q)
    PROVE  BurstWords(c, q) \in Nat /\ 8 * c.lane * BurstWords(c, q) >= q.raw * q.bits * q.syms
<1>1. q.raw * q.bits \in Nat
  BY DEF BurstAsk
<1>2. q.raw * q.bits * q.syms \in Nat
  BY <1>1 DEF BurstAsk
<1>3. 8 * c.lane \in Nat \ {0}
  BY DEF BurstFe
<1> QED
  BY <1>2, <1>3, CeilDivCovers DEF BurstWords

\* Counts the loop looks at divide the samples.
LEMMA DividesOK ==
    ASSUME NEW c, NEW q, BurstFe(c), BurstAsk(q), NEW b \in BurstDivides(c, q)
    PROVE  b \in 1..c.max /\ b \in Nat \ {0} /\ q.syms \div b \in Nat /\ b * (q.syms \div b) = q.syms
<1>1. b \in 1..c.max /\ b \in Nat \ {0} /\ q.syms % b = 0 /\ q.syms \in Nat
  BY DEF BurstDivides, BurstFe, BurstAsk
<1>2. q.syms \div b \in Nat /\ q.syms = b * (q.syms \div b) + (q.syms % b)
  BY <1>1, DivMod
<1>3. b * (q.syms \div b) \in Nat
  BY <1>1, <1>2
<1> QED
  BY <1>1, <1>2, <1>3

\* A count that is not taken although nothing would be left empty breaks a
\* limit of the front end.
LEMMA NotExact ==
    ASSUME NEW c, NEW q, BurstFe(c), BurstAsk(q), BurstWords(c, q) # 0,
           NEW b \in 1..c.max, b \notin BurstExact(c, q)
    PROVE  \/ BurstWords(c, q) % b # 0 \/ q.syms % b # 0
           \/ 2 * ((BurstWords(c, q) \div b) * c.lane) > c.fifo
           \/ q.syms \div b > c.samples
           \/ (q.syms \div b) % c.mod # 0
<1> DEFINE W == BurstWords(c, q)
           w == W \div b
<1> SUFFICES ASSUME W % b = 0, q.syms % b = 0, ~(q.syms \div b > c.samples), (q.syms \div b) % c.mod = 0
             PROVE  2 * (w * c.lane) > c.fifo
  OBVIOUS
<1>1. W \in Nat \ {0} /\ b \in Nat \ {0} /\ c.lane \in Nat \ {0} /\ c.fifo \in Nat /\ c.samples \in Nat
  BY WordsCover DEF BurstFe
<1>2. w \in Nat /\ W = b * w + (W % b)
  BY <1>1, DivMod
<1>3. w # 0
  <2>1. SUFFICES ASSUME w = 0 PROVE FALSE
    OBVIOUS
  <2>2. b * w = 0
    BY <2>1, <1>1
  <2> QED
    BY <1>1, <1>2, <2>2
<1>4. b \in BurstDivides(c, q)
  BY DEF BurstDivides
<1>5. ~BurstInLimits(c, q, b)
  BY <1>4 DEF BurstExact
<1>6. q.syms \div b \in Nat
  BY <1>4, DividesOK
<1>7. ~(BurstCap(c, w) > 1) \/ ~(w <= c.fifo \div c.lane)
  BY <1>5, <1>6, <1>1 DEF BurstInLimits, BurstFe
<1> DEFINE n == w * c.lane
<1>8. n \in Nat \ {0} /\ n = c.lane * w
  BY <1>1, <1>2, <1>3, ProductPositive
<1>9. CASE ~(BurstCap(c, w) > 1)
  <2>1. c.fifo \div n \in Nat /\ ~(c.fifo \div n > 1)
    BY <1>9, <1>8, <1>1, DivMod DEF BurstCap
  <2>2. ~(c.fifo \div n >= 2)
    BY <2>1
  <2> HIDE DEF n
  <2>3. ~(n * 2 <= c.fifo)
    BY <2>2, <1>8, <1>1, QuotientAtLeast
  <2> QED
    BY <2>3, <1>8, <1>1 DEF n
<1>10. CASE ~(w <= c.fifo \div c.lane)
  <2>1. c.fifo \div c.lane \in Nat
    BY <1>1, DivMod
  <2>2. ~(c.fifo \div c.lane >= w)
    BY <1>10, <2>1, <1>2
  <2>3. ~(c.lane * w <= c.fifo)
    BY <2>2, <1>1, <1>2, QuotientAtLeast
  <2> QED
    BY <2>3, <1>8, <1>1
<1> QED
  BY <1>7, <1>9, <1>10

\* The cut without an empty word.
LEMMA FirstCut ==
    ASSUME NEW c, NEW q, BurstFe(c), BurstAsk(q), BurstWords(c, q) # 0, BurstExact(c, q) # {}
    PROVE  BurstCutOK(c, q, BurstFirst(c, q))
<1> DEFINE W == BurstWords(c, q)
           b == Min(BurstExact(c, q))
           w == W \div b
           a == BurstFirst(c, q)
<1>1. BurstExact(c, q) \in SUBSET Nat
  BY DEF BurstExact, BurstDivides, BurstFe
<1>2. b \in BurstExact(c, q) /\ \A y \in BurstExact(c, q) : b <= y
  BY <1>1, MinIsLeast
<1>3. b \in 1..c.max /\ b \in Nat \ {0} /\ q.syms \div b \in Nat /\ b * (q.syms \div b) = q.syms
  BY <1>2, DividesOK DEF BurstExact
<1>4. W % b = 0 /\ BurstCap(c, w) > 1
  BY <1>2 DEF BurstExact, BurstInLimits
<1>5. W \in Nat \ {0} /\ c.lane \in Nat \ {0} /\ c.fifo \in Nat /\ c.max \in Nat
  BY WordsCover DEF BurstFe
<1> HIDE DEF b
<1>6. w \in Nat /\ W = b * w + (W % b)
  BY <1>3, <1>5, DivMod
<1>7. w # 0 /\ b * w = W
  <2>1. b * w \in Nat
    BY <1>3, <1>6
  <2>2. b * w = W
    BY <2>1, <1>4, <1>5, <1>6
  <2>3. w = 0 => b * w = 0
    BY <1>3
  <2> QED
    BY <2>2, <2>3, <1>5
<1> DEFINE cap == BurstCap(c, w)
           told == IF cap > c.capmask THEN c.capmask ELSE cap
<1>8. a = [ok |-> TRUE, bytes |-> w * c.lane, cap |-> told, count |-> b, samples |-> q.syms \div b]
  BY DEF BurstFirst, BurstAnswer, b
<1>9. a.bytes = w * c.lane /\ a.cap = told /\ a.count = b /\ a.samples = q.syms \div b
  BY <1>8
<1>10. told \in Nat /\ told >= 2 /\ told * (w * c.lane) <= c.fifo
  <2> HIDE DEF w
  <2> DEFINE n == w * c.lane
  <2>1. n \in Nat \ {0}
    BY <1>5, <1>6, <1>7, ProductPositive
  <2>2. cap = c.fifo \div n
    BY DEF BurstCap
  <2> HIDE DEF n
  <2>3. cap \in Nat /\ cap > 1
    BY <2>1, <2>2, <1>4, <1>5, DivMod, SMTT(30) DEF w
  <2> HIDE DEF cap
  <2>4. told \in Nat /\ told >= 2 /\ told <= cap
    BY <2>3 DEF BurstFe
  <2> HIDE DEF told
  <2>5. n * told <= c.fifo
    BY <2>1, <2>2, <2>3, <2>4, <1>5, QuotientAtLeast
  <2>6. n * told = told * n
    BY <2>1, <2>4
  <2> QED
    BY <2>4, <2>5, <2>6 DEF n
<1>11. ASSUME NEW e \in 1..(b - 1)
       PROVE  \/ W % e # 0 \/ q.syms % e # 0
              \/ 2 * ((W \div e) * c.lane) > c.fifo
              \/ q.syms \div e > c.samples
              \/ (q.syms \div e) % c.mod # 0
  <2>1. e \in 1..c.max /\ ~(b <= e)
    BY <1>3, <1>5
  <2>2. e \notin BurstExact(c, q)
    BY <2>1, <1>2
  <2> QED
    BY <2>1, <2>2, NotExact
<1> HIDE DEF a, told, w
<1>12. BurstFits(c, q, a, w)
  <2>1. a.count * w >= W
    BY <1>9, <1>7, <1>5
  <2> QED
    BY <2>1, <1>6, <1>9, <1>10, <1>11 DEF BurstFits
<1> QED
  BY <1>12, <1>9, <1>3, <1>6 DEF BurstCutOK, a

\* The cut with the least stub: were there none, it would have been taken
\* before.
LEMMA StubCut ==
    ASSUME NEW c, NEW q, BurstFe(c), BurstAsk(q), BurstExact(c, q) = {}, BurstWithin(c, q) # {}
    PROVE  BurstCutOK(c, q, BurstStub(c, q))
<1> DEFINE W == BurstWords(c, q)
           extra == Min({BurstExtra(c, q, e) : e \in BurstWithin(c, q)})
           least == {e \in BurstWithin(c, q) : BurstExtra(c, q, e) = extra}
           b == Min(least)
           w == CeilDiv(W, b)
           a == BurstStub(c, q)
           cap == BurstCap(c, W \div Max(BurstDivides(c, q)))
           told == IF cap > c.capmask THEN c.capmask ELSE cap
<1>1. W \in Nat /\ c.max \in Nat
  BY WordsCover DEF BurstFe
<1>2. \A e \in BurstWithin(c, q) : e \in Nat \ {0} /\ e \in BurstDivides(c, q)
  BY DEF BurstWithin, BurstDivides
<1>3. \A e \in BurstWithin(c, q) : BurstExtra(c, q, e) \in Nat
  <2> SUFFICES ASSUME NEW e \in BurstWithin(c, q) PROVE BurstExtra(c, q, e) \in Nat
    OBVIOUS
  <2>1. CeilDiv(W, e) \in Nat /\ e * CeilDiv(W, e) >= W
    BY <1>1, <1>2, CeilDivCovers
  <2> DEFINE k == CeilDiv(W, e)
  <2> HIDE DEF k
  <2>2. k * e = e * k /\ k * e \in Nat
    BY <2>1, <1>2 DEF k
  <2> QED
    BY <2>1, <2>2, <1>1 DEF k, BurstExtra
<1>4. extra \in {BurstExtra(c, q, e) : e \in BurstWithin(c, q)}
  <2> DEFINE E == {BurstExtra(c, q, e) : e \in BurstWithin(c, q)}
  <2>1. E \in SUBSET Nat /\ E # {}
    BY <1>3
  <2> HIDE DEF E
  <2>2. Min(E) \in E
    BY <2>1, MinIsLeast
  <2> QED
    BY <2>2 DEF E
<1>5. least # {} /\ least \in SUBSET Nat
  BY <1>4, <1>2
<1>6. b \in BurstWithin(c, q)
  <2> HIDE DEF extra
  <2>1. b \in least
    BY <1>5, MinIsLeast
  <2> QED
    BY <2>1
<1> HIDE DEF b
<1>7. b \in 1..c.max /\ b \in Nat \ {0} /\ q.syms \div b \in Nat /\ b * (q.syms \div b) = q.syms
  BY <1>2, <1>6, DividesOK
<1>8. w \in Nat /\ b * w >= W
  BY <1>1, <1>7, CeilDivCovers
<1>9. b * w # W
  <2>1. SUFFICES ASSUME b * w = W PROVE FALSE
    OBVIOUS
  <2> HIDE DEF w
  <2>2. (b * w) % b = 0
    BY <1>7, <1>8, ExactQuotient
  <2>3. W % b = 0
    BY <2>1, <2>2
  <2> QED
    BY <2>3, <1>6 DEF BurstExact, BurstWithin
<1>10. a = [ok |-> TRUE, bytes |-> w * c.lane, cap |-> told, count |-> b, samples |-> q.syms \div b]
  BY DEF BurstStub, BurstAnswer, b
<1> HIDE DEF a, w, told
<1>11. BurstFits(c, q, a, w)
  BY <1>8, <1>9, <1>10 DEF BurstFits
<1> QED
  BY <1>7, <1>8, <1>10, <1>11 DEF BurstCutOK, a

\* burst_fe_calculate: whatever it accepts is cut as it should be.
LEMMA BurstCut ==
    ASSUME NEW c, NEW q, BurstFe(c), BurstAsk(q), q.per = 0, burst_fe_calculate(c, q).ok
    PROVE  BurstCutOK(c, q, burst_fe_calculate(c, q))
<1> DEFINE S == {b \in BurstWithin(c, q) : BurstExtra(c, q, b) < BurstWords(c, q)}
<1>1. burst_fe_calculate(c, q) # BurstRefused
  BY DEF BurstRefused
<1>2. /\ BurstWords(c, q) # 0
      /\ burst_fe_calculate(c, q) = IF BurstExact(c, q) # {} THEN BurstFirst(c, q)
                                    ELSE IF S # {} THEN BurstStub(c, q) ELSE BurstRefused
  BY <1>1 DEF burst_fe_calculate
<1>3. CASE BurstExact(c, q) # {}
  BY <1>2, <1>3, FirstCut
<1>4. CASE BurstExact(c, q) = {}
  <2>1. S # {} /\ burst_fe_calculate(c, q) = BurstStub(c, q)
    BY <1>1, <1>2, <1>4
  <2>2. BurstWithin(c, q) # {}
    BY <2>1
  <2> QED
    BY <2>1, <2>2, <1>4, StubCut
<1> QED
  BY <1>3, <1>4

\* The front end of a request, and what it asks it for: the bifurcated
\* stream has half the samples on twice the lanes.
BurstHalves(q) == IF q.bif THEN 2 ELSE 1
BurstLanesOf(q) == IF q.fmt.fft THEN 1 ELSE Len(q.map) * (IF q.fmt.cplx THEN 2 ELSE 1) * BurstHalves(q)
BurstLaneOf(q) == IF q.core = "exfe" THEN 16 ELSE 8

BurstAsksFor(q, c, r) ==
    /\ BurstFe(c) /\ BurstAsk(r) /\ r.per = 0
    /\ BurstConfigure(q) = burst_fe_calculate(c, r)
    /\ c.fifo = BurstFifo /\ c.max = BurstMax /\ c.lane = BurstLaneOf(q)
    /\ c.samples = BurstFifo \div (IF BurstLaneOf(q) = 8 THEN 8 ELSE 1)
    /\ c.mod = IF q.fmt.fft THEN BurstFft ELSE 1
    /\ r.bits = q.fmt.bits /\ r.syms * BurstHalves(q) = q.syms /\ r.raw = BurstLanesOf(q)

\* The simple and the extended front end are such front ends.
LEMMA FrontEndsOK ==
    /\ BurstFe(ExfeFe)
    /\ \A mod \in Nat \ {0} : BurstFe(SfeFe(mod))
<1>1. /\ BurstFifo \in Nat /\ BurstMax \in Nat /\ BurstFifo >= 64 * 3
      /\ 8 \in Nat \ {0} /\ 16 \in Nat \ {0} /\ 64 \in Nat \ {0} /\ 3 \in Nat
  BY BurstAssumption
<1>2. BurstFifo \div 64 \in Nat /\ BurstFifo \div 64 >= 3
  BY <1>1, DivMod, QuotientAtLeast
<1>3. BurstFifo \div 64 - 1 \in Nat /\ BurstFifo \div 64 - 1 >= 2
  BY <1>2
<1>4. BurstFifo \div 8 \in Nat /\ BurstFifo \div 16 \in Nat
  BY <1>1, DivMod
<1>5. BurstFe(ExfeFe)
  BY <1>1, <1>3, <1>4 DEF BurstFe, ExfeFe
<1>6. ASSUME NEW mod \in Nat \ {0} PROVE BurstFe(SfeFe(mod))
  BY <1>1, <1>3, <1>4 DEF BurstFe, SfeFe
<1> QED
  BY <1>5, <1>6

\* What the bifurcation leaves of a request.
BurstHalved(q, r) ==
    /\ r.core = q.core /\ r.fmt = q.fmt /\ r.per = q.per
    /\ r.syms \in Nat /\ r.syms * BurstHalves(q) = q.syms
    /\ Len(r.map) = Len(q.map) * BurstHalves(q) /\ Len(r.map) \in Nat

\* Half of the samples on twice the channels.
LEMMA BifurcatedOK ==
    ASSUME NEW q \in BurstReqs, q.bif => BurstBifurcates(q)
    PROVE  BurstHalved(q, BurstBifurcated(q))
<1>1. /\ q = [core |-> q.core, fmt |-> q.fmt, map |-> q.map, syms |-> q.syms, per |-> q.per, bif |-> q.bif]
      /\ q.syms \in Nat /\ q.map \in Seq(Nat) /\ q.bif \in BOOLEAN
  BY BurstAssumption DEF BurstReqs
<1>2. CASE ~q.bif
  BY <1>1, <1>2 DEF BurstBifurcated, BurstHalved, BurstHalves
<1>3. CASE q.bif
  <2> DEFINE m == IF q.fmt.cplx THEN <<q.map[1], q.map[1] + 1>>
                  ELSE <<q.map[1], q.map[2], q.map[1] + 2, q.map[2] + 2>>
             r == BurstBifurcated(q)
  <2>1. r = [core |-> q.core, fmt |-> q.fmt, map |-> m, syms |-> q.syms \div 2, per |-> q.per, bif |-> q.bif]
    BY <1>1, <1>3 DEF BurstBifurcated
  <2>2. q.syms % 2 = 0 /\ ((q.fmt.cplx /\ Len(q.map) = 1) \/ (~q.fmt.cplx /\ Len(q.map) = 2))
    BY <1>3 DEF BurstBifurcates
  <2>3. Len(m) = Len(q.map) * 2 /\ Len(m) \in Nat
    <3>1. CASE q.fmt.cplx
      <4>1. m = <<q.map[1], q.map[1] + 1>> /\ Len(q.map) = 1
        BY <2>2, <3>1
      <4>2. Len(<<q.map[1], q.map[1] + 1>>) = 2
        OBVIOUS
      <4> QED
        BY <4>1, <4>2
    <3>2. CASE ~q.fmt.cplx
      <4>1. m = <<q.map[1], q.map[2], q.map[1] + 2, q.map[2] + 2>> /\ Len(q.map) = 2
        BY <2>2, <3>2
      <4>2. Len(<<q.map[1], q.map[2], q.map[1] + 2, q.map[2] + 2>>) = 4
        OBVIOUS
      <4> QED
        BY <4>1, <4>2
    <3> QED
      BY <3>1, <3>2
  <2>4. q.syms \div 2 \in Nat /\ (q.syms \div 2) * 2 = q.syms
    BY <2>2, <1>1
  <2> HIDE DEF m, r
  <2>5. r.core = q.core /\ r.fmt = q.fmt /\ r.per = q.per /\ r.syms = q.syms \div 2 /\ r.map = m
    BY <2>1
  <2> QED
    BY <1>3, <2>3, <2>4, <2>5 DEF BurstHalved, BurstHalves, r
<1> QED
  BY <1>2, <1>3

\* The component lanes of the simple front end: all channels, or none.
LEMMA LanesOK ==
    ASSUME NEW cplx \in BOOLEAN, NEW map, Len(map) \in Nat, sfe_rx4_lanes(cplx, map) # 0
    PROVE  sfe_rx4_lanes(cplx, map) = Len(map) * (IF cplx THEN 2 ELSE 1)
<1> DEFINE chs == {map[i] : i \in DOMAIN map}
           l == sfe_rx4_lanes(cplx, map)
<1>1. CASE cplx
  <2>1. CASE Len(map) = 2
    BY <1>1, <2>1 DEF sfe_rx4_lanes
  <2>2. CASE Len(map) = 1 /\ map[1] \in 0..1
    BY <1>1, <2>2 DEF sfe_rx4_lanes
  <2>3. CASE Len(map) # 2 /\ ~(Len(map) = 1 /\ map[1] \in 0..1)
    BY <1>1, <2>3 DEF sfe_rx4_lanes
  <2> QED
    BY <2>1, <2>2, <2>3
<1>2. CASE ~cplx
  <2>1. CASE Len(map) = 4
    BY <1>2, <2>1 DEF sfe_rx4_lanes
  <2>2. CASE Len(map) = 2 /\ chs \in {{0, 1}, {2, 3}, {0, 2}}
    BY <1>2, <2>2 DEF sfe_rx4_lanes
  <2>3. CASE Len(map) = 1 /\ map[1] \in 0..3
    BY <1>2, <2>3 DEF sfe_rx4_lanes
  <2>4. CASE /\ Len(map) # 4 /\ ~(Len(map) = 2 /\ chs \in {{0, 1}, {2, 3}, {0, 2}})
             /\ ~(Len(map) = 1 /\ map[1] \in 0..3)
    BY <1>2, <2>4 DEF sfe_rx4_lanes
  <2> QED
    BY <2>1, <2>2, <2>3, <2>4
<1> QED
  BY <1>1, <1>2

\* An accepted request came to burst_fe_calculate as it was made.
LEMMA ConfigureAsks ==
    ASSUME NEW q \in BurstReqs, q.per = 0, BurstConfigure(q).ok
    PROVE  \E c, r : BurstAsksFor(q, c, r)
<1> DEFINE h == BurstBifurcated(q)
           n == Len(h.map)
           x == IF q.fmt.cplx THEN 2 ELSE 1
<1>1. /\ q.core \in {"sfe", "exfe"} /\ q.fmt.cplx \in BOOLEAN /\ q.fmt.fft \in BOOLEAN
      /\ q.fmt.bits \in Nat /\ q.bif \in BOOLEAN /\ q.map \in Seq(Nat)
  <2>1. q.core \in {"sfe", "exfe"} /\ q.fmt \in BurstFmts /\ q.bif \in BOOLEAN /\ q.map \in Seq(Nat)
    BY BurstAssumption DEF BurstReqs
  <2>2. \A f \in BurstFmts : f.cplx \in BOOLEAN /\ f.fft \in BOOLEAN /\ f.bits \in {8, 12, 16}
    <3> TAKE f \in BurstFmts
    <3>1. \/ \E b \in {8, 12, 16}, c \in BOOLEAN : f = [bits |-> b, cplx |-> c, fft |-> FALSE]
          \/ f = [bits |-> 16, cplx |-> FALSE, fft |-> TRUE]
      BY DEF BurstFmts
    <3>2. ASSUME NEW b \in {8, 12, 16}, NEW c \in BOOLEAN, f = [bits |-> b, cplx |-> c, fft |-> FALSE]
          PROVE  f.cplx \in BOOLEAN /\ f.fft \in BOOLEAN /\ f.bits \in {8, 12, 16}
      <4>1. f.cplx = c /\ f.fft = FALSE /\ f.bits = b
        BY <3>2
      <4> QED
        BY <4>1, Zenon
    <3>3. ASSUME f = [bits |-> 16, cplx |-> FALSE, fft |-> TRUE]
          PROVE  f.cplx \in BOOLEAN /\ f.fft \in BOOLEAN /\ f.bits \in {8, 12, 16}
      BY <3>3
    <3> QED
      BY <3>1, <3>2, <3>3
  <2> QED
    BY <2>1, <2>2
<1>2. BurstConfigure(q) # BurstRefused
  BY DEF BurstRefused
<1>3. /\ q.bif => BurstBifurcates(q)
      /\ BurstConfigure(q) = IF q.core = "exfe" THEN exfe_rx4_configure(h) ELSE sfe_rx4_configure(h)
  BY <1>2 DEF BurstConfigure
<1>4. BurstHalved(q, h)
  BY <1>3, BifurcatedOK
<1> HIDE DEF h
<1>5. /\ h.fmt = q.fmt /\ h.per = 0 /\ h.syms \in Nat /\ h.syms * BurstHalves(q) = q.syms
      /\ n \in Nat /\ n = Len(q.map) * BurstHalves(q)
  BY <1>4 DEF BurstHalved
<1>6. n * x = Len(q.map) * x * BurstHalves(q) /\ n * x \in Nat
  <2>1. Len(q.map) \in Nat
    BY <1>1
  <2> DEFINE k == Len(q.map)
  <2> HIDE DEF k
  <2>2. x \in 1..2 /\ BurstHalves(q) \in 1..2
    BY DEF BurstHalves
  <2> DEFINE y == BurstHalves(q)
  <2> HIDE DEF x, y, n
  <2>3. (k * y) * x = k * x * y /\ (k * y) * x \in Nat
    BY <2>1, <2>2 DEF k, y
  <2> QED
    BY <2>3, <1>5 DEF k, y
<1>7. CASE q.core = "exfe"
  <2> DEFINE r == [raw |-> n * x, bits |-> q.fmt.bits, syms |-> h.syms, per |-> 0]
  <2>1. ~q.fmt.fft /\ BurstConfigure(q) = burst_fe_calculate(ExfeFe, r)
    BY <1>2, <1>3, <1>5, <1>7 DEF exfe_rx4_configure
  <2>2. BurstAsk(r) /\ r.per = 0 /\ r.bits = q.fmt.bits /\ r.syms = h.syms /\ r.raw = n * x
    BY <1>1, <1>5, <1>6 DEF BurstAsk
  <2> HIDE DEF r
  <2>3. /\ ExfeFe.fifo = BurstFifo /\ ExfeFe.max = BurstMax /\ ExfeFe.lane = 16
        /\ ExfeFe.samples = BurstFifo /\ ExfeFe.mod = 1
    BY DEF ExfeFe
  <2>4. BurstFifo \div 1 = BurstFifo
    BY BurstAssumption
  <2>5. BurstLanesOf(q) = n * x /\ BurstLaneOf(q) = 16
    BY <2>1, <1>6, <1>7 DEF BurstLanesOf, BurstLaneOf
  <2>6. BurstAsksFor(q, ExfeFe, r)
    BY <2>1, <2>2, <2>3, <2>4, <2>5, <1>5, FrontEndsOK DEF BurstAsksFor
  <2> QED
    BY <2>6
<1>8. CASE q.core = "sfe"
  <2> DEFINE lanes == sfe_rx4_lanes(q.fmt.cplx, h.map)
             r == [raw |-> IF q.fmt.fft THEN 1 ELSE lanes, bits |-> q.fmt.bits, syms |-> h.syms, per |-> 0]
             mod == IF q.fmt.fft THEN BurstFft ELSE 1
             c == SfeFe(mod)
  <2>1. BurstConfigure(q) = sfe_rx4_configure(h)
    BY <1>3, <1>8
  <2>2. BurstConfigure(q) = burst_fe_calculate(c, r) /\ (~q.fmt.fft => lanes # 0)
    BY <1>2, <1>5, <2>1 DEF sfe_rx4_configure
  <2>3. ~q.fmt.fft => lanes = n * x
    BY <2>2, <1>1, <1>5, LanesOK
  <2>4. mod \in Nat \ {0}
    BY BurstAssumption
  <2>5. BurstLanesOf(q) = (IF q.fmt.fft THEN 1 ELSE lanes) /\ BurstLaneOf(q) = 8
    BY <2>3, <1>6, <1>8 DEF BurstLanesOf, BurstLaneOf
  <2>6. r.per = 0 /\ r.bits = q.fmt.bits /\ r.syms = h.syms /\ r.raw = BurstLanesOf(q)
    BY <2>5
  <2>7. BurstLanesOf(q) \in Nat
    <3>1. CASE q.fmt.fft
      BY <2>5, <3>1
    <3>2. CASE ~q.fmt.fft
      <4>1. BurstLanesOf(q) = n * x
        BY <2>3, <2>5, <3>2
      <4> QED
        BY <4>1, <1>6
    <3> QED
      BY <3>1, <3>2
  <2>8. BurstAsk(r)
    BY <2>6, <2>7, <1>1, <1>5 DEF BurstAsk
  <2>9. /\ c.fifo = BurstFifo /\ c.max = BurstMax /\ c.lane = 8
        /\ c.samples = BurstFifo \div 8 /\ c.mod = mod
    BY DEF SfeFe
  <2>10. BurstFe(c)
    BY <2>4, FrontEndsOK
  <2> HIDE DEF r, c
  <2>11. BurstAsksFor(q, c, r)
    BY <2>2, <2>5, <2>6, <2>8, <2>9, <2>10, <1>5 DEF BurstAsksFor
  <2> QED
    BY <2>11
<1> QED
  BY <1>1, <1>7, <1>8

\* The sides of the conditions BurstSplit compares: products in another
\* order.
LEMMA BurstProducts ==
    ASSUME NEW count \in Nat, NEW w \in Nat, NEW lane \in Nat, NEW syms \in Nat, NEW m \in Nat,
           NEW k \in Nat, NEW bits \in Nat
    PROVE  /\ count * (w * lane) = lane * (count * w)
           /\ count * (w * lane) * 8 = 8 * lane * (count * w)
           /\ (k * m) * bits * syms = (syms * m) * k * bits
OBVIOUS

\* The two parts of BurstSplit, of a request and its answer.
BurstWholeOf(q, a) ==
    /\ a.count * a.samples * BurstHalves(q) = q.syms
    /\ ~q.fmt.fft =>
           a.count * a.bytes * 8 >= q.syms * (Len(q.map) * IF q.fmt.cplx THEN 2 ELSE 1) * q.fmt.bits
    /\ a.count \in 1..BurstMax

BurstFewestOf(q, a) ==
    LET lane == BurstLaneOf(q)
        words == (a.count * a.bytes) \div lane
        syms == a.count * a.samples
        need == CeilDiv(syms * q.fmt.bits * BurstLanesOf(q), 8 * lane)
    IN  words = need =>
            /\ a.cap >= 2 /\ a.cap * a.bytes <= BurstFifo
            /\ \A b \in 1..(a.count - 1) :
                  \/ words % b # 0 \/ syms % b # 0
                  \/ 2 * (words \div b) * lane > BurstFifo
                  \/ syms \div b > BurstFifo \div (IF lane = 8 THEN 8 ELSE 1)
                  \/ q.fmt.fft /\ (syms \div b) % BurstFft # 0

\* The answer to every request.
LEMMA ConfigureCuts ==
    ASSUME NEW q \in BurstReqs, q.per = 0, BurstConfigure(q).ok
    PROVE  BurstWholeOf(q, BurstConfigure(q)) /\ BurstFewestOf(q, BurstConfigure(q))
<1> DEFINE a == BurstConfigure(q)
           k == Len(q.map) * IF q.fmt.cplx THEN 2 ELSE 1
           m == BurstHalves(q)
<1>1. PICK c, r : BurstAsksFor(q, c, r)
  BY ConfigureAsks
<1>2. /\ BurstFe(c) /\ BurstAsk(r) /\ r.per = 0 /\ a = burst_fe_calculate(c, r)
      /\ c.fifo = BurstFifo /\ c.max = BurstMax /\ c.lane = BurstLaneOf(q)
      /\ c.samples = BurstFifo \div (IF BurstLaneOf(q) = 8 THEN 8 ELSE 1)
      /\ c.mod = IF q.fmt.fft THEN BurstFft ELSE 1
      /\ r.bits = q.fmt.bits /\ r.syms * m = q.syms /\ r.raw = BurstLanesOf(q)
  BY <1>1 DEF BurstAsksFor
<1>3. BurstCutOK(c, r, a)
  BY <1>2, BurstCut
<1> DEFINE W == BurstWords(c, r)
<1>4. PICK w \in Nat : BurstFits(c, r, a, w)
  BY <1>3 DEF BurstCutOK
<1>5. a.count \in 1..c.max /\ a.samples \in Nat /\ a.count * a.samples = r.syms
  BY <1>3 DEF BurstCutOK
<1>6. /\ a.bytes = w * c.lane /\ a.count * w >= W
      /\ a.count * w = W =>
              /\ a.cap \in Nat /\ a.cap >= 2 /\ a.cap * a.bytes <= c.fifo
              /\ \A b \in 1..(a.count - 1) :
                    \/ W % b # 0 \/ r.syms % b # 0
                    \/ 2 * ((W \div b) * c.lane) > c.fifo
                    \/ r.syms \div b > c.samples
                    \/ (r.syms \div b) % c.mod # 0
  BY <1>4 DEF BurstFits
<1>7. W \in Nat /\ 8 * c.lane * W >= r.raw * r.bits * r.syms
  BY <1>2, WordsCover
<1>8. /\ a.count \in Nat /\ a.count # 0 /\ c.lane \in {8, 16} /\ c.lane \in Nat \ {0} /\ m \in Nat
      /\ r.syms \in Nat /\ r.bits \in Nat /\ r.raw \in Nat
  BY <1>2, <1>5 DEF BurstFe, BurstAsk, BurstLaneOf, BurstHalves
<1>9. k \in Nat
  <2>1. q.map \in Seq(Nat)
    BY BurstAssumption DEF BurstReqs
  <2>2. Len(q.map) \in Nat
    BY <2>1
  <2> DEFINE l == Len(q.map)
  <2> HIDE DEF l
  <2>3. l * 2 \in Nat /\ l * 1 \in Nat
    BY <2>2 DEF l
  <2> QED
    BY <2>3 DEF l
<1> HIDE DEF a, k, m, W
<1>10. a.count * w \in Nat
  BY <1>8
<1>11. BurstWholeOf(q, a)
  <2>1. ASSUME ~q.fmt.fft PROVE a.count * a.bytes * 8 >= q.syms * k * q.fmt.bits
    <3>1. r.raw = k * m
      BY <1>2, <2>1 DEF BurstLanesOf, k, m
    <3>2. 8 * c.lane \in Nat
      BY <1>8
    <3>3. 8 * c.lane * W <= 8 * c.lane * (a.count * w) /\ 8 * c.lane * W \in Nat /\ 8 * c.lane * (a.count * w) \in Nat
      BY <3>2, <1>6, <1>7, <1>10, TimesGrows
    <3>4. a.count * (w * c.lane) * 8 = 8 * c.lane * (a.count * w)
      BY <1>8, <1>9, BurstProducts
    <3>5. (k * m) * r.bits * r.syms = (r.syms * m) * k * r.bits
      BY <1>8, <1>9, BurstProducts
    <3>6. (k * m) * r.bits * r.syms \in Nat
      BY <1>8, <3>1
    <3>7. 8 * c.lane * W >= (r.syms * m) * k * r.bits
      BY <1>7, <3>1, <3>5
    <3>8. a.count * a.bytes * 8 >= (r.syms * m) * k * r.bits
      <4>1. a.count * a.bytes * 8 = 8 * c.lane * (a.count * w)
        BY <3>4, <1>6
      <4> QED
        BY <4>1, <3>3, <3>5, <3>6, <3>7
    <3> QED
      BY <3>8, <1>2
  <2>2. a.count * a.samples * m = q.syms /\ a.count \in 1..BurstMax
    BY <1>2, <1>5
  <2> QED
    BY <2>1, <2>2 DEF BurstWholeOf, k, m
<1>12. BurstFewestOf(q, a)
  <2> DEFINE words == (a.count * a.bytes) \div c.lane
             syms == a.count * a.samples
             need == CeilDiv(syms * q.fmt.bits * BurstLanesOf(q), 8 * c.lane)
  <2>1. words = a.count * w
    <3>1. a.count * a.bytes = c.lane * (a.count * w)
      BY <1>6, <1>8, <1>9, BurstProducts
    <3>2. (c.lane * (a.count * w)) \div c.lane = a.count * w
      BY <1>8, <1>10, ExactQuotient
    <3> QED
      BY <3>1, <3>2
  <2>2. need = W
    <3>1. r.syms * r.bits * r.raw = r.raw * r.bits * r.syms
      BY <1>8
    <3> QED
      BY <3>1, <1>2, <1>5 DEF W, BurstWords
  <2> SUFFICES ASSUME words = need
               PROVE  /\ a.cap >= 2 /\ a.cap * a.bytes <= BurstFifo
                      /\ \A b \in 1..(a.count - 1) :
                            \/ words % b # 0 \/ syms % b # 0
                            \/ 2 * (words \div b) * c.lane > BurstFifo
                            \/ syms \div b > BurstFifo \div (IF c.lane = 8 THEN 8 ELSE 1)
                            \/ q.fmt.fft /\ (syms \div b) % BurstFft # 0
    BY <1>2 DEF BurstFewestOf
  <2>3. a.count * w = W /\ words = W /\ syms = r.syms
    BY <2>1, <2>2, <1>5
  <2>4. a.cap >= 2 /\ a.cap * a.bytes <= BurstFifo
    BY <2>3, <1>2, <1>6
  <2>5. ASSUME NEW b \in 1..(a.count - 1)
        PROVE  \/ words % b # 0 \/ syms % b # 0
               \/ 2 * (words \div b) * c.lane > BurstFifo
               \/ syms \div b > BurstFifo \div (IF c.lane = 8 THEN 8 ELSE 1)
               \/ q.fmt.fft /\ (syms \div b) % BurstFft # 0
    <3>1. \/ W % b # 0 \/ r.syms % b # 0
          \/ 2 * ((W \div b) * c.lane) > c.fifo
          \/ r.syms \div b > c.samples
          \/ (r.syms \div b) % c.mod # 0
      BY <2>3, <1>6
    <3>2. b \in Nat \ {0}
      BY <1>8
    <3>3. W \div b \in Nat /\ r.syms \div b \in Nat
      BY <3>2, <1>7, <1>8, DivMod
    <3>4. 2 * ((W \div b) * c.lane) = 2 * (W \div b) * c.lane
      <4> DEFINE v == W \div b
      <4> HIDE DEF v
      <4>1. 2 * (v * c.lane) = 2 * v * c.lane
        BY <3>3, <1>8 DEF v
      <4> QED
        BY <4>1 DEF v
    <3>5. ~q.fmt.fft => (r.syms \div b) % c.mod = 0
      BY <3>3, <1>2
    <3> HIDE DEF words, syms
    <3> QED
      BY <3>1, <3>4, <3>5, <2>3, <1>2
  <2> QED
    BY <2>4, <2>5
<1> QED
  BY <1>11, <1>12 DEF a

\* A request and, once it is made, its answer.
BurstStateOK(s) ==
    \E q \in BurstReqs, d \in BOOLEAN :
        \/ s = [req |-> q, ans |-> BurstRefused, done |-> d]
        \/ s = [req |-> q, ans |-> BurstConfigure(q), done |-> d]

BurstInv == BurstStateOK(burst)

\* sfe_rx4_configure and exfe_rx4_configure under initialize_stream_rx_32:
\* whatever the FIFO, the limits, the format, the channels and the size of
\* the packet, the bursts of an accepted packet hold all of its samples on
\* all of its lanes, and a packet cut without a stub is cut into as few
\* bursts as the limits allow, which fit the FIFO as often as told.
THEOREM BurstsHoldPacket == BurstSpec => []BurstSplit
<1>1. BurstInit => BurstInv
  BY DEF BurstInit, BurstInv, BurstStateOK
<1>2. BurstInv /\ [BurstNext]_burst => BurstInv'
  <2> SUFFICES ASSUME BurstInv, [BurstNext]_burst PROVE BurstStateOK(burst')
    BY DEF BurstInv
  <2>1. CASE BurstNext
    <3>1. PICK q \in BurstReqs, d \in BOOLEAN :
              \/ burst = [req |-> q, ans |-> BurstRefused, done |-> d]
              \/ burst = [req |-> q, ans |-> BurstConfigure(q), done |-> d]
      BY DEF BurstInv, BurstStateOK
    <3> DEFINE x == burst.ans
    <3>2. burst = [req |-> q, ans |-> x, done |-> d] /\ burst.req = q
      BY <3>1
    <3>3. burst' = [burst EXCEPT !.ans = BurstConfigure(q), !.done = TRUE]
      BY <2>1, <3>2 DEF BurstNext
    <3> HIDE DEF x
    <3>4. burst' = [req |-> q, ans |-> BurstConfigure(q), done |-> TRUE]
      BY <3>2, <3>3
    <3> QED
      BY <3>4 DEF BurstStateOK
  <2>2. CASE UNCHANGED burst
    BY <2>2 DEF BurstInv
  <2> QED
    BY <2>1, <2>2
<1>3. BurstInv => BurstSplit
  <2> SUFFICES ASSUME BurstInv, burst.ans.ok, burst.req.per = 0
               PROVE  BurstSplit
    BY DEF BurstSplit, BurstWhole, BurstFewest
  <2>1. PICK q \in BurstReqs, d \in BOOLEAN :
            \/ burst = [req |-> q, ans |-> BurstRefused, done |-> d]
            \/ burst = [req |-> q, ans |-> BurstConfigure(q), done |-> d]
    BY DEF BurstInv, BurstStateOK
  <2>2. burst.req = q /\ burst.ans = BurstConfigure(q)
    BY <2>1 DEF BurstRefused
  <2>3. BurstWholeOf(burst.req, burst.ans) /\ BurstFewestOf(burst.req, burst.ans)
    BY <2>2, ConfigureCuts
  <2>4. BurstWhole
    BY <2>3 DEF BurstWholeOf, BurstWhole, BurstHalves, BurstComponents
  <2>5. BurstFewest
    BY <2>3 DEF BurstFewestOf, BurstFewest, BurstHalves, BurstComponents, BurstLane, BurstLaneOf, BurstLanesOf
  <2> QED
    BY <2>4, <2>5 DEF BurstSplit
<1> QED
  BY <1>1, <1>2, <1>3, PTL DEF BurstSpec

(***************************************************************************)
(* Plugins                                                                 *)
(***************************************************************************)
PlugKinds == {"ft", "usb", "pci"}

(* What the creation of a device takes, and what may be left of others.    *)
PlugAll(t) == IF t = "pci" THEN {"fd", "mem", "map", "pdev"} ELSE {"mem", "ctx", "dh", "thread", "pdev"}
PlugBase(t) == IF t = "pci" THEN {"pdev"} ELSE {"ctx"}

PlugRecord(s) ==
    /\ s = [faults |-> s.faults, calls |-> s.calls, dev |-> s.dev, flt |-> s.flt, held |-> s.held,
            served |-> s.served, refused |-> s.refused]
    /\ s.held = [k \in PlugKinds |-> s.held[k]]
    /\ s.faults \in Nat /\ s.faults <= PlugFaults

(* Something went wrong before.                                            *)
PlugBroken(s) == s.faults < PlugFaults \/ s.refused

(* The device of the caller is the one of transport k.                     *)
PlugMine(s, k) == s.dev # PlugNone /\ s.dev.t = k

(* A transport holds no more than its device needs; over USB that is known *)
(* as long as nothing went wrong.                                          *)
PlugHeldOK(s, k) ==
    k = "pci" \/ ~PlugBroken(s) =>
        s.held[k] \subseteq PlugBase(k) \cup (IF PlugMine(s, k) THEN PlugAll(k) \cup PlugStreams ELSE {})

(* A device of the caller is one asked for and works.                      *)
PlugDevOK(s) ==
    /\ s.dev \in PlugPresent
    /\ PlugAsked(s.flt, s.dev) /\ PlugAlive(s, s.dev.t)
    /\ ~PlugBroken(s) /\ s.dev.t = "pci" => ~\E d \in PlugPresent : d.known /\ d.t # "pci" /\ PlugAsked(s.flt, d)

PlugStateOK(s) ==
    /\ PlugRecord(s) /\ s.served = TRUE
    /\ \A k \in PlugKinds : PlugHeldOK(s, k)
    /\ s.dev # PlugNone => PlugDevOK(s)

PlugInv == PlugStateOK(plug)
-----------------------------------------------------------------------------
(* u is s with H held by transport t.                                      *)
PlugWith(s, u, t, H) ==
    /\ PlugRecord(u) /\ u.faults = s.faults /\ u.dev = s.dev /\ u.flt = s.flt
    /\ u.served = s.served /\ u.refused = s.refused
    /\ u.held[t] = H /\ \A k \in PlugKinds \ {t} : u.held[k] = s.held[k]

(* u comes from s in a creation over transport t.                          *)
PlugFrom(s, u, t) ==
    /\ PlugRecord(u) /\ u.faults <= s.faults /\ u.dev = s.dev /\ u.flt = s.flt
    /\ u.served = s.served /\ (s.refused => u.refused)
    /\ \A k \in PlugKinds \ {t} : u.held[k] = s.held[k]

(* An outcome of a step of a creation that takes at least B if it does not *)
(* fail, which it does for a reason only.                                  *)
PlugStep(s, x, t, B) ==
    /\ PlugFrom(s, x.s, t) /\ x.s.held[t] \subseteq s.held[t] \cup PlugAll(t)
    /\ \/ x.ok = TRUE /\ s.held[t] \cup B \subseteq x.s.held[t]
       \/ x.ok = FALSE /\ PlugBroken(x.s)

LEMMA PlugTakeOK ==
    ASSUME NEW s, PlugRecord(s), NEW t \in PlugKinds, NEW R
    PROVE  /\ PlugWith(s, PlugTake(s, t, R), t, s.held[t] \cup R)
           /\ PlugWith(s, PlugDrop(s, t, R), t, s.held[t] \ R)
           /\ PlugWith(s, s, t, s.held[t] \cup {})
<1>1. ASSUME NEW u, NEW H, u = [s EXCEPT !.held[t] = H]
      PROVE  PlugWith(s, u, t, H)
  <2>1. u = [s EXCEPT !.held = [s.held EXCEPT ![t] = H]]
    BY <1>1
  <2>2. /\ u = [faults |-> u.faults, calls |-> u.calls, dev |-> u.dev, flt |-> u.flt, held |-> u.held,
                served |-> u.served, refused |-> u.refused]
        /\ u.faults = s.faults /\ u.dev = s.dev /\ u.flt = s.flt
        /\ u.served = s.served /\ u.refused = s.refused /\ u.held = [s.held EXCEPT ![t] = H]
    BY <2>1 DEF PlugRecord
  <2>3. /\ u.held = [k \in PlugKinds |-> u.held[k]] /\ u.held[t] = H
        /\ \A k \in PlugKinds \ {t} : u.held[k] = s.held[k]
    BY <2>2 DEF PlugRecord
  <2> QED
    BY <2>2, <2>3 DEF PlugWith, PlugRecord
<1>2. PlugWith(s, PlugTake(s, t, R), t, s.held[t] \cup R)
  <2> DEFINE u == PlugTake(s, t, R)
  <2>1. u = [s EXCEPT !.held[t] = s.held[t] \cup R]
    BY DEF PlugTake
  <2> HIDE DEF u
  <2> QED
    BY <2>1, <1>1 DEF u
<1>3. PlugWith(s, PlugDrop(s, t, R), t, s.held[t] \ R)
  <2> DEFINE u == PlugDrop(s, t, R)
  <2>1. u = [s EXCEPT !.held[t] = s.held[t] \ R]
    BY DEF PlugDrop
  <2> HIDE DEF u
  <2> QED
    BY <2>1, <1>1 DEF u
<1>4. PlugWith(s, s, t, s.held[t] \cup {})
  BY DEF PlugWith
<1> QED
  BY <1>2, <1>3, <1>4

LEMMA PlugTaken ==
    ASSUME NEW s, PlugRecord(s), NEW t \in PlugKinds, NEW R
    PROVE  PlugWith(s, PlugTake(s, t, R), t, s.held[t] \cup R)
BY PlugTakeOK

LEMMA PlugDropped ==
    ASSUME NEW s, PlugRecord(s), NEW t \in PlugKinds, NEW R, NEW u, u = PlugDrop(s, t, R)
    PROVE  PlugWith(s, u, t, s.held[t] \ R)
BY PlugTakeOK

\* An access of a creation.
LEMMA PlugIo ==
    ASSUME NEW s, PlugRecord(s), NEW t \in PlugKinds, NEW R, R \subseteq PlugAll(t),
           NEW u, PlugWith(s, u, t, s.held[t] \cup R), NEW x \in Io(s, u)
    PROVE  PlugStep(s, x, t, R)
<1> DEFINE f == [s EXCEPT !.faults = s.faults - 1]
<1>1. \/ x.ok = TRUE /\ x.s = u
      \/ x.ok = FALSE /\ x.s = f /\ s.faults # 0
  BY DEF Io, Ok, Faulty, Fail
<1>2. CASE x.ok = TRUE /\ x.s = u
  <2>1. s.faults \in Nat
    BY DEF PlugRecord
  <2>2. PlugFrom(s, u, t)
    BY <2>1 DEF PlugWith, PlugFrom
  <2>3. u.held[t] = s.held[t] \cup R
    BY DEF PlugWith
  <2> QED
    BY <1>2, <2>2, <2>3 DEF PlugStep
<1>3. CASE x.ok = FALSE /\ x.s = f /\ s.faults # 0
  <2>1. f = [s EXCEPT !.faults = s.faults - 1]
    OBVIOUS
  <2> HIDE DEF f
  <2>2. /\ f = [faults |-> f.faults, calls |-> f.calls, dev |-> f.dev, flt |-> f.flt, held |-> f.held,
                served |-> f.served, refused |-> f.refused]
        /\ f.faults = s.faults - 1 /\ f.dev = s.dev /\ f.flt = s.flt
        /\ f.served = s.served /\ f.refused = s.refused /\ f.held = s.held
    BY <2>1 DEF PlugRecord
  <2>3. f.faults \in Nat /\ f.faults <= s.faults /\ f.faults < PlugFaults /\ f.faults <= PlugFaults
    BY <1>3, <2>2, PlugAssumption DEF PlugRecord
  <2>4. PlugRecord(f)
    BY <2>2, <2>3 DEF PlugRecord
  <2>5. PlugFrom(s, f, t) /\ PlugBroken(f)
    BY <2>2, <2>3, <2>4 DEF PlugFrom, PlugBroken
  <2> QED
    BY <1>3, <2>2, <2>5 DEF PlugStep
<1> QED
  BY <1>1, <1>2, <1>3

LEMMA PlugIo0 ==
    ASSUME NEW s, PlugRecord(s), NEW t \in PlugKinds, NEW x \in Io(s, s)
    PROVE  PlugStep(s, x, t, {})
<1>1. PlugWith(s, s, t, s.held[t] \cup {})
  BY PlugTakeOK
<1> QED
  BY <1>1, PlugIo

LEMMA PlugIoTake ==
    ASSUME NEW s, PlugRecord(s), NEW t \in PlugKinds, NEW R, R \subseteq PlugAll(t),
           NEW x \in Io(s, PlugTake(s, t, R))
    PROVE  PlugStep(s, x, t, R)
BY PlugTakeOK, PlugIo

LEMMA PlugFromTrans ==
    ASSUME NEW s, NEW u, NEW v, NEW t \in PlugKinds, PlugRecord(s), PlugFrom(s, u, t), PlugFrom(u, v, t)
    PROVE  PlugFrom(s, v, t)
BY DEF PlugFrom, PlugRecord

\* One step after the other: the second is not made if the first failed.
LEMMA PlugThen ==
    ASSUME NEW s, PlugRecord(s), NEW t \in PlugKinds, NEW B, NEW D, NEW y, NEW x,
           PlugStep(s, y, t, B), IF y.ok THEN PlugStep(y.s, x, t, D) ELSE x = y
    PROVE  PlugStep(s, x, t, B \cup D)
<1>1. CASE y.ok = TRUE
  <2>1. PlugStep(y.s, x, t, D) /\ PlugFrom(s, y.s, t) /\ PlugFrom(y.s, x.s, t)
    BY <1>1 DEF PlugStep
  <2>2. PlugFrom(s, x.s, t)
    BY <2>1, PlugFromTrans
  <2>3. s.held[t] \cup B \subseteq y.s.held[t] /\ y.s.held[t] \subseteq s.held[t] \cup PlugAll(t)
    BY <1>1 DEF PlugStep
  <2> QED
    BY <2>1, <2>2, <2>3 DEF PlugStep
<1>2. CASE y.ok = FALSE
  BY <1>2 DEF PlugStep
<1> QED
  BY <1>1, <1>2 DEF PlugStep

\* After a step that did not fail the creation goes on in a state of the
\* transport.
LEMMA PlugStepRecord ==
    ASSUME NEW s, NEW y, NEW t, NEW B, PlugStep(s, y, t, B)
    PROVE  PlugRecord(y.s) /\ y.ok \in BOOLEAN
BY DEF PlugStep, PlugFrom
-----------------------------------------------------------------------------
\* The parts of a creation.
LEMMA PlugDeviceCreate ==
    ASSUME NEW s, PlugRecord(s), NEW d \in PlugPresent, NEW x \in usdr_device_create(s, d)
    PROVE  PlugStep(s, x, d.t, {"pdev"})
<1>0. d.t \in PlugKinds /\ {"pdev"} \subseteq PlugAll(d.t)
  BY PlugAssumption DEF PlugKinds, PlugAll
<1>1. CASE d.known
  BY <1>0, <1>1, PlugIoTake DEF usdr_device_create
<1>2. CASE ~d.known
  <2> DEFINE f == [s EXCEPT !.refused = TRUE]
  <2>1. x.ok = FALSE /\ x.s = f /\ f = [s EXCEPT !.refused = TRUE]
    BY <1>2 DEF usdr_device_create, Fail
  <2> HIDE DEF f
  <2>2. /\ f = [faults |-> f.faults, calls |-> f.calls, dev |-> f.dev, flt |-> f.flt, held |-> f.held,
                served |-> f.served, refused |-> f.refused]
        /\ f.faults = s.faults /\ f.dev = s.dev /\ f.flt = s.flt
        /\ f.served = s.served /\ f.held = s.held
    BY <2>1 DEF PlugRecord
  <2>3. f.refused = TRUE
    BY <2>1 DEF PlugRecord
  <2>4. s.faults \in Nat /\ s.faults <= PlugFaults
    BY DEF PlugRecord
  <2>5. PlugRecord(f)
    BY <2>2, <2>4 DEF PlugRecord
  <2>6. PlugFrom(s, f, d.t) /\ PlugBroken(f)
    BY <2>2, <2>3, <2>4, <2>5 DEF PlugFrom, PlugBroken
  <2> QED
    BY <2>1, <2>2, <2>6 DEF PlugStep
<1> QED
  BY <1>1, <1>2

LEMMA PlugInitializeOK ==
    ASSUME NEW s, PlugRecord(s), NEW t \in PlugKinds, NEW x \in PlugInitialize(s)
    PROVE  PlugStep(s, x, t, {})
<1>1. PICK y \in Io(s, s) : x \in IF y.ok THEN Io(y.s, y.s) ELSE {y}
  BY DEF PlugInitialize, Then
<1>2. PlugStep(s, y, t, {}) /\ PlugRecord(y.s)
  BY PlugIo0, PlugStepRecord
<1>3. IF y.ok THEN PlugStep(y.s, x, t, {}) ELSE x = y
  BY <1>1, <1>2, PlugIo0
<1>4. PlugStep(s, x, t, {} \cup {})
  BY <1>2, <1>3, PlugThen
<1> QED
  BY <1>4

LEMMA PlugAsyncStart ==
    ASSUME NEW s, PlugRecord(s), NEW t \in {"usb", "ft"}, NEW x \in usb_async_start(s, t)
    PROVE  PlugStep(s, x, t, {"thread"})
<1>0. t \in PlugKinds /\ {"thread"} \subseteq PlugAll(t)
  BY DEF PlugKinds, PlugAll
<1>1. PICK y \in Io(s, s) : x \in IF y.ok THEN Io(y.s, PlugTake(y.s, t, {"thread"})) ELSE {y}
  BY DEF usb_async_start, Then
<1>2. PlugStep(s, y, t, {}) /\ PlugRecord(y.s)
  BY <1>0, PlugIo0, PlugStepRecord
<1>3. IF y.ok THEN PlugStep(y.s, x, t, {"thread"}) ELSE x = y
  BY <1>0, <1>1, <1>2, PlugIoTake
<1>4. PlugStep(s, x, t, {} \cup {"thread"})
  BY <1>0, <1>2, <1>3, PlugThen
<1> QED
  BY <1>4

LEMMA PlugBoardOK ==
    ASSUME NEW s, PlugRecord(s), NEW d \in PlugPresent, NEW x \in PlugBoard(s, d)
    PROVE  PlugStep(s, x, d.t, {})
<1>0. d.t \in PlugKinds
  BY PlugAssumption DEF PlugKinds
<1>1. PICK y \in usdr_device_create(s, d) :
          x \in IF y.ok THEN Then(device_bus_init(y.s), LAMBDA v : PlugInitialize(v)) ELSE {y}
  BY DEF PlugBoard, Then
<1>2. PlugStep(s, y, d.t, {"pdev"}) /\ PlugRecord(y.s)
  BY PlugDeviceCreate, PlugStepRecord
<1>3. ASSUME y.ok PROVE PlugStep(y.s, x, d.t, {})
  <2>1. PICK z \in Io(y.s, y.s) : x \in IF z.ok THEN PlugInitialize(z.s) ELSE {z}
    BY <1>1, <1>3 DEF device_bus_init, Then
  <2>2. PlugStep(y.s, z, d.t, {}) /\ PlugRecord(z.s)
    BY <1>0, <1>2, PlugIo0, PlugStepRecord
  <2>3. IF z.ok THEN PlugStep(z.s, x, d.t, {}) ELSE x = z
    BY <1>0, <2>1, <2>2, PlugInitializeOK
  <2>4. PlugStep(y.s, x, d.t, {} \cup {})
    BY <1>0, <1>2, <2>2, <2>3, PlugThen
  <2> QED
    BY <2>4
<1>4. PlugStep(s, x, d.t, {"pdev"} \cup {})
  BY <1>0, <1>1, <1>2, <1>3, PlugThen
<1> QED
  BY <1>4 DEF PlugStep

LEMMA PlugFtRun ==
    ASSUME NEW s, PlugRecord(s), NEW d \in PlugPresent, d.t = "ft",
           NEW x \in usbft601_uram_generic_create_and_init(s, d)
    PROVE  PlugStep(s, x, "ft", {"thread"})
<1>0. "ft" \in PlugKinds
  BY DEF PlugKinds
<1>1. PICK y \in Io(s, s) :
          x \in IF y.ok THEN Then(PlugFtAsyncStart(y.s), LAMBDA v : Then(Io(v, v), LAMBDA w : PlugBoard(w, d))) ELSE {y}
  BY DEF usbft601_uram_generic_create_and_init, Then
<1>2. PlugStep(s, y, "ft", {}) /\ PlugRecord(y.s)
  BY <1>0, PlugIo0, PlugStepRecord
<1>3. ASSUME y.ok PROVE PlugStep(y.s, x, "ft", {"thread"})
  <2>1. PICK z \in usb_async_start(y.s, "ft") :
            x \in IF z.ok THEN Then(Io(z.s, z.s), LAMBDA w : PlugBoard(w, d)) ELSE {z}
    BY <1>1, <1>3 DEF PlugFtAsyncStart, Then
  <2>2. PlugStep(y.s, z, "ft", {"thread"}) /\ PlugRecord(z.s)
    BY <1>2, PlugAsyncStart, PlugStepRecord
  <2>3. ASSUME z.ok PROVE PlugStep(z.s, x, "ft", {})
    <3>1. PICK w \in Io(z.s, z.s) : x \in IF w.ok THEN PlugBoard(w.s, d) ELSE {w}
      BY <2>1, <2>3 DEF Then
    <3>2. PlugStep(z.s, w, "ft", {}) /\ PlugRecord(w.s)
      BY <1>0, <2>2, PlugIo0, PlugStepRecord
    <3>3. IF w.ok THEN PlugStep(w.s, x, "ft", {}) ELSE x = w
      BY <3>1, <3>2, PlugBoardOK
    <3>4. PlugStep(z.s, x, "ft", {} \cup {})
      BY <1>0, <2>2, <3>2, <3>3, PlugThen
    <3> QED
      BY <3>4
  <2>4. PlugStep(y.s, x, "ft", {"thread"} \cup {})
    BY <1>0, <1>2, <2>1, <2>2, <2>3, PlugThen
  <2> QED
    BY <2>4
<1>4. PlugStep(s, x, "ft", {} \cup {"thread"})
  BY <1>0, <1>1, <1>2, <1>3, PlugThen
<1> QED
  BY <1>4

LEMMA PlugRunOK ==
    ASSUME NEW s, PlugRecord(s), NEW d \in PlugPresent, d.t \in {"usb", "ft"}, NEW x \in PlugRun(s, d.t, d)
    PROVE  PlugStep(s, x, d.t, {"thread"})
<1>0. d.t \in PlugKinds
  BY DEF PlugKinds
<1>1. CASE d.t = "usb"
  <2>1. PICK y \in usb_async_start(s, d.t) : x \in IF y.ok THEN PlugBoard(y.s, d) ELSE {y}
    BY <1>1 DEF PlugRun, Then
  <2>2. PlugStep(s, y, d.t, {"thread"}) /\ PlugRecord(y.s)
    BY PlugAsyncStart, PlugStepRecord
  <2>3. IF y.ok THEN PlugStep(y.s, x, d.t, {}) ELSE x = y
    BY <2>1, <2>2, PlugBoardOK
  <2>4. PlugStep(s, x, d.t, {"thread"} \cup {})
    BY <1>0, <2>2, <2>3, PlugThen
  <2> QED
    BY <2>4
<1>2. CASE d.t = "ft"
  <2>1. PICK y \in Io(s, s) : x \in IF y.ok THEN usbft601_uram_generic_create_and_init(y.s, d) ELSE {y}
    BY <1>2 DEF PlugRun, Then
  <2>2. PlugStep(s, y, d.t, {}) /\ PlugRecord(y.s)
    BY <1>0, PlugIo0, PlugStepRecord
  <2>3. IF y.ok THEN PlugStep(y.s, x, d.t, {"thread"}) ELSE x = y
    BY <1>2, <2>1, <2>2, PlugFtRun
  <2>4. PlugStep(s, x, d.t, {} \cup {"thread"})
    BY <1>0, <2>2, <2>3, PlugThen
  <2> QED
    BY <2>4
<1> QED
  BY <1>1, <1>2
-----------------------------------------------------------------------------
\* An error path that gives something back.
LEMMA PlugUndone ==
    ASSUME NEW s, PlugRecord(s), NEW t \in PlugKinds, NEW B, NEW R, NEW z, PlugStep(s, z, t, B), z.ok = FALSE,
           NEW x, x.ok = FALSE, x.s = PlugDrop(z.s, t, R)
    PROVE  PlugStep(s, x, t, B)
<1>1. PlugRecord(z.s) /\ PlugFrom(s, z.s, t) /\ PlugBroken(z.s) /\ z.s.held[t] \subseteq s.held[t] \cup PlugAll(t)
  BY DEF PlugStep, PlugFrom
<1>2. PlugWith(z.s, x.s, t, z.s.held[t] \ R)
  BY <1>1, PlugTakeOK
<1>3. x.s.held[t] = z.s.held[t] \ R
  BY <1>2 DEF PlugWith
<1>4. PlugFrom(s, x.s, t) /\ PlugBroken(x.s)
  BY <1>1, <1>2 DEF PlugWith, PlugFrom, PlugBroken
<1> QED
  BY <1>1, <1>3, <1>4 DEF PlugStep

\* What the search for a device over USB comes to.
PlugFound(s, x, t, f, match) ==
    \/ PlugStep(s, x, t, {"dh"}) /\ usb_filtering_params_parse(f) /\ (x.ok = TRUE => match # {})
    \/ /\ x.ok = FALSE /\ PlugFrom(s, x.s, t) /\ x.s.held[t] \subseteq s.held[t]
       /\ ~usb_filtering_params_parse(f) \/ match = {}

LEMMA PlugFind ==
    ASSUME NEW s, PlugRecord(s), NEW t \in {"usb", "ft"}, NEW f, NEW match,
           NEW x \in libusb_generic_plugin_create(s, t, f, match)
    PROVE  PlugFound(s, x, t, f, match)
<1>0. t \in PlugKinds /\ {"ctx"} \subseteq PlugAll(t) /\ {"dh"} \subseteq PlugAll(t)
  BY DEF PlugKinds, PlugAll
<1>1. CASE ~usb_filtering_params_parse(f)
  <2>1. x \in Fail(s)
    BY <1>1 DEF libusb_generic_plugin_create
  <2>2. PlugFrom(s, s, t)
    BY DEF PlugFrom, PlugRecord
  <2> QED
    BY <1>1, <2>1, <2>2 DEF PlugFound, Fail
<1>2. CASE usb_filtering_params_parse(f)
  <2> DEFINE T(v) == Then(Io(v, PlugTake(v, t, {"dh"})), LAMBDA w : Io(w, w))
  <2>1. PICK y \in Io(s, PlugTake(s, t, {"ctx"})) :
            x \in IF y.ok THEN IF match = {} THEN Fail(PlugDrop(y.s, t, {"ctx"}))
                               ELSE Undo(T(y.s), LAMBDA v : Ok(PlugDrop(v, t, {"ctx"})))
                  ELSE {y}
    BY <1>2 DEF libusb_generic_plugin_create, Then
  <2>2. PlugStep(s, y, t, {"ctx"}) /\ PlugRecord(y.s)
    BY <1>0, PlugIoTake, PlugStepRecord
  <2>3. CASE ~y.ok
    <3>1. x = y /\ y.ok = FALSE
      BY <2>1, <2>2, <2>3 DEF PlugStep
    <3> QED
      BY <1>2, <2>2, <3>1 DEF PlugFound, PlugStep
  <2>4. CASE y.ok /\ match = {}
    <3>1. x.ok = FALSE /\ x.s = PlugDrop(y.s, t, {"ctx"})
      BY <2>1, <2>4 DEF Fail
    <3>2. PlugWith(y.s, x.s, t, y.s.held[t] \ {"ctx"})
      BY <1>0, <2>2, <3>1, PlugDropped
    <3>3. PlugFrom(s, x.s, t)
      BY <2>2, <3>2 DEF PlugStep, PlugFrom, PlugWith
    <3>4. y \in Ok(PlugTake(s, t, {"ctx"}))
      BY <2>4 DEF Io, Faulty, Fail
    <3>5. y.s.held[t] = s.held[t] \cup {"ctx"}
      BY <1>0, <3>4, PlugTakeOK DEF Ok, PlugWith
    <3>6. x.s.held[t] \subseteq s.held[t]
      BY <3>2, <3>5 DEF PlugWith
    <3> QED
      BY <2>4, <3>1, <3>3, <3>6 DEF PlugFound
  <2>5. CASE y.ok /\ match # {}
    <3>1. x \in Undo(T(y.s), LAMBDA v : Ok(PlugDrop(v, t, {"ctx"})))
      BY <2>1, <2>5
    <3>2. PICK z \in T(y.s) :
              x \in IF z.ok THEN {z} ELSE {[o EXCEPT !.ok = FALSE] : o \in Ok(PlugDrop(z.s, t, {"ctx"}))}
      <4> HIDE DEF T
      <4> QED
        BY <3>1 DEF Undo, OrElse
    <3>3. PlugStep(y.s, z, t, {"dh"})
      <4>1. PICK w \in Io(y.s, PlugTake(y.s, t, {"dh"})) : z \in IF w.ok THEN Io(w.s, w.s) ELSE {w}
        BY DEF Then
      <4>2. PlugStep(y.s, w, t, {"dh"}) /\ PlugRecord(w.s)
        BY <1>0, <2>2, PlugIoTake, PlugStepRecord
      <4>3. IF w.ok THEN PlugStep(w.s, z, t, {}) ELSE z = w
        BY <1>0, <4>1, <4>2, PlugIo0
      <4>4. PlugStep(y.s, z, t, {"dh"} \cup {})
        BY <1>0, <2>2, <4>2, <4>3, PlugThen
      <4> QED
        BY <4>4
    <3> HIDE DEF T
    <3>4. PlugStep(s, z, t, {"ctx"} \cup {"dh"})
      BY <1>0, <2>2, <2>5, <3>3, PlugThen
    <3>5. PlugStep(s, x, t, {"ctx"} \cup {"dh"})
      <4>1. CASE z.ok
        BY <3>2, <3>4, <4>1
      <4>2. CASE ~z.ok
        <5>1. z.ok = FALSE
          BY <3>4, <4>2 DEF PlugStep
        <5>2. x.ok = FALSE /\ x.s = PlugDrop(z.s, t, {"ctx"})
          BY <3>2, <4>2 DEF Ok
        <5> QED
          BY <1>0, <3>4, <5>1, <5>2, PlugUndone
      <4> QED
        BY <4>1, <4>2
    <3>6. PlugStep(s, x, t, {"dh"})
      BY <3>5 DEF PlugStep
    <3> QED
      BY <1>2, <2>5, <3>6 DEF PlugFound
  <2> QED
    BY <2>3, <2>4, <2>5
<1> QED
  BY <1>1, <1>2

(* What a plug-in of USB comes to: a device that is there and asked for,   *)
(* with its thread and handle; or none, with nothing taken unless          *)
(* something went wrong.                                                   *)
PlugUsbMade(s, x, t, f) ==
    \/ /\ x.ok = TRUE
       /\ \E d \in PlugSeen(t, f) : \E u :
             /\ x.s = [u EXCEPT !.dev = d] /\ PlugFrom(s, u, t) /\ usb_filtering_params_parse(f)
             /\ {"thread", "dh"} \subseteq u.held[t] /\ u.held[t] \subseteq s.held[t] \cup PlugAll(t)
    \/ /\ x.ok = FALSE /\ PlugFrom(s, x.s, t)
       /\ \/ PlugBroken(x.s)
          \/ x.s.held[t] \subseteq s.held[t] /\ (~usb_filtering_params_parse(f) \/ PlugSeen(t, f) = {})

LEMMA PlugMakeOK ==
    ASSUME NEW s, PlugRecord(s), NEW t \in {"usb", "ft"}, NEW f, NEW x \in PlugMake(s, t, f)
    PROVE  PlugUsbMade(s, x, t, f)
<1> DEFINE a == PlugTake(s, t, {"mem"})
           T(match) == Then(libusb_generic_plugin_create(a, t, f, match), LAMBDA u :
                     UNION {Then(PlugRun(u, t, d), LAMBDA v : Ok([v EXCEPT !.dev = d])) : d \in match})
<1>0. t \in PlugKinds /\ {"mem"} \subseteq PlugAll(t)
  BY DEF PlugKinds, PlugAll
<1>1. PICK match \in PlugMatches(t, f) : x \in Undo(T(match), LAMBDA u : Ok(PlugDrop(u, t, {"mem"})))
  BY DEF PlugMake
<1>2. PICK z \in T(match) :
          x \in IF z.ok THEN {z} ELSE {[o EXCEPT !.ok = FALSE] : o \in Ok(PlugDrop(z.s, t, {"mem"}))}
  <2> HIDE DEF T
  <2> QED
    BY <1>1 DEF Undo, OrElse
<1>3. match \subseteq PlugSeen(t, f) /\ (match = {} => PlugSeen(t, f) = {})
  BY DEF PlugMatches
<1>4. PlugWith(s, a, t, s.held[t] \cup {"mem"}) /\ PlugRecord(a)
  <2>1. PlugWith(s, a, t, s.held[t] \cup {"mem"})
    BY <1>0, PlugTaken
  <2> QED
    BY <2>1 DEF PlugWith
<1>5. PICK y \in libusb_generic_plugin_create(a, t, f, match) :
          z \in IF y.ok THEN UNION {Then(PlugRun(y.s, t, d), LAMBDA v : Ok([v EXCEPT !.dev = d])) : d \in match}
                ELSE {y}
  BY DEF Then
<1> HIDE DEF T, a
<1>6. PlugFound(a, y, t, f, match)
  BY <1>4, <1>5, PlugFind
<1>7. PlugFrom(s, a, t) /\ a.held[t] = s.held[t] \cup {"mem"}
  BY <1>4 DEF PlugWith, PlugFrom, PlugRecord
<1>8. ASSUME NEW w, w.ok = FALSE, PlugFrom(a, w.s, t), x.ok = FALSE, x.s = PlugDrop(w.s, t, {"mem"}),
             PlugBroken(w.s) \/ (w.s.held[t] \subseteq a.held[t] /\ (~usb_filtering_params_parse(f) \/ match = {}))
      PROVE  PlugUsbMade(s, x, t, f)
  <2>1. PlugWith(w.s, x.s, t, w.s.held[t] \ {"mem"})
    <3>1. PlugRecord(w.s)
      BY <1>8 DEF PlugFrom
    <3> QED
      BY <1>0, <1>8, <3>1, PlugDropped
  <2>2. PlugFrom(s, w.s, t)
    BY <1>0, <1>7, <1>8, PlugFromTrans
  <2>3. PlugFrom(s, x.s, t)
    BY <2>1, <2>2 DEF PlugFrom, PlugWith
  <2>4. PlugBroken(w.s) => PlugBroken(x.s)
    BY <2>1 DEF PlugBroken, PlugWith
  <2>5. w.s.held[t] \subseteq a.held[t] => x.s.held[t] \subseteq s.held[t]
    BY <1>7, <2>1 DEF PlugWith
  <2> QED
    BY <1>3, <1>8, <2>3, <2>4, <2>5 DEF PlugUsbMade
<1>9. CASE ~y.ok
  <2>1. z = y /\ y.ok = FALSE
    BY <1>5, <1>6, <1>9 DEF PlugFound, PlugStep
  <2>2. x.ok = FALSE /\ x.s = PlugDrop(y.s, t, {"mem"})
    BY <1>2, <2>1 DEF Ok
  <2>3. /\ PlugFrom(a, y.s, t)
        /\ PlugBroken(y.s) \/ (y.s.held[t] \subseteq a.held[t] /\ (~usb_filtering_params_parse(f) \/ match = {}))
    BY <1>6, <2>1 DEF PlugFound, PlugStep
  <2> QED
    BY <1>8, <2>1, <2>2, <2>3
<1>10. CASE y.ok
  <2>1. PICK d \in match : z \in Then(PlugRun(y.s, t, d), LAMBDA v : Ok([v EXCEPT !.dev = d]))
    BY <1>5, <1>10
  <2>2. PICK w \in PlugRun(y.s, t, d) : z \in IF w.ok THEN Ok([w.s EXCEPT !.dev = d]) ELSE {w}
    BY <2>1 DEF Then
  <2>3. PlugStep(a, y, t, {"dh"}) /\ usb_filtering_params_parse(f) /\ PlugRecord(y.s)
    BY <1>6, <1>10, PlugStepRecord DEF PlugFound
  <2>4. d \in PlugSeen(t, f) /\ d \in PlugPresent /\ d.t = t
    BY <1>3 DEF PlugSeen
  <2>5. PlugStep(y.s, w, t, {"thread"})
    BY <2>2, <2>3, <2>4, PlugRunOK
  <2>6. PlugStep(a, w, t, {"dh"} \cup {"thread"})
    BY <1>0, <1>4, <1>10, <2>3, <2>5, PlugThen
  <2>7. CASE ~w.ok
    <3>1. z = w /\ w.ok = FALSE
      BY <2>2, <2>6, <2>7 DEF PlugStep
    <3>2. x.ok = FALSE /\ x.s = PlugDrop(w.s, t, {"mem"})
      BY <1>2, <3>1 DEF Ok
    <3>3. PlugFrom(a, w.s, t) /\ PlugBroken(w.s)
      BY <2>6, <3>1 DEF PlugStep
    <3> QED
      BY <1>8, <3>1, <3>2, <3>3
  <2>8. CASE w.ok
    <3>1. z.ok = TRUE /\ z.s = [w.s EXCEPT !.dev = d]
      BY <2>2, <2>8 DEF Ok
    <3>2. x.ok = TRUE /\ x.s = [w.s EXCEPT !.dev = d]
      BY <1>2, <3>1
    <3>3. /\ PlugFrom(a, w.s, t) /\ {"thread", "dh"} \subseteq w.s.held[t]
          /\ w.s.held[t] \subseteq a.held[t] \cup PlugAll(t)
      BY <2>6, <2>8 DEF PlugStep
    <3>4. PlugFrom(s, w.s, t)
      BY <1>0, <1>7, <3>3, PlugFromTrans
    <3>5. w.s.held[t] \subseteq s.held[t] \cup PlugAll(t)
      BY <1>0, <1>7, <3>3
    <3> QED
      BY <2>3, <2>4, <3>2, <3>3, <3>4, <3>5 DEF PlugUsbMade
  <2> QED
    BY <2>7, <2>8
<1> QED
  BY <1>9, <1>10
-----------------------------------------------------------------------------
(* What the steps of the creation over PCIe come to.                       *)
PlugPcieOut(s, z, d, B) ==
    \/ PlugStep(s, z, "pci", B) /\ z.ok = FALSE
    \/ /\ z.ok = TRUE
       /\ \E w : PlugStep(s, w, "pci", B) /\ w.ok = TRUE /\ z.s = [w.s EXCEPT !.dev = d]

LEMMA PlugPcieThen ==
    ASSUME NEW s, PlugRecord(s), NEW d, NEW y, NEW z, NEW B, PlugStep(s, y, "pci", B),
           IF y.ok THEN PlugPcieOut(y.s, z, d, {}) ELSE z = y
    PROVE  PlugPcieOut(s, z, d, B)
<1>0. "pci" \in PlugKinds
  BY DEF PlugKinds
<1>1. CASE y.ok = TRUE
  <2>1. ASSUME NEW w, PlugStep(y.s, w, "pci", {}) PROVE PlugStep(s, w, "pci", B)
    <3>1. PlugStep(s, w, "pci", B \cup {})
      BY <1>0, <1>1, <2>1, PlugThen
    <3> QED
      BY <3>1
  <2>2. CASE PlugStep(y.s, z, "pci", {}) /\ z.ok = FALSE
    BY <2>1, <2>2 DEF PlugPcieOut
  <2>3. CASE z.ok = TRUE /\ \E w : PlugStep(y.s, w, "pci", {}) /\ w.ok = TRUE /\ z.s = [w.s EXCEPT !.dev = d]
    <3>1. PICK w : PlugStep(y.s, w, "pci", {}) /\ w.ok = TRUE /\ z.s = [w.s EXCEPT !.dev = d]
      BY <2>3
    <3>2. PlugStep(s, w, "pci", B)
      BY <2>1, <3>1
    <3> QED
      BY <2>3, <3>1, <3>2 DEF PlugPcieOut
  <2> QED
    BY <1>1, <2>2, <2>3 DEF PlugPcieOut
<1>2. CASE y.ok = FALSE
  BY <1>2 DEF PlugPcieOut
<1> QED
  BY <1>1, <1>2 DEF PlugStep

LEMMA PlugLayoutOK ==
    ASSUME NEW s, PlugRecord(s), NEW x \in PlugLayout(s)
    PROVE  PlugStep(s, x, "pci", {})
<1>0. "pci" \in PlugKinds /\ {"map"} \subseteq PlugAll("pci")
  BY DEF PlugKinds, PlugAll
<1>1. PICK y \in Io(s, s) : x \in IF y.ok THEN Ok(y.s) \cup Ok(PlugTake(y.s, "pci", {"map"})) ELSE {y}
  BY DEF PlugLayout, Then
<1>2. PlugStep(s, y, "pci", {}) /\ PlugRecord(y.s)
  BY <1>0, PlugIo0, PlugStepRecord
<1>3. ASSUME y.ok PROVE PlugStep(y.s, x, "pci", {})
  <2>1. CASE x \in Ok(y.s)
    <3>1. x \in Io(y.s, y.s)
      BY <2>1 DEF Io
    <3> QED
      BY <1>0, <1>2, <3>1, PlugIo0
  <2>2. CASE x \in Ok(PlugTake(y.s, "pci", {"map"}))
    <3>1. x \in Io(y.s, PlugTake(y.s, "pci", {"map"}))
      BY <2>2 DEF Io
    <3>2. PlugStep(y.s, x, "pci", {"map"})
      BY <1>0, <1>2, <3>1, PlugIoTake
    <3> QED
      BY <3>2 DEF PlugStep
  <2> QED
    BY <1>1, <1>3, <2>1, <2>2
<1>4. PlugStep(s, x, "pci", {} \cup {})
  BY <1>0, <1>1, <1>2, <1>3, PlugThen
<1> QED
  BY <1>4

(* What the plug-in of PCIe comes to: the board object is all a failed     *)
(* creation leaves.                                                        *)
PlugPcieMade(s, x, f) ==
    \/ /\ x.ok = TRUE
       /\ \E d \in PlugSeen("pci", f) : \E u :
             /\ x.s = [u EXCEPT !.dev = d] /\ PlugFrom(s, u, "pci") /\ pcie_filtering_params_parse(f)
             /\ "fd" \in u.held["pci"] /\ u.held["pci"] \subseteq s.held["pci"] \cup PlugAll("pci")
    \/ x.ok = FALSE /\ PlugFrom(s, x.s, "pci") /\ x.s.held["pci"] \subseteq s.held["pci"] \cup {"pdev"}

(* The steps before the error path.                                        *)
PlugPcieChain(s, d) ==
    Then(Io(s, PlugTake(s, "pci", {"fd", "mem"})), LAMBDA u :
    Then(Io(u, u), LAMBDA v :
    Then(usdr_device_create(v, d), LAMBDA w :
    Then(device_bus_init(w), LAMBDA x :
    Then(PlugLayout(x), LAMBDA y :
    Then(PlugInitialize(y), LAMBDA z : Ok([z EXCEPT !.dev = d])))))))

LEMMA PlugPcieRun ==
    ASSUME NEW s, PlugRecord(s), NEW d \in PlugPresent, d.t = "pci",
           NEW z \in PlugPcieChain(s, d)
    PROVE  PlugPcieOut(s, z, d, {"fd", "mem"})
<1>0. "pci" \in PlugKinds /\ {"fd", "mem"} \subseteq PlugAll("pci")
  BY DEF PlugKinds, PlugAll
<1>1. PICK a \in Io(s, PlugTake(s, "pci", {"fd", "mem"})) :
          z \in IF a.ok THEN Then(Io(a.s, a.s), LAMBDA v :
                             Then(usdr_device_create(v, d), LAMBDA w :
                             Then(device_bus_init(w), LAMBDA x :
                             Then(PlugLayout(x), LAMBDA y :
                             Then(PlugInitialize(y), LAMBDA e : Ok([e EXCEPT !.dev = d])))))) ELSE {a}
  BY DEF PlugPcieChain, Then
<1>2. PlugStep(s, a, "pci", {"fd", "mem"}) /\ PlugRecord(a.s)
  BY <1>0, PlugIoTake, PlugStepRecord
<1>3. ASSUME a.ok PROVE PlugPcieOut(a.s, z, d, {})
  <2>1. PICK b \in Io(a.s, a.s) :
            z \in IF b.ok THEN Then(usdr_device_create(b.s, d), LAMBDA w :
                               Then(device_bus_init(w), LAMBDA x :
                               Then(PlugLayout(x), LAMBDA y :
                               Then(PlugInitialize(y), LAMBDA e : Ok([e EXCEPT !.dev = d]))))) ELSE {b}
    BY <1>1, <1>3 DEF Then
  <2>2. PlugStep(a.s, b, "pci", {}) /\ PlugRecord(b.s)
    BY <1>0, <1>2, PlugIo0, PlugStepRecord
  <2>3. ASSUME b.ok PROVE PlugPcieOut(b.s, z, d, {})
    <3>1. PICK c \in usdr_device_create(b.s, d) :
              z \in IF c.ok THEN Then(device_bus_init(c.s), LAMBDA x :
                                 Then(PlugLayout(x), LAMBDA y :
                                 Then(PlugInitialize(y), LAMBDA e : Ok([e EXCEPT !.dev = d])))) ELSE {c}
      BY <2>1, <2>3 DEF Then
    <3>2. PlugStep(b.s, c, "pci", {}) /\ PlugRecord(c.s)
      <4>1. PlugStep(b.s, c, "pci", {"pdev"})
        BY <2>2, PlugDeviceCreate
      <4> QED
        BY <4>1, PlugStepRecord DEF PlugStep
    <3>3. ASSUME c.ok PROVE PlugPcieOut(c.s, z, d, {})
      <4>1. PICK g \in Io(c.s, c.s) :
                z \in IF g.ok THEN Then(PlugLayout(g.s), LAMBDA y :
                                   Then(PlugInitialize(y), LAMBDA e : Ok([e EXCEPT !.dev = d]))) ELSE {g}
        BY <3>1, <3>3 DEF Then, device_bus_init
      <4>2. PlugStep(c.s, g, "pci", {}) /\ PlugRecord(g.s)
        BY <1>0, <3>2, PlugIo0, PlugStepRecord
      <4>3. ASSUME g.ok PROVE PlugPcieOut(g.s, z, d, {})
        <5>1. PICK h \in PlugLayout(g.s) :
                  z \in IF h.ok THEN Then(PlugInitialize(h.s), LAMBDA e : Ok([e EXCEPT !.dev = d])) ELSE {h}
          BY <4>1, <4>3 DEF Then
        <5>2. PlugStep(g.s, h, "pci", {}) /\ PlugRecord(h.s)
          BY <4>2, PlugLayoutOK, PlugStepRecord
        <5>3. ASSUME h.ok PROVE PlugPcieOut(h.s, z, d, {})
          <6>1. PICK w \in PlugInitialize(h.s) : z \in IF w.ok THEN Ok([w.s EXCEPT !.dev = d]) ELSE {w}
            BY <5>1, <5>3 DEF Then
          <6>2. PlugStep(h.s, w, "pci", {})
            BY <1>0, <5>2, PlugInitializeOK
          <6>3. CASE w.ok = TRUE
            <7>1. z.ok = TRUE /\ z.s = [w.s EXCEPT !.dev = d]
              BY <6>1, <6>3 DEF Ok
            <7> QED
              BY <6>2, <6>3, <7>1 DEF PlugPcieOut
          <6>4. CASE w.ok = FALSE
            BY <6>1, <6>2, <6>4 DEF PlugPcieOut
          <6> QED
            BY <6>2, <6>3, <6>4 DEF PlugStep
        <5> QED
          BY <4>2, <5>1, <5>2, <5>3, PlugPcieThen
      <4> QED
        BY <3>2, <4>1, <4>2, <4>3, PlugPcieThen
    <3> QED
      BY <2>2, <3>1, <3>2, <3>3, PlugPcieThen
  <2> QED
    BY <1>2, <2>1, <2>2, <2>3, PlugPcieThen
<1> QED
  BY <1>1, <1>2, <1>3, PlugPcieThen

LEMMA PlugPcieMakeOK ==
    ASSUME NEW s, PlugRecord(s), NEW f, NEW x \in pcie_uram_plugin_create(s, f)
    PROVE  PlugPcieMade(s, x, f)
<1>0. "pci" \in PlugKinds
  BY DEF PlugKinds
<1>1. CASE ~pcie_filtering_params_parse(f) \/ PlugSeen("pci", f) = {}
  <2>1. x \in Fail(s)
    BY <1>1 DEF pcie_uram_plugin_create
  <2>2. PlugFrom(s, s, "pci")
    BY DEF PlugFrom, PlugRecord
  <2> QED
    BY <2>1, <2>2 DEF PlugPcieMade, Fail
<1>2. CASE pcie_filtering_params_parse(f) /\ PlugSeen("pci", f) # {}
  <2>1. PICK d \in PlugSeen("pci", f) : x \in Undo(PlugPcieChain(s, d), PlugPcieUndo)
    BY <1>2 DEF pcie_uram_plugin_create, PlugPcieChain
  <2>2. d \in PlugPresent /\ d.t = "pci"
    BY DEF PlugSeen
  <2>4. PICK z \in PlugPcieChain(s, d) : x \in IF z.ok THEN {z} ELSE {[o EXCEPT !.ok = FALSE] : o \in PlugPcieUndo(z.s)}
    BY <2>1 DEF Undo, OrElse
  <2>5. PlugPcieOut(s, z, d, {"fd", "mem"})
    BY <2>2, PlugPcieRun
  <2>6. CASE PlugStep(s, z, "pci", {"fd", "mem"}) /\ z.ok = FALSE
    <3>1. x.ok = FALSE /\ x.s = PlugDrop(z.s, "pci", {"map", "mem", "fd"})
      BY <2>4, <2>6 DEF PlugPcieUndo, Ok
    <3>2. PlugStep(s, x, "pci", {"fd", "mem"}) /\ x.s.held["pci"] = z.s.held["pci"] \ {"map", "mem", "fd"}
      <4> DEFINE B == {"fd", "mem"}
                 R == {"map", "mem", "fd"}
                 t == "pci"
      <4>1. PlugStep(s, z, t, B) /\ z.ok = FALSE /\ x.ok = FALSE /\ x.s = PlugDrop(z.s, t, R)
        BY <2>6, <3>1
      <4>2. t \in PlugKinds
        BY <1>0
      <4> HIDE DEF B, R, t
      <4>3. PlugStep(s, x, t, B)
        BY <4>1, <4>2, PlugUndone
      <4>4. PlugRecord(z.s)
        BY <4>1, PlugStepRecord
      <4>5. PlugWith(z.s, x.s, t, z.s.held[t] \ R)
        BY <4>1, <4>2, <4>4, PlugDropped
      <4> QED
        BY <4>3, <4>5 DEF B, R, t, PlugWith
    <3>3. z.s.held["pci"] \subseteq s.held["pci"] \cup {"fd", "mem", "map", "pdev"}
      BY <2>6 DEF PlugStep, PlugAll
    <3>4. x.s.held["pci"] \subseteq s.held["pci"] \cup {"pdev"}
      BY <3>2, <3>3
    <3> QED
      BY <3>1, <3>2, <3>4 DEF PlugPcieMade, PlugStep
  <2>7. CASE /\ z.ok = TRUE
             /\ \E w : PlugStep(s, w, "pci", {"fd", "mem"}) /\ w.ok = TRUE /\ z.s = [w.s EXCEPT !.dev = d]
    <3>1. PICK w : PlugStep(s, w, "pci", {"fd", "mem"}) /\ w.ok = TRUE /\ z.s = [w.s EXCEPT !.dev = d]
      BY <2>7
    <3>2. x = z
      BY <2>4, <2>7
    <3>3. /\ PlugFrom(s, w.s, "pci") /\ "fd" \in w.s.held["pci"]
          /\ w.s.held["pci"] \subseteq s.held["pci"] \cup PlugAll("pci")
      BY <3>1 DEF PlugStep
    <3> QED
      BY <1>2, <2>7, <3>1, <3>2, <3>3 DEF PlugPcieMade
  <2> QED
    BY <2>5, <2>6, <2>7 DEF PlugPcieOut
<1> QED
  BY <1>1, <1>2
-----------------------------------------------------------------------------
LEMMA PlugDeviceFacts ==
    ASSUME NEW d \in PlugPresent
    PROVE  d.t \in PlugKinds /\ d # PlugNone
BY PlugAssumption DEF PlugKinds, PlugNone

(* A change of the device, and of what is not looked at.                   *)
LEMMA PlugDevSet ==
    ASSUME NEW u, PlugRecord(u), NEW d, NEW x, x = [u EXCEPT !.dev = d]
    PROVE  /\ PlugRecord(x) /\ x.faults = u.faults /\ x.dev = d /\ x.flt = u.flt
           /\ x.served = u.served /\ x.refused = u.refused /\ x.held = u.held
<1>1. /\ x = [faults |-> x.faults, calls |-> x.calls, dev |-> x.dev, flt |-> x.flt, held |-> x.held,
              served |-> x.served, refused |-> x.refused]
      /\ x.faults = u.faults /\ x.dev = d /\ x.flt = u.flt
      /\ x.served = u.served /\ x.refused = u.refused /\ x.held = u.held
  BY DEF PlugRecord
<1> QED
  BY <1>1 DEF PlugRecord

LEMMA PlugSameOK ==
    ASSUME NEW s, PlugStateOK(s), NEW x, PlugRecord(x), x.faults <= s.faults, x.dev = s.dev, x.flt = s.flt,
           x.served = s.served, x.refused = s.refused, x.held = s.held
    PROVE  PlugStateOK(x)
<1>0. s.faults \in Nat /\ x.faults \in Nat
  BY DEF PlugStateOK, PlugRecord
<1>1. PlugBroken(s) => PlugBroken(x)
  BY <1>0, PlugAssumption DEF PlugBroken
<1>2. \A k \in PlugKinds : PlugHeldOK(x, k)
  BY <1>1 DEF PlugStateOK, PlugHeldOK, PlugMine
<1>3. x.dev # PlugNone => PlugDevOK(x)
  BY <1>1 DEF PlugStateOK, PlugDevOK, PlugAlive
<1> QED
  BY <1>2, <1>3 DEF PlugStateOK

LEMMA PlugCalled ==
    ASSUME NEW s, PlugStateOK(s)
    PROVE  PlugStateOK([s EXCEPT !.calls = s.calls - 1])
<1> DEFINE x == [s EXCEPT !.calls = s.calls - 1]
<1>1. x = [s EXCEPT !.calls = s.calls - 1] /\ PlugRecord(s)
  BY DEF PlugStateOK
<1> HIDE DEF x
<1>2. /\ x = [faults |-> x.faults, calls |-> x.calls, dev |-> x.dev, flt |-> x.flt, held |-> x.held,
              served |-> x.served, refused |-> x.refused]
      /\ x.faults = s.faults /\ x.dev = s.dev /\ x.flt = s.flt
      /\ x.served = s.served /\ x.refused = s.refused /\ x.held = s.held
  BY <1>1 DEF PlugRecord
<1>3. PlugRecord(x) /\ x.faults <= s.faults
  BY <1>1, <1>2 DEF PlugRecord
<1>4. PlugStateOK(x)
  BY <1>2, <1>3, PlugSameOK
<1> QED
  BY <1>4 DEF x

(* No device, and nothing held that should not be.                         *)
PlugClosed(s) == PlugStateOK(s) /\ s.dev = PlugNone

(* Why no device of transport t was made.                                  *)
PlugMissed(s, t, f) == PlugBroken(s) \/ ~usb_filtering_params_parse(f) \/ PlugSeen(t, f) = {}

LEMMA PlugBrokenStays ==
    ASSUME NEW s, PlugRecord(s), NEW u, NEW t, PlugFrom(s, u, t), PlugBroken(s)
    PROVE  PlugBroken(u)
<1>1. s.faults \in Nat /\ u.faults \in Nat /\ u.faults <= s.faults
  BY DEF PlugFrom, PlugRecord
<1> QED
  BY <1>1, PlugAssumption DEF PlugBroken, PlugFrom

(* After a plug-in of USB was tried.                                       *)
PlugTried(s, x, t, f) ==
    \/ x.ok = TRUE /\ PlugStateOK(x.s)
    \/ /\ x.ok = FALSE /\ PlugClosed(x.s) /\ x.s.flt = f
       /\ PlugMissed(x.s, t, f) /\ (PlugBroken(s) => PlugBroken(x.s))

LEMMA PlugAfterUsb ==
    ASSUME NEW s, PlugClosed(s), NEW f \in PlugFilters, s.flt = f, NEW t \in {"usb", "ft"},
           NEW x, PlugUsbMade(s, x, t, f)
    PROVE  PlugTried(s, x, t, f)
<1>0. PlugRecord(s) /\ t \in PlugKinds /\ t # "pci" /\ s.served = TRUE /\ s.dev = PlugNone
  BY DEF PlugClosed, PlugStateOK, PlugKinds
<1>1. \A k \in PlugKinds : k = "pci" \/ ~PlugBroken(s) => s.held[k] \subseteq PlugBase(k)
  BY <1>0 DEF PlugClosed, PlugStateOK, PlugHeldOK, PlugMine
<1>2. CASE x.ok = TRUE
  <2>0. PICK d \in PlugSeen(t, f) : \E u :
             /\ x.s = [u EXCEPT !.dev = d] /\ PlugFrom(s, u, t) /\ usb_filtering_params_parse(f)
             /\ {"thread", "dh"} \subseteq u.held[t] /\ u.held[t] \subseteq s.held[t] \cup PlugAll(t)
    BY <1>2 DEF PlugUsbMade
  <2>1. PICK u :
             /\ x.s = [u EXCEPT !.dev = d] /\ PlugFrom(s, u, t) /\ usb_filtering_params_parse(f)
             /\ {"thread", "dh"} \subseteq u.held[t] /\ u.held[t] \subseteq s.held[t] \cup PlugAll(t)
    BY <2>0
  <2>2. d \in PlugPresent /\ d.t = t /\ find_usb_match(f, d) /\ d # PlugNone
    BY <1>0, PlugDeviceFacts DEF PlugSeen
  <2>3. /\ PlugRecord(x.s) /\ x.s.faults = u.faults /\ x.s.dev = d /\ x.s.flt = u.flt
        /\ x.s.served = u.served /\ x.s.refused = u.refused /\ x.s.held = u.held
    BY <2>1, PlugDevSet DEF PlugFrom
  <2>4. u.flt = f /\ u.served = TRUE /\ \A k \in PlugKinds \ {t} : u.held[k] = s.held[k]
    BY <1>0, <2>1 DEF PlugFrom
  <2>5. PlugBroken(s) => PlugBroken(x.s)
    BY <1>0, <2>1, <2>3, PlugBrokenStays DEF PlugBroken
  <2>6. ASSUME NEW k \in PlugKinds PROVE PlugHeldOK(x.s, k)
    <3>1. CASE k = t
      <4>1. PlugMine(x.s, k)
        BY <2>2, <2>3, <3>1 DEF PlugMine
      <4>2. ~PlugBroken(x.s) => x.s.held[k] \subseteq PlugBase(k) \cup PlugAll(k)
        BY <1>1, <2>1, <2>3, <2>5, <3>1
      <4> QED
        BY <1>0, <3>1, <4>1, <4>2 DEF PlugHeldOK
    <3>2. CASE k # t
      BY <1>1, <2>3, <2>4, <2>5, <3>2 DEF PlugHeldOK
    <3> QED
      BY <3>1, <3>2
  <2>7. PlugAsked(f, d)
    BY <1>0, <2>1, <2>2, PlugAssumption DEF PlugAsked, find_usb_match, usb_filtering_params_parse
  <2>8. PlugAlive(x.s, t)
    BY <1>0, <2>1, <2>3 DEF PlugAlive
  <2>9. PlugDevOK(x.s)
    BY <1>0, <2>2, <2>3, <2>4, <2>7, <2>8 DEF PlugDevOK
  <2> QED
    BY <1>2, <2>3, <2>4, <2>6, <2>9 DEF PlugStateOK, PlugTried
<1>3. CASE x.ok = FALSE
  <2>1. /\ PlugFrom(s, x.s, t)
        /\ \/ PlugBroken(x.s)
           \/ x.s.held[t] \subseteq s.held[t] /\ (~usb_filtering_params_parse(f) \/ PlugSeen(t, f) = {})
    BY <1>3 DEF PlugUsbMade
  <2>2. /\ PlugRecord(x.s) /\ x.s.flt = f /\ x.s.served = TRUE /\ x.s.dev = PlugNone
        /\ \A k \in PlugKinds \ {t} : x.s.held[k] = s.held[k]
    BY <1>0, <2>1 DEF PlugFrom
  <2>3. PlugBroken(s) => PlugBroken(x.s)
    BY <1>0, <2>1, PlugBrokenStays
  <2>4. ASSUME NEW k \in PlugKinds PROVE PlugHeldOK(x.s, k)
    <3>1. CASE k = t
      BY <1>0, <1>1, <2>1, <2>3, <3>1 DEF PlugHeldOK
    <3>2. CASE k # t
      BY <1>1, <2>2, <2>3, <3>2 DEF PlugHeldOK
    <3> QED
      BY <3>1, <3>2
  <2>5. PlugMissed(x.s, t, f)
    BY <2>1 DEF PlugMissed
  <2> QED
    BY <1>3, <2>2, <2>3, <2>4, <2>5 DEF PlugClosed, PlugStateOK, PlugTried
<1> QED
  BY <1>2, <1>3 DEF PlugUsbMade

\* After the plug-in of PCIe, which is reached when the others missed.
LEMMA PlugAfterPcie ==
    ASSUME NEW s, PlugClosed(s), NEW f \in PlugFilters, s.flt = f,
           PlugMissed(s, "usb", f), PlugMissed(s, "ft", f),
           NEW x, PlugPcieMade(s, x, f)
    PROVE  PlugStateOK(x.s)
<1>0. PlugRecord(s) /\ "pci" \in PlugKinds /\ s.served = TRUE /\ s.dev = PlugNone
  BY DEF PlugClosed, PlugStateOK, PlugKinds
<1>1. \A k \in PlugKinds : k = "pci" \/ ~PlugBroken(s) => s.held[k] \subseteq PlugBase(k)
  BY <1>0 DEF PlugClosed, PlugStateOK, PlugHeldOK, PlugMine
<1>2. CASE x.ok = TRUE
  <2>0. PICK d \in PlugSeen("pci", f) : \E u :
             /\ x.s = [u EXCEPT !.dev = d] /\ PlugFrom(s, u, "pci") /\ pcie_filtering_params_parse(f)
             /\ "fd" \in u.held["pci"] /\ u.held["pci"] \subseteq s.held["pci"] \cup PlugAll("pci")
    BY <1>2 DEF PlugPcieMade
  <2>1. PICK u :
             /\ x.s = [u EXCEPT !.dev = d] /\ PlugFrom(s, u, "pci") /\ pcie_filtering_params_parse(f)
             /\ "fd" \in u.held["pci"] /\ u.held["pci"] \subseteq s.held["pci"] \cup PlugAll("pci")
    BY <2>0
  <2>2. d \in PlugPresent /\ d.t = "pci" /\ d # PlugNone
    BY <1>0, PlugDeviceFacts DEF PlugSeen
  <2>3. /\ PlugRecord(x.s) /\ x.s.faults = u.faults /\ x.s.dev = d /\ x.s.flt = u.flt
        /\ x.s.served = u.served /\ x.s.refused = u.refused /\ x.s.held = u.held
    BY <2>1, PlugDevSet DEF PlugFrom
  <2>4. u.flt = f /\ u.served = TRUE /\ \A k \in PlugKinds \ {"pci"} : u.held[k] = s.held[k]
    BY <1>0, <2>1 DEF PlugFrom
  <2>5. PlugBroken(s) => PlugBroken(x.s)
    BY <1>0, <2>1, <2>3, PlugBrokenStays DEF PlugBroken
  <2>6. ASSUME NEW k \in PlugKinds PROVE PlugHeldOK(x.s, k)
    <3>1. CASE k = "pci"
      <4>1. PlugMine(x.s, k)
        BY <2>2, <2>3, <3>1 DEF PlugMine
      <4>2. x.s.held[k] \subseteq PlugBase(k) \cup PlugAll(k)
        BY <1>1, <2>1, <2>3, <3>1
      <4> QED
        BY <4>1, <4>2 DEF PlugHeldOK
    <3>2. CASE k # "pci"
      BY <1>1, <2>3, <2>4, <2>5, <3>2 DEF PlugHeldOK
    <3> QED
      BY <3>1, <3>2
  <2>7. PlugAsked(f, d)
    BY <2>1, <2>2 DEF PlugAsked, pcie_filtering_params_parse
  <2>8. PlugAlive(x.s, "pci")
    BY <2>1, <2>3 DEF PlugAlive
  <2>9. ASSUME ~PlugBroken(x.s), NEW e \in PlugPresent, e.t # "pci", PlugAsked(f, e)
        PROVE  FALSE
    <3>1. e.t \in {"usb", "ft"}
      BY <2>9, PlugDeviceFacts DEF PlugKinds
    <3>2. ~usb_filtering_params_parse(f) \/ PlugSeen(e.t, f) = {}
      BY <2>5, <2>9, <3>1 DEF PlugMissed
    <3>3. f.kind # "pci"
      BY <2>9 DEF PlugAsked
    <3>4. f.kind = "any"
      BY <2>1, <3>3 DEF pcie_filtering_params_parse
    <3>5. usb_filtering_params_parse(f)
      BY <3>4 DEF usb_filtering_params_parse
    <3>6. f.bus = -1 /\ f.port = -1 /\ f.addr = -1
      BY <3>4, PlugAssumption
    <3>7. e \in PlugSeen(e.t, f)
      BY <3>6 DEF PlugSeen, find_usb_match
    <3> QED
      BY <3>2, <3>5, <3>7
  <2>10. PlugDevOK(x.s)
    BY <2>2, <2>3, <2>4, <2>7, <2>8, <2>9 DEF PlugDevOK
  <2> QED
    BY <2>3, <2>4, <2>6, <2>10 DEF PlugStateOK
<1>3. CASE x.ok = FALSE
  <2>1. PlugFrom(s, x.s, "pci") /\ x.s.held["pci"] \subseteq s.held["pci"] \cup {"pdev"}
    BY <1>3 DEF PlugPcieMade
  <2>2. /\ PlugRecord(x.s) /\ x.s.served = TRUE /\ x.s.dev = PlugNone
        /\ \A k \in PlugKinds \ {"pci"} : x.s.held[k] = s.held[k]
    BY <1>0, <2>1 DEF PlugFrom
  <2>3. PlugBroken(s) => PlugBroken(x.s)
    BY <1>0, <2>1, PlugBrokenStays
  <2>4. ASSUME NEW k \in PlugKinds PROVE PlugHeldOK(x.s, k)
    <3>1. CASE k = "pci"
      <4>1. x.s.held[k] \subseteq PlugBase(k)
        BY <1>0, <1>1, <2>1, <3>1 DEF PlugBase
      <4> QED
        BY <4>1 DEF PlugHeldOK
    <3>2. CASE k # "pci"
      BY <1>1, <2>2, <2>3, <3>2 DEF PlugHeldOK
    <3> QED
      BY <3>1, <3>2
  <2> QED
    BY <2>2, <2>4 DEF PlugStateOK
<1> QED
  BY <1>2, <1>3 DEF PlugPcieMade

LEMMA PlugCreated ==
    ASSUME NEW s, PlugClosed(s), NEW f \in PlugFilters, s.flt = f, NEW x \in PlugCreate(s, f)
    PROVE  PlugStateOK(x.s)
<1> DEFINE T == OrElse(usbft601_uram_plugin_create(s, f), LAMBDA u : usb_uram_plugin_create(u, f))
<1>1. PICK y \in T : x \in IF y.ok THEN {y} ELSE pcie_uram_plugin_create(y.s, f)
  BY DEF PlugCreate, OrElse
<1>2. PICK z \in PlugMake(s, "ft", f) : y \in IF z.ok THEN {z} ELSE PlugMake(z.s, "usb", f)
  BY DEF OrElse, usbft601_uram_plugin_create, usb_uram_plugin_create
<1> HIDE DEF T
<1>3. PlugRecord(s)
  BY DEF PlugClosed, PlugStateOK
<1>4. PlugUsbMade(s, z, "ft", f)
  BY <1>3, PlugMakeOK
<1>5. CASE z.ok = TRUE
  <2>1. PlugStateOK(z.s) /\ y = z /\ x = y
    <3>1. PlugTried(s, z, "ft", f)
      BY <1>4, PlugAfterUsb
    <3> QED
      BY <1>1, <1>2, <1>5, <3>1 DEF PlugTried
  <2> QED
    BY <2>1
<1>6. CASE z.ok = FALSE
  <2>1. PlugClosed(z.s) /\ z.s.flt = f /\ PlugMissed(z.s, "ft", f) /\ y \in PlugMake(z.s, "usb", f)
    <3>1. PlugTried(s, z, "ft", f)
      BY <1>4, PlugAfterUsb
    <3>2. y \in PlugMake(z.s, "usb", f)
      BY <1>2, <1>6
    <3> QED
      BY <1>6, <3>1, <3>2 DEF PlugTried
  <2>2. PlugRecord(z.s)
    BY <2>1 DEF PlugClosed, PlugStateOK
  <2>3. PlugUsbMade(z.s, y, "usb", f)
    BY <2>1, <2>2, PlugMakeOK
  <2>4. PlugTried(z.s, y, "usb", f)
    BY <2>1, <2>3, PlugAfterUsb
  <2>5. CASE y.ok = TRUE
    <3>1. PlugStateOK(y.s) /\ x = y
      BY <1>1, <2>4, <2>5 DEF PlugTried
    <3> QED
      BY <3>1
  <2>6. CASE y.ok = FALSE
    <3>1. /\ PlugClosed(y.s) /\ y.s.flt = f /\ PlugMissed(y.s, "usb", f)
          /\ (PlugBroken(z.s) => PlugBroken(y.s)) /\ x \in pcie_uram_plugin_create(y.s, f)
      <4>1. x \in pcie_uram_plugin_create(y.s, f)
        BY <1>1, <2>6
      <4> QED
        BY <2>4, <2>6, <4>1 DEF PlugTried
    <3>2. PlugMissed(y.s, "ft", f)
      BY <2>1, <3>1 DEF PlugMissed
    <3>3. PlugRecord(y.s)
      BY <3>1 DEF PlugClosed, PlugStateOK
    <3>4. PlugPcieMade(y.s, x, f)
      BY <3>1, <3>3, PlugPcieMakeOK
    <3> QED
      BY <3>1, <3>2, <3>4, PlugAfterPcie
  <2> QED
    BY <2>3, <2>5, <2>6 DEF PlugUsbMade
<1> QED
  BY <1>4, <1>5, <1>6 DEF PlugUsbMade

\* Streams come and go.
LEMMA PlugHolding ==
    ASSUME NEW s, PlugStateOK(s), s.dev # PlugNone, NEW u, NEW H, PlugWith(s, u, s.dev.t, H),
           H \subseteq s.held[s.dev.t] \cup PlugStreams, s.held[s.dev.t] \ PlugStreams \subseteq H
    PROVE  PlugStateOK(u)
<1> DEFINE t == s.dev.t
<1>0. /\ PlugRecord(s) /\ PlugDevOK(s) /\ t \in PlugKinds /\ s.served = TRUE
      /\ \A k \in PlugKinds : PlugHeldOK(s, k)
  BY PlugDeviceFacts DEF PlugStateOK, PlugDevOK
<1>1. /\ PlugRecord(u) /\ u.dev = s.dev /\ u.flt = s.flt /\ u.served = TRUE
      /\ u.held[t] = H /\ \A k \in PlugKinds \ {t} : u.held[k] = s.held[k]
      /\ (PlugBroken(s) <=> PlugBroken(u))
  BY <1>0 DEF PlugWith, PlugBroken
<1>2. \A k \in PlugKinds : PlugMine(u, k) <=> PlugMine(s, k)
  BY <1>1 DEF PlugMine
<1>3. PlugMine(s, t)
  BY DEF PlugMine
<1>4. ASSUME NEW k \in PlugKinds PROVE PlugHeldOK(u, k)
  <2>1. PlugHeldOK(s, k)
    BY <1>0
  <2>2. CASE k = t
    BY <1>1, <1>2, <1>3, <2>1, <2>2 DEF PlugHeldOK
  <2>3. CASE k # t
    BY <1>1, <1>2, <2>1, <2>3 DEF PlugHeldOK
  <2> QED
    BY <2>2, <2>3
<1>5. PlugAlive(u, t)
  <2>1. PlugAlive(s, t)
    BY <1>0 DEF PlugDevOK
  <2> QED
    BY <1>1, <2>1 DEF PlugAlive, PlugStreams
<1>6. PlugDevOK(u)
  BY <1>0, <1>1, <1>5 DEF PlugDevOK
<1> QED
  BY <1>1, <1>4, <1>6 DEF PlugStateOK

LEMMA PlugIoKept ==
    ASSUME NEW s, PlugStateOK(s), NEW u, PlugStateOK(u), NEW x \in Io(s, u)
    PROVE  PlugStateOK(x.s) /\ x.ok \in BOOLEAN
<1>1. \/ x.ok = TRUE /\ x.s = u
      \/ x.ok = FALSE /\ x.s = [s EXCEPT !.faults = s.faults - 1] /\ s.faults # 0
  BY DEF Io, Ok, Faulty, Fail
<1>2. CASE x.ok = TRUE /\ x.s = u
  BY <1>2
<1>3. CASE x.ok = FALSE /\ x.s = [s EXCEPT !.faults = s.faults - 1] /\ s.faults # 0
  <2> DEFINE f == x.s
  <2>1. f = [s EXCEPT !.faults = s.faults - 1] /\ PlugRecord(s)
    BY <1>3 DEF PlugStateOK
  <2> HIDE DEF f
  <2>2. /\ f = [faults |-> f.faults, calls |-> f.calls, dev |-> f.dev, flt |-> f.flt, held |-> f.held,
                served |-> f.served, refused |-> f.refused]
        /\ f.faults = s.faults - 1 /\ f.dev = s.dev /\ f.flt = s.flt
        /\ f.served = s.served /\ f.refused = s.refused /\ f.held = s.held
    BY <2>1 DEF PlugRecord
  <2>3. f.faults \in Nat /\ f.faults <= s.faults /\ f.faults <= PlugFaults
    BY <1>3, <2>1, <2>2, PlugAssumption DEF PlugRecord
  <2>4. PlugRecord(f)
    BY <2>1, <2>2, <2>3 DEF PlugRecord
  <2>5. PlugStateOK(f)
    BY <2>2, <2>3, <2>4, PlugSameOK
  <2> QED
    BY <1>3, <2>5 DEF f
<1> QED
  BY <1>1, <1>2, <1>3

LEMMA PlugStarted ==
    ASSUME NEW s, PlugStateOK(s), s.dev # PlugNone, NEW k \in PlugStreams, NEW x \in PlugStreamInit(s, s.dev.t, k)
    PROVE  PlugStateOK(x.s)
<1> DEFINE t == s.dev.t
           u == PlugTake(s, t, {k})
<1>0. PlugRecord(s) /\ t \in PlugKinds
  BY PlugDeviceFacts DEF PlugStateOK, PlugDevOK
<1>1. PlugWith(s, u, t, s.held[t] \cup {k})
  BY <1>0, PlugTaken
<1>2. PlugStateOK(u)
  BY <1>1, PlugHolding
<1>3. PICK y \in Io(s, u) : x \in IF y.ok THEN Io(y.s, y.s) ELSE {y}
  BY DEF PlugStreamInit, Then
<1>4. PlugStateOK(y.s)
  BY <1>2, PlugIoKept
<1> QED
  BY <1>3, <1>4, PlugIoKept

\* The end of the board object: its transport works and its streams are
\* gone.
LEMMA PlugBoardEnds ==
    ASSUME NEW s, PlugRecord(s), NEW t \in PlugKinds, s.served = TRUE, PlugAlive(s, t),
           s.held[t] \cap PlugStreams = {}, NEW x, x = PlugBoardDestroy(s, t)
    PROVE  PlugWith(s, x, t, s.held[t] \ {"pdev"})
<1> DEFINE u == PlugDrop(s, t, {"pdev"})
<1>1. PlugWith(s, u, t, s.held[t] \ {"pdev"})
  BY PlugDropped
<1>2. PlugRecord(u) /\ u.served = TRUE
  BY <1>1 DEF PlugWith
<1>3. x = [u EXCEPT !.served = u.served /\ PlugAlive(s, t) /\ s.held[t] \cap PlugStreams = {}]
  BY DEF PlugBoardDestroy
<1> HIDE DEF u
<1>4. (u.served /\ PlugAlive(s, t) /\ s.held[t] \cap PlugStreams = {}) = TRUE
  BY <1>2
<1>5. x = [u EXCEPT !.served = TRUE]
  BY <1>3, <1>4
<1>6. x = u
  BY <1>2, <1>5 DEF PlugRecord
<1> QED
  BY <1>1, <1>6

LEMMA PlugDestroyed ==
    ASSUME NEW s, PlugStateOK(s), s.dev # PlugNone, NEW x \in PlugDestroy(s)
    PROVE  PlugStateOK(x.s)
<1> DEFINE t == s.dev.t
           a == PlugDrop(s, t, PlugStreams)
           b == PlugBoardDestroy(a, t)
           R == IF t = "pci" THEN {"map", "fd", "mem"} ELSE {"thread", "dh", "mem"}
<1>0. /\ PlugRecord(s) /\ PlugDevOK(s) /\ t \in PlugKinds /\ s.served = TRUE
      /\ \A k \in PlugKinds : PlugHeldOK(s, k)
  BY PlugDeviceFacts DEF PlugStateOK, PlugDevOK
<1>1. PlugWith(s, a, t, s.held[t] \ PlugStreams)
  BY <1>0, PlugDropped
<1>2. PlugRecord(a) /\ a.served = TRUE /\ PlugAlive(a, t) /\ a.held[t] \cap PlugStreams = {}
  <2>1. PlugAlive(s, t)
    BY <1>0 DEF PlugDevOK
  <2> HIDE DEF a
  <2>2. PlugRecord(a) /\ a.served = TRUE /\ a.held[t] = s.held[t] \ PlugStreams
    BY <1>0, <1>1 DEF PlugWith
  <2> QED
    BY <2>1, <2>2 DEF PlugAlive, PlugStreams
<1>3. PlugWith(a, b, t, a.held[t] \ {"pdev"})
  BY <1>0, <1>2, PlugBoardEnds
<1>4. PICK c : /\ x.s = [c EXCEPT !.dev = PlugNone]
               /\ PlugWith(b, c, t, b.held[t] \ R)
  <2>1. PlugRecord(b)
    BY <1>3 DEF PlugWith
  <2>2. CASE t = "pci"
    <3> DEFINE c == PlugDrop(b, t, {"map", "fd", "mem"})
    <3>1. x.s = [c EXCEPT !.dev = PlugNone]
      BY <2>2 DEF PlugDestroy, Ok, pcie_uram_destroy
    <3> HIDE DEF b
    <3>2. PlugWith(b, c, t, b.held[t] \ {"map", "fd", "mem"})
      BY <1>0, <2>1, PlugDropped
    <3> HIDE DEF c
    <3> QED
      BY <2>2, <3>1, <3>2
  <2>3. CASE t # "pci"
    <3> DEFINE e == PlugDrop(b, t, {"thread"})
               c == PlugDrop(e, t, {"dh", "mem"})
    <3>1. t = "ft" \/ t = "usb"
      BY <1>0, <2>3 DEF PlugKinds
    <3>2. x.s = [usb_uram_destroy(s, t) EXCEPT !.dev = PlugNone]
      BY <2>3, <3>1 DEF PlugDestroy, Ok, usbft601_uram_destroy
    <3>3. usb_uram_destroy(s, t) = c
      BY DEF usb_uram_destroy, libusb_generic_stop_thread
    <3> HIDE DEF b
    <3>4. PlugWith(b, e, t, b.held[t] \ {"thread"})
      BY <1>0, <2>1, PlugDropped
    <3>5. PlugRecord(e) /\ e.held[t] = b.held[t] \ {"thread"}
      BY <3>4 DEF PlugWith
    <3> HIDE DEF e
    <3>6. PlugWith(e, c, t, e.held[t] \ {"dh", "mem"})
      BY <1>0, <3>5, PlugDropped
    <3> HIDE DEF c
    <3>7. (b.held[t] \ {"thread"}) \ {"dh", "mem"} = b.held[t] \ R
      BY <2>3
    <3>8. PlugWith(b, c, t, b.held[t] \ R)
      BY <3>4, <3>5, <3>6, <3>7 DEF PlugWith
    <3> QED
      BY <3>2, <3>3, <3>8
  <2> QED
    BY <2>2, <2>3
<1> HIDE DEF a, b
<1>5. /\ PlugRecord(c) /\ c.faults = s.faults /\ c.served = TRUE /\ c.refused = s.refused
      /\ \A k \in PlugKinds \ {t} : c.held[k] = s.held[k]
      /\ c.held[t] = ((s.held[t] \ PlugStreams) \ {"pdev"}) \ R
  BY <1>0, <1>1, <1>3, <1>4 DEF PlugWith
<1>6. /\ PlugRecord(x.s) /\ x.s.faults = s.faults /\ x.s.served = TRUE /\ x.s.refused = s.refused
      /\ x.s.dev = PlugNone /\ x.s.held = c.held
  BY <1>4, <1>5, PlugDevSet
<1>7. PlugBroken(x.s) <=> PlugBroken(s)
  BY <1>6 DEF PlugBroken
<1>8. ASSUME NEW k \in PlugKinds PROVE PlugHeldOK(x.s, k)
  <2>1. PlugHeldOK(s, k)
    BY <1>0
  <2>2. CASE k = t
    <3>1. k = "pci" \/ ~PlugBroken(s) => s.held[t] \subseteq PlugBase(t) \cup PlugAll(t) \cup PlugStreams
      BY <2>1, <2>2 DEF PlugHeldOK, PlugMine
    <3>2. (PlugBase(t) \cup PlugAll(t)) \ ({"pdev"} \cup R) \subseteq PlugBase(t)
      BY <1>0 DEF PlugBase, PlugAll, PlugKinds
    <3> HIDE DEF R
    <3>3. k = "pci" \/ ~PlugBroken(s) => c.held[t] \subseteq PlugBase(t)
      BY <1>5, <3>1, <3>2
    <3> QED
      BY <1>6, <1>7, <2>2, <3>3 DEF PlugHeldOK
  <2>3. CASE k # t
    <3>1. ~PlugMine(s, k) /\ x.s.held[k] = s.held[k]
      BY <1>5, <1>6, <2>3 DEF PlugMine
    <3> QED
      BY <1>7, <2>1, <3>1 DEF PlugHeldOK
  <2> QED
    BY <2>2, <2>3
<1> QED
  BY <1>6, <1>8 DEF PlugStateOK

\* lowlevel_create and the plug-ins it tries, streams, and the ends of the
\* transports: whatever is plugged in, whatever is asked for and wherever a
\* creation fails, the device opened is one that was asked for, PCIe is
\* reached past USB only if something went wrong there, the board object is
\* ended over a working transport without streams, and what is not open
\* holds nothing but the libusb context and a board object left by PCIe.
THEOREM PlugEndsInOrder == PlugSpec => []PlugLife
<1>1. PlugInit => PlugInv
  <2> SUFFICES ASSUME PlugInit PROVE PlugStateOK(plug)
    BY DEF PlugInv
  <2>1. /\ plug.faults = PlugFaults /\ plug.dev = PlugNone /\ plug.served = TRUE
        /\ plug.held = [k \in PlugKinds |-> {}]
    BY DEF PlugInit, PlugFresh, PlugKinds
  <2>2. PlugRecord(plug)
    BY PlugAssumption DEF PlugInit, PlugFresh, PlugRecord, PlugKinds
  <2>3. \A k \in PlugKinds : PlugHeldOK(plug, k)
    BY <2>1 DEF PlugHeldOK
  <2> QED
    BY <2>1, <2>2, <2>3 DEF PlugStateOK
<1>2. PlugInv /\ [PlugNext]_plug => PlugInv'
  <2> SUFFICES ASSUME PlugStateOK(plug), [PlugNext]_plug PROVE PlugStateOK(plug')
    BY DEF PlugInv
  <2>0. ASSUME NEW o, PlugStateOK(o.s), plug' = [o.s EXCEPT !.calls = o.s.calls - 1]
        PROVE  PlugStateOK(plug')
    BY <2>0, PlugCalled
  <2>1. CASE PlugOpen
    <3>0. PICK f \in PlugFilters : PlugDo(PlugCreate([plug EXCEPT !.flt = f], f))
      BY <2>1 DEF PlugOpen
    <3>1. PICK o \in PlugCreate([plug EXCEPT !.flt = f], f) : plug' = [o.s EXCEPT !.calls = o.s.calls - 1]
      BY <3>0 DEF PlugDo
    <3> DEFINE s == [plug EXCEPT !.flt = f]
    <3>2. s = [plug EXCEPT !.flt = f] /\ plug.dev = PlugNone /\ PlugRecord(plug)
      BY <2>1 DEF PlugOpen, PlugStateOK
    <3> HIDE DEF s
    <3>3. /\ s = [faults |-> s.faults, calls |-> s.calls, dev |-> s.dev, flt |-> s.flt, held |-> s.held,
                  served |-> s.served, refused |-> s.refused]
          /\ s.faults = plug.faults /\ s.dev = plug.dev /\ s.flt = f
          /\ s.served = plug.served /\ s.refused = plug.refused /\ s.held = plug.held
      BY <3>2 DEF PlugRecord
    <3>4. PlugRecord(s)
      BY <3>2, <3>3 DEF PlugRecord
    <3>5. \A k \in PlugKinds : PlugHeldOK(s, k)
      BY <3>3 DEF PlugStateOK, PlugHeldOK, PlugMine, PlugBroken
    <3>6. PlugClosed(s)
      BY <3>2, <3>3, <3>4, <3>5 DEF PlugClosed, PlugStateOK
    <3>7. o \in PlugCreate(s, f)
      BY DEF s
    <3>8. PlugStateOK(o.s)
      BY <3>3, <3>6, <3>7, PlugCreated
    <3> QED
      BY <2>0, <3>1, <3>8
  <2>2. CASE PlugStart
    <3>0. PICK k \in PlugStreams : PlugDo(PlugStreamInit(plug, plug.dev.t, k))
      BY <2>2 DEF PlugStart
    <3>1. PICK o \in PlugStreamInit(plug, plug.dev.t, k) : plug' = [o.s EXCEPT !.calls = o.s.calls - 1]
      BY <3>0 DEF PlugDo
    <3>2. plug.dev # PlugNone
      BY <2>2 DEF PlugStart, PlugUp
    <3>3. PlugStateOK(o.s)
      BY <3>2, PlugStarted
    <3> QED
      BY <2>0, <3>1, <3>3
  <2>3. CASE PlugStop
    <3>1. PICK k \in PlugStreams : PlugDo(Ok(PlugStreamDeinit(plug, plug.dev.t, k)))
      BY <2>3 DEF PlugStop
    <3>2. plug.dev # PlugNone
      BY <2>3 DEF PlugStop, PlugUp
    <3> DEFINE u == PlugDrop(plug, plug.dev.t, {k})
    <3>3. PICK o : o.s = u /\ plug' = [o.s EXCEPT !.calls = o.s.calls - 1]
      BY <3>1 DEF PlugDo, Ok, PlugStreamDeinit
    <3>4. PlugRecord(plug) /\ plug.dev.t \in PlugKinds
      BY <3>2, PlugDeviceFacts DEF PlugStateOK, PlugDevOK
    <3>5. PlugWith(plug, u, plug.dev.t, plug.held[plug.dev.t] \ {k})
      BY <3>4, PlugDropped
    <3> HIDE DEF u
    <3>6. PlugStateOK(u)
      BY <3>2, <3>5, PlugHolding
    <3> QED
      BY <2>0, <3>3, <3>6
  <2>4. CASE PlugClose
    <3>1. PICK o \in PlugDestroy(plug) : plug' = [o.s EXCEPT !.calls = o.s.calls - 1]
      BY <2>4 DEF PlugClose, PlugDo
    <3>2. plug.dev # PlugNone
      BY <2>4 DEF PlugClose, PlugUp
    <3>3. PlugStateOK(o.s)
      BY <3>2, PlugDestroyed
    <3> QED
      BY <2>0, <3>1, <3>3
  <2>5. CASE UNCHANGED plug
    BY <2>5
  <2> QED
    BY <2>1, <2>2, <2>3, <2>4, <2>5 DEF PlugNext
<1>3. PlugInv => PlugLife
  <2> SUFFICES ASSUME PlugStateOK(plug) PROVE PlugLife
    BY DEF PlugInv
  <2>1. "pci" \in PlugKinds /\ "usb" \in PlugKinds /\ "ft" \in PlugKinds
    BY DEF PlugKinds
  <2>2. plug.faults \in Nat /\ plug.served = TRUE
    BY DEF PlugStateOK, PlugRecord
  <2>3. plug.faults = PlugFaults /\ ~plug.refused => ~PlugBroken(plug)
    BY <2>2 DEF PlugBroken
  <2>4. PlugOpensAsked
    BY <2>3 DEF PlugStateOK, PlugDevOK, PlugOpensAsked
  <2>5. ASSUME plug.dev = PlugNone
        PROVE  \A k \in PlugKinds : k = "pci" \/ ~PlugBroken(plug) => plug.held[k] \subseteq PlugBase(k)
    BY <2>5 DEF PlugStateOK, PlugHeldOK, PlugMine
  <2>6. PlugEnds
    BY <2>1, <2>2, <2>3, <2>5 DEF PlugEnds, PlugBase
  <2> QED
    BY <2>4, <2>6 DEF PlugLife
<1> QED
  BY <1>1, <1>2, <1>3, PTL DEF PlugSpec

(***************************************************************************)
(* MultiDev                                                                *)
(***************************************************************************)

\* The sequence 1, ..., n.
LEMMA MdevFirstIs ==
    ASSUME NEW n \in Nat
    PROVE  Len(MdevFirst(n)) = n /\ \A i \in 1..n : MdevFirst(n)[i] = i
<1>1. MdevFirst(n) \in Seq(1..n)
  BY DEF MdevFirst
<1>2. DOMAIN MdevFirst(n) = 1..n
  BY DEF MdevFirst
<1> QED BY <1>1, <1>2 DEF MdevFirst


\* The loops of mdev_create, mdev_create_stream and mdev_stream_sync.
MdevOdd(t) == \E i \in MdevDevs : ~t.same[i]
MdevCreateAll(s) == ForEach(s, MdevSeq, LAMBDA t, i : IF MdevOdd(t) THEN Ok(t) ELSE lowlevel_create(t, i))

MdevOpenOne(t, i, sid) ==
    LET k == MdevSlotOf(sid)
        u == [t EXCEPT !.str[k].mask[i] = FALSE]
    IN  IF u.real[k][i] THEN Fail(u)
        ELSE Then(MdevChildCreate(u, i, sid), LAMBDA v :
             LET w == [v EXCEPT !.real[k][i] = TRUE, !.str[k].mask[i] = TRUE] IN Io(w, w))
MdevOpenAll(s, sid) == ForEach(s, MdevSeq, LAMBDA t, i : MdevOpenOne(t, i, sid))

MdevSyncAll(s, sids) ==
    ForEach(s, MdevSeq, LAMBDA t, i : IF \A sid \in sids : MdevMarked(s, sid, i) THEN Io(t, t) ELSE Ok(t))

\* The loops of mdev.c: what every round keeps, the loop keeps.

LEMMA MdevSetLoop ==
    ASSUME NEW s, NEW v, NEW V, Ok(s) \subseteq V[0],
           \A n \in 1..MdevCnt : \A o \in V[n - 1] :
               (IF o.ok THEN Io(o.s, [o.s EXCEPT !.val[n] = v]) ELSE {o}) \subseteq V[n]
    PROVE  mdev_obj_set_i64(s, v) \subseteq V[MdevCnt]
<1> DEFINE B(n, X) == UNION {IF o.ok THEN Io(o.s, [o.s EXCEPT !.val[MdevSeq[n]] = v]) ELSE {o} : o \in X}
           Eq(f) == f = [n \in 0..Len(MdevSeq) |-> IF n = 0 THEN Ok(s) ELSE B(n, f[n - 1])]
           G == [n \in 1..MdevCnt |-> [X \in SUBSET V[n - 1] |-> B(n, X)]]
           at == CHOOSE f : Eq(f)
<1>1. mdev_obj_set_i64(s, v) = at[Len(MdevSeq)]
  BY Zenon DEF mdev_obj_set_i64, ForEach, Then
<1>2. Len(MdevSeq) = MdevCnt /\ MdevCnt \in Nat /\ \A n \in 1..MdevCnt : MdevSeq[n] = n
  BY MdevFirstIs, MdevAssumption DEF MdevSeq
<1>3. ASSUME NEW n \in 1..MdevCnt, NEW X \in SUBSET V[n - 1] PROVE B(n, X) \in SUBSET V[n]
  <2> SUFFICES ASSUME NEW x \in B(n, X) PROVE x \in V[n]
    OBVIOUS
  <2>1. PICK o \in X : x \in IF o.ok THEN Io(o.s, [o.s EXCEPT !.val[n] = v]) ELSE {o}
    BY <1>2
  <2> QED BY <2>1
<1> HIDE DEF B
<1>4. \A n \in 1..MdevCnt : \A X \in SUBSET V[n - 1] : G[n][X] = B(n, X)
  OBVIOUS
<1> HIDE DEF G
<1>5. PICK f : /\ f = [n \in 0..MdevCnt |-> IF n = 0 THEN Ok(s) ELSE G[n][f[n - 1]]]
               /\ \A n \in 0..MdevCnt : f[n] \in SUBSET V[n]
  <2>1. ASSUME NEW n \in 1..MdevCnt, NEW X \in SUBSET V[n - 1] PROVE G[n][X] \in SUBSET V[n]
    <3>1. G[n][X] = B(n, X)
      BY <1>4
    <3> QED BY <1>3, <3>1
  <2>2. \E f : LoopIs(f, MdevCnt, Ok(s), V, G)
    BY <1>2, <2>1, LoopDefined, Zenon
  <2> QED BY <2>2 DEF LoopIs
<1>6. Eq(f)
  <2>1. ASSUME NEW n \in 0..MdevCnt
        PROVE  (IF n = 0 THEN Ok(s) ELSE G[n][f[n - 1]]) = (IF n = 0 THEN Ok(s) ELSE B(n, f[n - 1]))
    <3>1. CASE n # 0
      <4>1. n \in 1..MdevCnt /\ n - 1 \in 0..MdevCnt
        BY <1>2, <3>1
      <4> QED BY <1>4, <1>5, <4>1
    <3> QED BY <3>1
  <2>2. [n \in 0..MdevCnt |-> IF n = 0 THEN Ok(s) ELSE G[n][f[n - 1]]] =
          [n \in 0..MdevCnt |-> IF n = 0 THEN Ok(s) ELSE B(n, f[n - 1])]
    BY <2>1
  <2> QED BY <1>2, <1>5, <2>2
<1> HIDE DEF Eq
<1>7. Eq(at)
  BY <1>6
<1> HIDE DEF at
<1>8. at[0] = Ok(s) /\ \A n \in 1..MdevCnt : at[n] = B(n, at[n - 1])
  <2>1. at = [n \in 0..MdevCnt |-> IF n = 0 THEN Ok(s) ELSE B(n, at[n - 1])]
    BY <1>2, <1>7 DEF Eq
  <2>2. 0 \in 0..MdevCnt /\ \A n \in 1..MdevCnt : n \in 0..MdevCnt /\ n # 0
    BY <1>2
  <2> QED BY <2>1, <2>2, Zenon
<1>9. at[MdevCnt] \subseteq V[MdevCnt]
  <2>1. /\ at[0] \subseteq V[0]
        /\ \A n \in 1..MdevCnt : at[n - 1] \subseteq V[n - 1] => at[n] \subseteq V[n]
    BY <1>3, <1>8
  <2> QED BY <1>2, <2>1, LoopBound, Zenon
<1> QED BY <1>1, <1>2, <1>9


LEMMA MdevCreateLoop ==
    ASSUME NEW s, NEW V, Ok(s) \subseteq V[0],
           \A n \in 1..MdevCnt : \A o \in V[n - 1] :
               (IF o.ok THEN (IF MdevOdd(o.s) THEN Ok(o.s) ELSE lowlevel_create(o.s, n)) ELSE {o}) \subseteq V[n]
    PROVE  MdevCreateAll(s) \subseteq V[MdevCnt]
<1> DEFINE B(n, X) == UNION {IF o.ok THEN (IF MdevOdd(o.s) THEN Ok(o.s) ELSE lowlevel_create(o.s, MdevSeq[n])) ELSE {o} : o \in X}
           Eq(f) == f = [n \in 0..Len(MdevSeq) |-> IF n = 0 THEN Ok(s) ELSE B(n, f[n - 1])]
           G == [n \in 1..MdevCnt |-> [X \in SUBSET V[n - 1] |-> B(n, X)]]
           at == CHOOSE f : Eq(f)
<1>1. MdevCreateAll(s) = at[Len(MdevSeq)]
  BY Zenon DEF MdevCreateAll, ForEach, Then
<1>2. Len(MdevSeq) = MdevCnt /\ MdevCnt \in Nat /\ \A n \in 1..MdevCnt : MdevSeq[n] = n
  BY MdevFirstIs, MdevAssumption DEF MdevSeq
<1>3. ASSUME NEW n \in 1..MdevCnt, NEW X \in SUBSET V[n - 1] PROVE B(n, X) \in SUBSET V[n]
  <2> SUFFICES ASSUME NEW x \in B(n, X) PROVE x \in V[n]
    OBVIOUS
  <2>1. PICK o \in X : x \in IF o.ok THEN (IF MdevOdd(o.s) THEN Ok(o.s) ELSE lowlevel_create(o.s, n)) ELSE {o}
    BY <1>2
  <2> QED BY <2>1
<1> HIDE DEF B
<1>4. \A n \in 1..MdevCnt : \A X \in SUBSET V[n - 1] : G[n][X] = B(n, X)
  OBVIOUS
<1> HIDE DEF G
<1>5. PICK f : /\ f = [n \in 0..MdevCnt |-> IF n = 0 THEN Ok(s) ELSE G[n][f[n - 1]]]
               /\ \A n \in 0..MdevCnt : f[n] \in SUBSET V[n]
  <2>1. ASSUME NEW n \in 1..MdevCnt, NEW X \in SUBSET V[n - 1] PROVE G[n][X] \in SUBSET V[n]
    <3>1. G[n][X] = B(n, X)
      BY <1>4
    <3> QED BY <1>3, <3>1
  <2>2. \E f : LoopIs(f, MdevCnt, Ok(s), V, G)
    BY <1>2, <2>1, LoopDefined, Zenon
  <2> QED BY <2>2 DEF LoopIs
<1>6. Eq(f)
  <2>1. ASSUME NEW n \in 0..MdevCnt
        PROVE  (IF n = 0 THEN Ok(s) ELSE G[n][f[n - 1]]) = (IF n = 0 THEN Ok(s) ELSE B(n, f[n - 1]))
    <3>1. CASE n # 0
      <4>1. n \in 1..MdevCnt /\ n - 1 \in 0..MdevCnt
        BY <1>2, <3>1
      <4> QED BY <1>4, <1>5, <4>1
    <3> QED BY <3>1
  <2>2. [n \in 0..MdevCnt |-> IF n = 0 THEN Ok(s) ELSE G[n][f[n - 1]]] =
          [n \in 0..MdevCnt |-> IF n = 0 THEN Ok(s) ELSE B(n, f[n - 1])]
    BY <2>1
  <2> QED BY <1>2, <1>5, <2>2
<1> HIDE DEF Eq
<1>7. Eq(at)
  BY <1>6
<1> HIDE DEF at
<1>8. at[0] = Ok(s) /\ \A n \in 1..MdevCnt : at[n] = B(n, at[n - 1])
  <2>1. at = [n \in 0..MdevCnt |-> IF n = 0 THEN Ok(s) ELSE B(n, at[n - 1])]
    BY <1>2, <1>7 DEF Eq
  <2>2. 0 \in 0..MdevCnt /\ \A n \in 1..MdevCnt : n \in 0..MdevCnt /\ n # 0
    BY <1>2
  <2> QED BY <2>1, <2>2, Zenon
<1>9. at[MdevCnt] \subseteq V[MdevCnt]
  <2>1. /\ at[0] \subseteq V[0]
        /\ \A n \in 1..MdevCnt : at[n - 1] \subseteq V[n - 1] => at[n] \subseteq V[n]
    BY <1>3, <1>8
  <2> QED BY <1>2, <2>1, LoopBound, Zenon
<1> QED BY <1>1, <1>2, <1>9


LEMMA MdevOpenLoop ==
    ASSUME NEW s, NEW sid, NEW V, Ok(s) \subseteq V[0],
           \A n \in 1..MdevCnt : \A o \in V[n - 1] :
               (IF o.ok THEN MdevOpenOne(o.s, n, sid) ELSE {o}) \subseteq V[n]
    PROVE  MdevOpenAll(s, sid) \subseteq V[MdevCnt]
<1> DEFINE B(n, X) == UNION {IF o.ok THEN MdevOpenOne(o.s, MdevSeq[n], sid) ELSE {o} : o \in X}
           Eq(f) == f = [n \in 0..Len(MdevSeq) |-> IF n = 0 THEN Ok(s) ELSE B(n, f[n - 1])]
           G == [n \in 1..MdevCnt |-> [X \in SUBSET V[n - 1] |-> B(n, X)]]
           at == CHOOSE f : Eq(f)
<1>1. MdevOpenAll(s, sid) = at[Len(MdevSeq)]
  BY Zenon DEF MdevOpenAll, ForEach, Then
<1>2. Len(MdevSeq) = MdevCnt /\ MdevCnt \in Nat /\ \A n \in 1..MdevCnt : MdevSeq[n] = n
  BY MdevFirstIs, MdevAssumption DEF MdevSeq
<1>3. ASSUME NEW n \in 1..MdevCnt, NEW X \in SUBSET V[n - 1] PROVE B(n, X) \in SUBSET V[n]
  <2> SUFFICES ASSUME NEW x \in B(n, X) PROVE x \in V[n]
    OBVIOUS
  <2>1. PICK o \in X : x \in IF o.ok THEN MdevOpenOne(o.s, n, sid) ELSE {o}
    BY <1>2
  <2> QED BY <2>1
<1> HIDE DEF B
<1>4. \A n \in 1..MdevCnt : \A X \in SUBSET V[n - 1] : G[n][X] = B(n, X)
  OBVIOUS
<1> HIDE DEF G
<1>5. PICK f : /\ f = [n \in 0..MdevCnt |-> IF n = 0 THEN Ok(s) ELSE G[n][f[n - 1]]]
               /\ \A n \in 0..MdevCnt : f[n] \in SUBSET V[n]
  <2>1. ASSUME NEW n \in 1..MdevCnt, NEW X \in SUBSET V[n - 1] PROVE G[n][X] \in SUBSET V[n]
    <3>1. G[n][X] = B(n, X)
      BY <1>4
    <3> QED BY <1>3, <3>1
  <2>2. \E f : LoopIs(f, MdevCnt, Ok(s), V, G)
    BY <1>2, <2>1, LoopDefined, Zenon
  <2> QED BY <2>2 DEF LoopIs
<1>6. Eq(f)
  <2>1. ASSUME NEW n \in 0..MdevCnt
        PROVE  (IF n = 0 THEN Ok(s) ELSE G[n][f[n - 1]]) = (IF n = 0 THEN Ok(s) ELSE B(n, f[n - 1]))
    <3>1. CASE n # 0
      <4>1. n \in 1..MdevCnt /\ n - 1 \in 0..MdevCnt
        BY <1>2, <3>1
      <4> QED BY <1>4, <1>5, <4>1
    <3> QED BY <3>1
  <2>2. [n \in 0..MdevCnt |-> IF n = 0 THEN Ok(s) ELSE G[n][f[n - 1]]] =
          [n \in 0..MdevCnt |-> IF n = 0 THEN Ok(s) ELSE B(n, f[n - 1])]
    BY <2>1
  <2> QED BY <1>2, <1>5, <2>2
<1> HIDE DEF Eq
<1>7. Eq(at)
  BY <1>6
<1> HIDE DEF at
<1>8. at[0] = Ok(s) /\ \A n \in 1..MdevCnt : at[n] = B(n, at[n - 1])
  <2>1. at = [n \in 0..MdevCnt |-> IF n = 0 THEN Ok(s) ELSE B(n, at[n - 1])]
    BY <1>2, <1>7 DEF Eq
  <2>2. 0 \in 0..MdevCnt /\ \A n \in 1..MdevCnt : n \in 0..MdevCnt /\ n # 0
    BY <1>2
  <2> QED BY <2>1, <2>2, Zenon
<1>9. at[MdevCnt] \subseteq V[MdevCnt]
  <2>1. /\ at[0] \subseteq V[0]
        /\ \A n \in 1..MdevCnt : at[n - 1] \subseteq V[n - 1] => at[n] \subseteq V[n]
    BY <1>3, <1>8
  <2> QED BY <1>2, <2>1, LoopBound, Zenon
<1> QED BY <1>1, <1>2, <1>9


LEMMA MdevOpLoop ==
    ASSUME NEW s, NEW sid, NEW on, NEW V, Ok(s) \subseteq V[0],
           \A n \in 1..MdevCnt : \A o \in V[n - 1] :
               (IF o.ok THEN (IF ~MdevMarked(s, sid, n) THEN Ok(o.s) ELSE IF sid \in o.s.child[n] THEN Io(o.s, [o.s EXCEPT !.run[n] = IF on THEN @ \cup {sid} ELSE @ \ {sid}]) ELSE Fail(o.s)) ELSE {o}) \subseteq V[n]
    PROVE  mstr_stream_op(s, sid, on) \subseteq V[MdevCnt]
<1> DEFINE B(n, X) == UNION {IF o.ok THEN (IF ~MdevMarked(s, sid, MdevSeq[n]) THEN Ok(o.s) ELSE IF sid \in o.s.child[MdevSeq[n]] THEN Io(o.s, [o.s EXCEPT !.run[MdevSeq[n]] = IF on THEN @ \cup {sid} ELSE @ \ {sid}]) ELSE Fail(o.s)) ELSE {o} : o \in X}
           Eq(f) == f = [n \in 0..Len(MdevSeq) |-> IF n = 0 THEN Ok(s) ELSE B(n, f[n - 1])]
           G == [n \in 1..MdevCnt |-> [X \in SUBSET V[n - 1] |-> B(n, X)]]
           at == CHOOSE f : Eq(f)
<1>1. mstr_stream_op(s, sid, on) = at[Len(MdevSeq)]
  BY Zenon DEF mstr_stream_op, ForEach, Then, MdevOn
<1>2. Len(MdevSeq) = MdevCnt /\ MdevCnt \in Nat /\ \A n \in 1..MdevCnt : MdevSeq[n] = n
  BY MdevFirstIs, MdevAssumption DEF MdevSeq
<1>3. ASSUME NEW n \in 1..MdevCnt, NEW X \in SUBSET V[n - 1] PROVE B(n, X) \in SUBSET V[n]
  <2> SUFFICES ASSUME NEW x \in B(n, X) PROVE x \in V[n]
    OBVIOUS
  <2>1. PICK o \in X : x \in IF o.ok THEN (IF ~MdevMarked(s, sid, n) THEN Ok(o.s) ELSE IF sid \in o.s.child[n] THEN Io(o.s, [o.s EXCEPT !.run[n] = IF on THEN @ \cup {sid} ELSE @ \ {sid}]) ELSE Fail(o.s)) ELSE {o}
    BY <1>2, ZenonT(40)
  <2> QED BY <2>1
<1> HIDE DEF B
<1>4. \A n \in 1..MdevCnt : \A X \in SUBSET V[n - 1] : G[n][X] = B(n, X)
  OBVIOUS
<1> HIDE DEF G
<1>5. PICK f : /\ f = [n \in 0..MdevCnt |-> IF n = 0 THEN Ok(s) ELSE G[n][f[n - 1]]]
               /\ \A n \in 0..MdevCnt : f[n] \in SUBSET V[n]
  <2>1. ASSUME NEW n \in 1..MdevCnt, NEW X \in SUBSET V[n - 1] PROVE G[n][X] \in SUBSET V[n]
    <3>1. G[n][X] = B(n, X)
      BY <1>4
    <3> QED BY <1>3, <3>1
  <2>2. \E f : LoopIs(f, MdevCnt, Ok(s), V, G)
    BY <1>2, <2>1, LoopDefined, Zenon
  <2> QED BY <2>2 DEF LoopIs
<1>6. Eq(f)
  <2>1. ASSUME NEW n \in 0..MdevCnt
        PROVE  (IF n = 0 THEN Ok(s) ELSE G[n][f[n - 1]]) = (IF n = 0 THEN Ok(s) ELSE B(n, f[n - 1]))
    <3>1. CASE n # 0
      <4>1. n \in 1..MdevCnt /\ n - 1 \in 0..MdevCnt
        BY <1>2, <3>1
      <4> QED BY <1>4, <1>5, <4>1
    <3> QED BY <3>1
  <2>2. [n \in 0..MdevCnt |-> IF n = 0 THEN Ok(s) ELSE G[n][f[n - 1]]] =
          [n \in 0..MdevCnt |-> IF n = 0 THEN Ok(s) ELSE B(n, f[n - 1])]
    BY <2>1
  <2> QED BY <1>2, <1>5, <2>2
<1> HIDE DEF Eq
<1>7. Eq(at)
  BY <1>6
<1> HIDE DEF at
<1>8. at[0] = Ok(s) /\ \A n \in 1..MdevCnt : at[n] = B(n, at[n - 1])
  <2>1. at = [n \in 0..MdevCnt |-> IF n = 0 THEN Ok(s) ELSE B(n, at[n - 1])]
    BY <1>2, <1>7 DEF Eq
  <2>2. 0 \in 0..MdevCnt /\ \A n \in 1..MdevCnt : n \in 0..MdevCnt /\ n # 0
    BY <1>2
  <2> QED BY <2>1, <2>2, Zenon
<1>9. at[MdevCnt] \subseteq V[MdevCnt]
  <2>1. /\ at[0] \subseteq V[0]
        /\ \A n \in 1..MdevCnt : at[n - 1] \subseteq V[n - 1] => at[n] \subseteq V[n]
    BY <1>3, <1>8
  <2> QED BY <1>2, <2>1, LoopBound, Zenon
<1> QED BY <1>1, <1>2, <1>9


LEMMA MdevSyncLoop ==
    ASSUME NEW s, NEW sids, NEW V, Ok(s) \subseteq V[0],
           \A n \in 1..MdevCnt : \A o \in V[n - 1] :
               (IF o.ok THEN (IF \A sid \in sids : MdevMarked(s, sid, n) THEN Io(o.s, o.s) ELSE Ok(o.s)) ELSE {o}) \subseteq V[n]
    PROVE  MdevSyncAll(s, sids) \subseteq V[MdevCnt]
<1> DEFINE B(n, X) == UNION {IF o.ok THEN (IF \A sid \in sids : MdevMarked(s, sid, MdevSeq[n]) THEN Io(o.s, o.s) ELSE Ok(o.s)) ELSE {o} : o \in X}
           Eq(f) == f = [n \in 0..Len(MdevSeq) |-> IF n = 0 THEN Ok(s) ELSE B(n, f[n - 1])]
           G == [n \in 1..MdevCnt |-> [X \in SUBSET V[n - 1] |-> B(n, X)]]
           at == CHOOSE f : Eq(f)
<1>1. MdevSyncAll(s, sids) = at[Len(MdevSeq)]
  BY Zenon DEF MdevSyncAll, ForEach, Then
<1>2. Len(MdevSeq) = MdevCnt /\ MdevCnt \in Nat /\ \A n \in 1..MdevCnt : MdevSeq[n] = n
  BY MdevFirstIs, MdevAssumption DEF MdevSeq
<1>3. ASSUME NEW n \in 1..MdevCnt, NEW X \in SUBSET V[n - 1] PROVE B(n, X) \in SUBSET V[n]
  <2> SUFFICES ASSUME NEW x \in B(n, X) PROVE x \in V[n]
    OBVIOUS
  <2>1. PICK o \in X : x \in IF o.ok THEN (IF \A sid \in sids : MdevMarked(s, sid, n) THEN Io(o.s, o.s) ELSE Ok(o.s)) ELSE {o}
    BY <1>2
  <2> QED BY <2>1
<1> HIDE DEF B
<1>4. \A n \in 1..MdevCnt : \A X \in SUBSET V[n - 1] : G[n][X] = B(n, X)
  OBVIOUS
<1> HIDE DEF G
<1>5. PICK f : /\ f = [n \in 0..MdevCnt |-> IF n = 0 THEN Ok(s) ELSE G[n][f[n - 1]]]
               /\ \A n \in 0..MdevCnt : f[n] \in SUBSET V[n]
  <2>1. ASSUME NEW n \in 1..MdevCnt, NEW X \in SUBSET V[n - 1] PROVE G[n][X] \in SUBSET V[n]
    <3>1. G[n][X] = B(n, X)
      BY <1>4
    <3> QED BY <1>3, <3>1
  <2>2. \E f : LoopIs(f, MdevCnt, Ok(s), V, G)
    BY <1>2, <2>1, LoopDefined, Zenon
  <2> QED BY <2>2 DEF LoopIs
<1>6. Eq(f)
  <2>1. ASSUME NEW n \in 0..MdevCnt
        PROVE  (IF n = 0 THEN Ok(s) ELSE G[n][f[n - 1]]) = (IF n = 0 THEN Ok(s) ELSE B(n, f[n - 1]))
    <3>1. CASE n # 0
      <4>1. n \in 1..MdevCnt /\ n - 1 \in 0..MdevCnt
        BY <1>2, <3>1
      <4> QED BY <1>4, <1>5, <4>1
    <3> QED BY <3>1
  <2>2. [n \in 0..MdevCnt |-> IF n = 0 THEN Ok(s) ELSE G[n][f[n - 1]]] =
          [n \in 0..MdevCnt |-> IF n = 0 THEN Ok(s) ELSE B(n, f[n - 1])]
    BY <2>1
  <2> QED BY <1>2, <1>5, <2>2
<1> HIDE DEF Eq
<1>7. Eq(at)
  BY <1>6
<1> HIDE DEF at
<1>8. at[0] = Ok(s) /\ \A n \in 1..MdevCnt : at[n] = B(n, at[n - 1])
  <2>1. at = [n \in 0..MdevCnt |-> IF n = 0 THEN Ok(s) ELSE B(n, at[n - 1])]
    BY <1>2, <1>7 DEF Eq
  <2>2. 0 \in 0..MdevCnt /\ \A n \in 1..MdevCnt : n \in 0..MdevCnt /\ n # 0
    BY <1>2
  <2> QED BY <2>1, <2>2, Zenon
<1>9. at[MdevCnt] \subseteq V[MdevCnt]
  <2>1. /\ at[0] \subseteq V[0]
        /\ \A n \in 1..MdevCnt : at[n - 1] \subseteq V[n - 1] => at[n] \subseteq V[n]
    BY <1>3, <1>8
  <2> QED BY <1>2, <2>1, LoopBound, Zenon
<1> QED BY <1>1, <1>2, <1>9


LEMMA MdevRecvLoop ==
    ASSUME NEW s, MdevStr(s, "rx").cnt = MdevCnt, NEW V, Ok(s) \subseteq V[0],
           \A n \in 1..MdevCnt : \A o \in V[n - 1] :
               (IF o.ok THEN (IF "rx" \in o.s.child[n] THEN Io(o.s, [o.s EXCEPT !.pos[n] = @ + 1]) ELSE Fail(o.s)) ELSE {o}) \subseteq V[n]
    PROVE  mstr_stream_recv(s) \subseteq V[MdevCnt]
<1> DEFINE B(n, X) == UNION {IF o.ok THEN (IF "rx" \in o.s.child[MdevFirst(MdevStr(s, "rx").cnt)[n]] THEN Io(o.s, [o.s EXCEPT !.pos[MdevFirst(MdevStr(s, "rx").cnt)[n]] = @ + 1]) ELSE Fail(o.s)) ELSE {o} : o \in X}
           Eq(f) == f = [n \in 0..Len(MdevFirst(MdevStr(s, "rx").cnt)) |-> IF n = 0 THEN Ok(s) ELSE B(n, f[n - 1])]
           G == [n \in 1..MdevCnt |-> [X \in SUBSET V[n - 1] |-> B(n, X)]]
           at == CHOOSE f : Eq(f)
<1>1. mstr_stream_recv(s) = at[Len(MdevFirst(MdevStr(s, "rx").cnt))]
  BY Zenon DEF mstr_stream_recv, ForEach, Then, MdevOn
<1>2. Len(MdevFirst(MdevStr(s, "rx").cnt)) = MdevCnt /\ MdevCnt \in Nat /\ \A n \in 1..MdevCnt : MdevFirst(MdevStr(s, "rx").cnt)[n] = n
  BY MdevFirstIs, MdevAssumption
<1>3. ASSUME NEW n \in 1..MdevCnt, NEW X \in SUBSET V[n - 1] PROVE B(n, X) \in SUBSET V[n]
  <2> SUFFICES ASSUME NEW x \in B(n, X) PROVE x \in V[n]
    OBVIOUS
  <2>1. PICK o \in X : x \in IF o.ok THEN (IF "rx" \in o.s.child[n] THEN Io(o.s, [o.s EXCEPT !.pos[n] = @ + 1]) ELSE Fail(o.s)) ELSE {o}
    BY <1>2, ZenonT(40)
  <2> QED BY <2>1
<1> HIDE DEF B
<1>4. \A n \in 1..MdevCnt : \A X \in SUBSET V[n - 1] : G[n][X] = B(n, X)
  OBVIOUS
<1> HIDE DEF G
<1>5. PICK f : /\ f = [n \in 0..MdevCnt |-> IF n = 0 THEN Ok(s) ELSE G[n][f[n - 1]]]
               /\ \A n \in 0..MdevCnt : f[n] \in SUBSET V[n]
  <2>1. ASSUME NEW n \in 1..MdevCnt, NEW X \in SUBSET V[n - 1] PROVE G[n][X] \in SUBSET V[n]
    <3>1. G[n][X] = B(n, X)
      BY <1>4
    <3> QED BY <1>3, <3>1
  <2>2. \E f : LoopIs(f, MdevCnt, Ok(s), V, G)
    BY <1>2, <2>1, LoopDefined, Zenon
  <2> QED BY <2>2 DEF LoopIs
<1>6. Eq(f)
  <2>1. ASSUME NEW n \in 0..MdevCnt
        PROVE  (IF n = 0 THEN Ok(s) ELSE G[n][f[n - 1]]) = (IF n = 0 THEN Ok(s) ELSE B(n, f[n - 1]))
    <3>1. CASE n # 0
      <4>1. n \in 1..MdevCnt /\ n - 1 \in 0..MdevCnt
        BY <1>2, <3>1
      <4> QED BY <1>4, <1>5, <4>1
    <3> QED BY <3>1
  <2>2. [n \in 0..MdevCnt |-> IF n = 0 THEN Ok(s) ELSE G[n][f[n - 1]]] =
          [n \in 0..MdevCnt |-> IF n = 0 THEN Ok(s) ELSE B(n, f[n - 1])]
    BY <2>1
  <2> QED BY <1>2, <1>5, <2>2
<1> HIDE DEF Eq
<1>7. Eq(at)
  BY <1>6
<1> HIDE DEF at
<1>8. at[0] = Ok(s) /\ \A n \in 1..MdevCnt : at[n] = B(n, at[n - 1])
  <2>1. at = [n \in 0..MdevCnt |-> IF n = 0 THEN Ok(s) ELSE B(n, at[n - 1])]
    BY <1>2, <1>7 DEF Eq
  <2>2. 0 \in 0..MdevCnt /\ \A n \in 1..MdevCnt : n \in 0..MdevCnt /\ n # 0
    BY <1>2
  <2> QED BY <2>1, <2>2, Zenon
<1>9. at[MdevCnt] \subseteq V[MdevCnt]
  <2>1. /\ at[0] \subseteq V[0]
        /\ \A n \in 1..MdevCnt : at[n - 1] \subseteq V[n - 1] => at[n] \subseteq V[n]
    BY <1>3, <1>8
  <2> QED BY <1>2, <2>1, LoopBound, Zenon
<1> QED BY <1>1, <1>2, <1>9


LEMMA MdevSendLoop ==
    ASSUME NEW s, MdevStr(s, "tx").cnt = MdevCnt, NEW V, Ok(s) \subseteq V[0],
           \A n \in 1..MdevCnt : \A o \in V[n - 1] :
               (IF o.ok THEN (IF "tx" \in o.s.child[n] THEN Io(o.s, o.s) ELSE Fail(o.s)) ELSE {o}) \subseteq V[n]
    PROVE  mstr_stream_send(s) \subseteq V[MdevCnt]
<1> DEFINE B(n, X) == UNION {IF o.ok THEN (IF "tx" \in o.s.child[MdevFirst(MdevStr(s, "tx").cnt)[n]] THEN Io(o.s, o.s) ELSE Fail(o.s)) ELSE {o} : o \in X}
           Eq(f) == f = [n \in 0..Len(MdevFirst(MdevStr(s, "tx").cnt)) |-> IF n = 0 THEN Ok(s) ELSE B(n, f[n - 1])]
           G == [n \in 1..MdevCnt |-> [X \in SUBSET V[n - 1] |-> B(n, X)]]
           at == CHOOSE f : Eq(f)
<1>1. mstr_stream_send(s) = at[Len(MdevFirst(MdevStr(s, "tx").cnt))]
  BY Zenon DEF mstr_stream_send, ForEach, Then, MdevOn
<1>2. Len(MdevFirst(MdevStr(s, "tx").cnt)) = MdevCnt /\ MdevCnt \in Nat /\ \A n \in 1..MdevCnt : MdevFirst(MdevStr(s, "tx").cnt)[n] = n
  BY MdevFirstIs, MdevAssumption
<1>3. ASSUME NEW n \in 1..MdevCnt, NEW X \in SUBSET V[n - 1] PROVE B(n, X) \in SUBSET V[n]
  <2> SUFFICES ASSUME NEW x \in B(n, X) PROVE x \in V[n]
    OBVIOUS
  <2>1. PICK o \in X : x \in IF o.ok THEN (IF "tx" \in o.s.child[n] THEN Io(o.s, o.s) ELSE Fail(o.s)) ELSE {o}
    BY <1>2
  <2> QED BY <2>1
<1> HIDE DEF B
<1>4. \A n \in 1..MdevCnt : \A X \in SUBSET V[n - 1] : G[n][X] = B(n, X)
  OBVIOUS
<1> HIDE DEF G
<1>5. PICK f : /\ f = [n \in 0..MdevCnt |-> IF n = 0 THEN Ok(s) ELSE G[n][f[n - 1]]]
               /\ \A n \in 0..MdevCnt : f[n] \in SUBSET V[n]
  <2>1. ASSUME NEW n \in 1..MdevCnt, NEW X \in SUBSET V[n - 1] PROVE G[n][X] \in SUBSET V[n]
    <3>1. G[n][X] = B(n, X)
      BY <1>4
    <3> QED BY <1>3, <3>1
  <2>2. \E f : LoopIs(f, MdevCnt, Ok(s), V, G)
    BY <1>2, <2>1, LoopDefined, Zenon
  <2> QED BY <2>2 DEF LoopIs
<1>6. Eq(f)
  <2>1. ASSUME NEW n \in 0..MdevCnt
        PROVE  (IF n = 0 THEN Ok(s) ELSE G[n][f[n - 1]]) = (IF n = 0 THEN Ok(s) ELSE B(n, f[n - 1]))
    <3>1. CASE n # 0
      <4>1. n \in 1..MdevCnt /\ n - 1 \in 0..MdevCnt
        BY <1>2, <3>1
      <4> QED BY <1>4, <1>5, <4>1
    <3> QED BY <3>1
  <2>2. [n \in 0..MdevCnt |-> IF n = 0 THEN Ok(s) ELSE G[n][f[n - 1]]] =
          [n \in 0..MdevCnt |-> IF n = 0 THEN Ok(s) ELSE B(n, f[n - 1])]
    BY <2>1
  <2> QED BY <1>2, <1>5, <2>2
<1> HIDE DEF Eq
<1>7. Eq(at)
  BY <1>6
<1> HIDE DEF at
<1>8. at[0] = Ok(s) /\ \A n \in 1..MdevCnt : at[n] = B(n, at[n - 1])
  <2>1. at = [n \in 0..MdevCnt |-> IF n = 0 THEN Ok(s) ELSE B(n, at[n - 1])]
    BY <1>2, <1>7 DEF Eq
  <2>2. 0 \in 0..MdevCnt /\ \A n \in 1..MdevCnt : n \in 0..MdevCnt /\ n # 0
    BY <1>2
  <2> QED BY <2>1, <2>2, Zenon
<1>9. at[MdevCnt] \subseteq V[MdevCnt]
  <2>1. /\ at[0] \subseteq V[0]
        /\ \A n \in 1..MdevCnt : at[n - 1] \subseteq V[n - 1] => at[n] \subseteq V[n]
    BY <1>3, <1>8
  <2> QED BY <1>2, <2>1, LoopBound, Zenon
<1> QED BY <1>1, <1>2, <1>9


LEMMA MdevFindsetLoop ==
    ASSUME NEW s, NEW stop, NEW vs \in Seq(Nat), NEW V, Ok(s) \subseteq V[0],
           \A n \in 1..Len(vs) : \A o \in V[n - 1] :
               (IF o.ok THEN (IF stop THEN mdev_obj_set_i64(o.s, vs[n]) ELSE Ignore(mdev_obj_set_i64(o.s, vs[n]))) ELSE {o}) \subseteq V[n]
    PROVE  usdr_dme_findsetv_uint(s, vs, stop) \subseteq V[Len(vs)]
<1> DEFINE B(n, X) == UNION {IF o.ok THEN (IF stop THEN mdev_obj_set_i64(o.s, vs[n]) ELSE Ignore(mdev_obj_set_i64(o.s, vs[n]))) ELSE {o} : o \in X}
           Eq(f) == f = [n \in 0..Len(vs) |-> IF n = 0 THEN Ok(s) ELSE B(n, f[n - 1])]
           G == [n \in 1..Len(vs) |-> [X \in SUBSET V[n - 1] |-> B(n, X)]]
           at == CHOOSE f : Eq(f)
<1>1. usdr_dme_findsetv_uint(s, vs, stop) = at[Len(vs)]
  BY Zenon DEF usdr_dme_findsetv_uint, ForEach, Then
<1>2. Len(vs) = Len(vs) /\ Len(vs) \in Nat /\ \A n \in 1..Len(vs) : vs[n] \in Nat
  OBVIOUS
<1>3. ASSUME NEW n \in 1..Len(vs), NEW X \in SUBSET V[n - 1] PROVE B(n, X) \in SUBSET V[n]
  <2> SUFFICES ASSUME NEW x \in B(n, X) PROVE x \in V[n]
    OBVIOUS
  <2>1. PICK o \in X : x \in IF o.ok THEN (IF stop THEN mdev_obj_set_i64(o.s, vs[n]) ELSE Ignore(mdev_obj_set_i64(o.s, vs[n]))) ELSE {o}
    BY <1>2
  <2> QED BY <2>1
<1> HIDE DEF B
<1>4. \A n \in 1..Len(vs) : \A X \in SUBSET V[n - 1] : G[n][X] = B(n, X)
  OBVIOUS
<1> HIDE DEF G
<1>5. PICK f : /\ f = [n \in 0..Len(vs) |-> IF n = 0 THEN Ok(s) ELSE G[n][f[n - 1]]]
               /\ \A n \in 0..Len(vs) : f[n] \in SUBSET V[n]
  <2>1. ASSUME NEW n \in 1..Len(vs), NEW X \in SUBSET V[n - 1] PROVE G[n][X] \in SUBSET V[n]
    <3>1. G[n][X] = B(n, X)
      BY <1>4
    <3> QED BY <1>3, <3>1
  <2>2. \E f : LoopIs(f, Len(vs), Ok(s), V, G)
    BY <1>2, <2>1, LoopDefined, Zenon
  <2> QED BY <2>2 DEF LoopIs
<1>6. Eq(f)
  <2>1. ASSUME NEW n \in 0..Len(vs)
        PROVE  (IF n = 0 THEN Ok(s) ELSE G[n][f[n - 1]]) = (IF n = 0 THEN Ok(s) ELSE B(n, f[n - 1]))
    <3>1. CASE n # 0
      <4>1. n \in 1..Len(vs) /\ n - 1 \in 0..Len(vs)
        BY <1>2, <3>1
      <4> QED BY <1>4, <1>5, <4>1
    <3> QED BY <3>1
  <2>2. [n \in 0..Len(vs) |-> IF n = 0 THEN Ok(s) ELSE G[n][f[n - 1]]] =
          [n \in 0..Len(vs) |-> IF n = 0 THEN Ok(s) ELSE B(n, f[n - 1])]
    BY <2>1
  <2> QED BY <1>2, <1>5, <2>2
<1> HIDE DEF Eq
<1>7. Eq(at)
  BY <1>6
<1> HIDE DEF at
<1>8. at[0] = Ok(s) /\ \A n \in 1..Len(vs) : at[n] = B(n, at[n - 1])
  <2>1. at = [n \in 0..Len(vs) |-> IF n = 0 THEN Ok(s) ELSE B(n, at[n - 1])]
    BY <1>2, <1>7 DEF Eq
  <2>2. 0 \in 0..Len(vs) /\ \A n \in 1..Len(vs) : n \in 0..Len(vs) /\ n # 0
    BY <1>2
  <2> QED BY <2>1, <2>2, Zenon
<1>9. at[Len(vs)] \subseteq V[Len(vs)]
  <2>1. /\ at[0] \subseteq V[0]
        /\ \A n \in 1..Len(vs) : at[n - 1] \subseteq V[n - 1] => at[n] \subseteq V[n]
    BY <1>3, <1>8
  <2> QED BY <1>2, <2>1, LoopBound, Zenon
<1> QED BY <1>1, <1>2, <1>9
-----------------------------------------------------------------------------
(* The records of an aggregate.                                            *)

MdevMarks == [MdevDevs -> BOOLEAN]
MdevStrs == [mask : MdevMarks, cnt : Nat, type : MdevSlots]

\* The states of the aggregate and the outcomes of its steps.
MdevRec ==
    [faults : Nat, calls : Nat, dm : {"none", "up", "hollow"}, leak : BOOLEAN, dbg : BOOLEAN, cnt : Nat,
     ll : MdevMarks, same : MdevMarks,
     real : [MdevSlots -> MdevMarks], str : [MdevSlots -> MdevStrs], held : SUBSET MdevSids,
     refused : SUBSET MdevSlots,
     child : [MdevDevs -> SUBSET MdevSids], run : [MdevDevs -> SUBSET MdevSids],
     pos : [MdevDevs -> Nat], val : [MdevDevs -> Nat]]

MdevOuts == [s : MdevRec, ok : BOOLEAN]

\* Nothing that tells which streams there are has changed.
MdevAlike(s, t) ==
    /\ t.calls = s.calls /\ t.dm = s.dm /\ t.leak = s.leak /\ t.cnt = s.cnt /\ t.ll = s.ll
    /\ t.real = s.real /\ t.held = s.held /\ t.child = s.child /\ t.str = s.str /\ t.refused = s.refused

\* Single assignments.
LEMMA MdevFaulty ==
    ASSUME NEW t \in MdevRec, NEW o \in Faulty(t)
    PROVE  o \in MdevOuts /\ ~o.ok /\ MdevAlike(t, o.s) /\ o.s.same = t.same
<1>1. t.faults # 0 /\ o = [s |-> [t EXCEPT !.faults = @ - 1], ok |-> FALSE]
  BY DEF Faulty, Fail
<1>2. [t EXCEPT !.faults = @ - 1] \in MdevRec
  BY <1>1 DEF MdevRec
<1>3. MdevAlike(t, [t EXCEPT !.faults = @ - 1]) /\ [t EXCEPT !.faults = @ - 1].same = t.same
  BY DEF MdevAlike, MdevRec
<1> QED BY <1>1, <1>2, <1>3 DEF MdevOuts

LEMMA MdevValSet ==
    ASSUME NEW t \in MdevRec, NEW i \in MdevDevs, NEW v \in Nat
    PROVE  LET u == [t EXCEPT !.val[i] = v] IN u \in MdevRec /\ MdevAlike(t, u)
BY DEF MdevRec, MdevAlike

LEMMA MdevPosSet ==
    ASSUME NEW t \in MdevRec, NEW i \in MdevDevs
    PROVE  LET u == [t EXCEPT !.pos[i] = @ + 1] IN u \in MdevRec /\ MdevAlike(t, u)
BY SMTT(30) DEF MdevRec, MdevAlike

LEMMA MdevRunSet ==
    ASSUME NEW t \in MdevRec, NEW i \in MdevDevs, NEW sid \in MdevSids, NEW on \in BOOLEAN
    PROVE  LET u == [t EXCEPT !.run[i] = IF on THEN @ \cup {sid} ELSE @ \ {sid}]
           IN  u \in MdevRec /\ MdevAlike(t, u)
BY DEF MdevRec, MdevAlike

LEMMA MdevStrSet ==
    ASSUME NEW t \in MdevRec, NEW k \in MdevSlots, NEW r \in MdevStrs
    PROVE  LET u == [t EXCEPT !.str[k] = r]
           IN  /\ u \in MdevRec /\ u.str = [t.str EXCEPT ![k] = r]
               /\ u.calls = t.calls /\ u.dm = t.dm /\ u.leak = t.leak /\ u.cnt = t.cnt /\ u.ll = t.ll
               /\ u.real = t.real /\ u.held = t.held /\ u.child = t.child /\ u.refused = t.refused
BY DEF MdevRec

\* Nothing but marks of the object k has changed.
MdevMarkedAnew(s, t, k) ==
    /\ t.calls = s.calls /\ t.dm = s.dm /\ t.leak = s.leak /\ t.cnt = s.cnt /\ t.ll = s.ll
    /\ t.real = s.real /\ t.held = s.held /\ t.child = s.child /\ t.refused = s.refused
    /\ \A l \in MdevSlots :
         /\ t.str[l].type = s.str[l].type /\ t.str[l].cnt = s.str[l].cnt
         /\ l # k => t.str[l].mask = s.str[l].mask

\* What the steps of mdev_create_stream leave: a mark, a stream on a device, the
\* handle, the note of a refusal.
MdevWithMarks(t, k, m) == [t EXCEPT !.str[k].mask = m]
MdevMark(t, k, i) == [t EXCEPT !.str[k].mask[i] = TRUE]
MdevUnmark(t, k, i) == [t EXCEPT !.str[k].mask[i] = FALSE]
MdevWithStream(t, k, i, sid) ==
    [[t EXCEPT !.child[i] = @ \cup {sid}] EXCEPT !.real[k][i] = TRUE, !.str[k].mask[i] = TRUE]
MdevWithHandle(t, k, sid) == [t EXCEPT !.str[k].type = k, !.str[k].cnt = MdevCnt, !.held = @ \cup {sid}]
MdevWithRefusal(t, k) == [t EXCEPT !.refused = @ \cup {k}]
MdevSansRefusal(t, k) == [t EXCEPT !.refused = @ \ {k}]

LEMMA MdevMaskSet ==
    ASSUME NEW t \in MdevRec, NEW k \in MdevSlots, NEW m \in MdevMarks
    PROVE  LET u == MdevWithMarks(t, k, m)
           IN  u \in MdevRec /\ MdevMarkedAnew(t, u, k) /\ u.str[k].mask = m
<1> DEFINE r == [t.str[k] EXCEPT !.mask = m]
           u == [t EXCEPT !.str[k] = r]
<1>1. t.str \in [MdevSlots -> MdevStrs]
  BY DEF MdevRec
<1>2. /\ r \in MdevStrs /\ r.type = t.str[k].type /\ r.cnt = t.str[k].cnt
      /\ r.mask = m
  BY <1>1 DEF MdevStrs
<1>3. MdevWithMarks(t, k, m) = u
  BY DEF MdevRec, MdevWithMarks
<1> HIDE DEF r
<1>4. /\ u \in MdevRec /\ u.str = [t.str EXCEPT ![k] = r]
      /\ u.calls = t.calls /\ u.dm = t.dm /\ u.leak = t.leak /\ u.cnt = t.cnt /\ u.ll = t.ll
      /\ u.real = t.real /\ u.held = t.held /\ u.child = t.child /\ u.refused = t.refused
  BY <1>2, MdevStrSet
<1> HIDE DEF u
<1>5. MdevMarkedAnew(t, u, k) /\ u.str[k].mask = m
  BY <1>1, <1>2, <1>4 DEF MdevMarkedAnew
<1> QED BY <1>3, <1>4, <1>5

LEMMA MdevMarkSet ==
    ASSUME NEW t \in MdevRec, NEW i \in MdevDevs, NEW k \in MdevSlots
    PROVE  LET u == MdevMark(t, k, i)
           IN  u \in MdevRec /\ MdevMarkedAnew(t, u, k) /\ u.str[k].mask = [t.str[k].mask EXCEPT ![i] = TRUE]
<1> DEFINE m == [t.str[k].mask EXCEPT ![i] = TRUE]
<1>1. MdevMark(t, k, i) = MdevWithMarks(t, k, m)
  BY DEF MdevMark, MdevWithMarks
<1>2. m \in MdevMarks
  BY DEF MdevRec, MdevStrs, MdevMarks
<1> HIDE DEF m
<1>3. LET u == MdevWithMarks(t, k, m)
      IN  u \in MdevRec /\ MdevMarkedAnew(t, u, k) /\ u.str[k].mask = m
  BY <1>2, MdevMaskSet
<1> QED BY <1>1, <1>3 DEF m

LEMMA MdevUnmarkSet ==
    ASSUME NEW t \in MdevRec, NEW i \in MdevDevs, NEW k \in MdevSlots
    PROVE  LET u == MdevUnmark(t, k, i)
           IN  u \in MdevRec /\ MdevMarkedAnew(t, u, k) /\ u.str[k].mask = [t.str[k].mask EXCEPT ![i] = FALSE]
<1> DEFINE m == [t.str[k].mask EXCEPT ![i] = FALSE]
<1>1. MdevUnmark(t, k, i) = MdevWithMarks(t, k, m)
  BY DEF MdevUnmark, MdevWithMarks
<1>2. m \in MdevMarks
  BY DEF MdevRec, MdevStrs, MdevMarks
<1> HIDE DEF m
<1>3. LET u == MdevWithMarks(t, k, m)
      IN  u \in MdevRec /\ MdevMarkedAnew(t, u, k) /\ u.str[k].mask = m
  BY <1>2, MdevMaskSet
<1> QED BY <1>1, <1>3 DEF m

LEMMA MdevAlikeThen ==
    ASSUME NEW s, NEW t, NEW u, MdevAlike(s, t), MdevAlike(t, u) PROVE MdevAlike(s, u)
BY DEF MdevAlike
LEMMA MdevAlikeSame == ASSUME NEW s PROVE MdevAlike(s, s)
BY DEF MdevAlike

\* The outcomes after which the same streams are there as in s.
MdevLike(s) == {o \in MdevOuts : MdevAlike(s, o.s)}

LEMMA MdevLikeOk ==
    ASSUME NEW s, NEW t \in MdevRec, MdevAlike(s, t) PROVE Ok(t) \subseteq MdevLike(s) /\ Fail(t) \subseteq MdevLike(s)
BY DEF Ok, Fail, MdevLike, MdevOuts

LEMMA MdevLikeIo ==
    ASSUME NEW s, NEW t \in MdevRec, NEW u \in MdevRec, MdevAlike(s, t), MdevAlike(s, u)
    PROVE  Io(t, u) \subseteq MdevLike(s)
<1>1. Faulty(t) \subseteq MdevLike(s)
  BY MdevFaulty, MdevAlikeThen DEF MdevLike
<1> QED BY <1>1, MdevLikeOk DEF Io

LEMMA MdevLikeIs ==
    ASSUME NEW s, NEW o \in MdevLike(s) PROVE o.s \in MdevRec /\ MdevAlike(s, o.s) /\ o.ok \in BOOLEAN
BY DEF MdevLike, MdevOuts
-----------------------------------------------------------------------------
\* Operations that leave the streams as they are.
LEMMA MdevSetAlike ==
    ASSUME NEW s, NEW t \in MdevRec, MdevAlike(s, t), NEW v \in Nat
    PROVE  mdev_obj_set_i64(t, v) \subseteq MdevLike(s)
<1> DEFINE V == [n \in 0..MdevCnt |-> MdevLike(s)]
<1>1. Ok(t) \subseteq V[0] /\ V[MdevCnt] = MdevLike(s)
  BY MdevLikeOk, MdevAssumption
<1>2. ASSUME NEW n \in 1..MdevCnt, NEW o \in V[n - 1]
      PROVE  (IF o.ok THEN Io(o.s, [o.s EXCEPT !.val[n] = v]) ELSE {o}) \subseteq V[n]
  <2>1. o \in MdevLike(s) /\ V[n] = MdevLike(s) /\ n \in MdevDevs
    BY MdevAssumption DEF MdevDevs
  <2> HIDE DEF V
  <2>2. o.s \in MdevRec /\ MdevAlike(s, o.s)
    BY <2>1, MdevLikeIs
  <2> DEFINE u == [o.s EXCEPT !.val[n] = v]
  <2>3. u \in MdevRec /\ MdevAlike(o.s, u)
    BY <2>1, <2>2, MdevValSet
  <2> HIDE DEF u
  <2>4. Io(o.s, u) \subseteq MdevLike(s)
    BY <2>2, <2>3, MdevAlikeThen, MdevLikeIo
  <2> QED BY <2>1, <2>4 DEF u
<1> HIDE DEF V
<1> QED BY <1>1, <1>2, MdevSetLoop, Zenon

LEMMA MdevOpAlike ==
    ASSUME NEW s \in MdevRec, NEW sid \in MdevSids, NEW on \in BOOLEAN
    PROVE  mstr_stream_op(s, sid, on) \subseteq MdevLike(s)
<1> DEFINE V == [n \in 0..MdevCnt |-> MdevLike(s)]
<1>1. Ok(s) \subseteq V[0] /\ V[MdevCnt] = MdevLike(s)
  <2>1. Ok(s) \subseteq MdevLike(s)
    BY MdevLikeOk, MdevAlikeSame
  <2>2. V[0] = MdevLike(s) /\ V[MdevCnt] = MdevLike(s)
    BY MdevAssumption
  <2> QED BY <2>1, <2>2
<1>2. ASSUME NEW n \in 1..MdevCnt, NEW o \in V[n - 1]
      PROVE  (IF o.ok THEN (IF ~MdevMarked(s, sid, n) THEN Ok(o.s) ELSE IF sid \in o.s.child[n] THEN Io(o.s, [o.s EXCEPT !.run[n] = IF on THEN @ \cup {sid} ELSE @ \ {sid}]) ELSE Fail(o.s)) ELSE {o}) \subseteq V[n]
  <2>1. o \in MdevLike(s) /\ V[n] = MdevLike(s) /\ n \in MdevDevs
    BY MdevAssumption DEF MdevDevs
  <2> HIDE DEF V
  <2>2. o.s \in MdevRec /\ MdevAlike(s, o.s)
    BY <2>1, MdevLikeIs
  <2> DEFINE u == [o.s EXCEPT !.run[n] = IF on THEN @ \cup {sid} ELSE @ \ {sid}]
  <2>3. u \in MdevRec /\ MdevAlike(o.s, u)
    BY <2>1, <2>2, MdevRunSet
  <2> HIDE DEF u
  <2>4. Io(o.s, u) \subseteq MdevLike(s) /\ Ok(o.s) \subseteq MdevLike(s) /\ Fail(o.s) \subseteq MdevLike(s)
    BY <2>2, <2>3, MdevAlikeThen, MdevLikeIo, MdevLikeOk
  <2> QED BY <2>1, <2>4 DEF u
<1> HIDE DEF V
<1>3. mstr_stream_op(s, sid, on) \subseteq V[MdevCnt]
  BY <1>1, <1>2, MdevOpLoop
<1> QED BY <1>1, <1>3

LEMMA MdevRecvAlike ==
    ASSUME NEW s \in MdevRec, MdevStr(s, "rx").cnt = MdevCnt
    PROVE  mstr_stream_recv(s) \subseteq MdevLike(s)
<1> DEFINE V == [n \in 0..MdevCnt |-> MdevLike(s)]
<1>1. Ok(s) \subseteq V[0] /\ V[MdevCnt] = MdevLike(s)
  <2>1. Ok(s) \subseteq MdevLike(s)
    BY MdevLikeOk, MdevAlikeSame
  <2>2. V[0] = MdevLike(s) /\ V[MdevCnt] = MdevLike(s)
    BY MdevAssumption
  <2> QED BY <2>1, <2>2
<1>2. ASSUME NEW n \in 1..MdevCnt, NEW o \in V[n - 1]
      PROVE  (IF o.ok THEN (IF "rx" \in o.s.child[n] THEN Io(o.s, [o.s EXCEPT !.pos[n] = @ + 1]) ELSE Fail(o.s)) ELSE {o}) \subseteq V[n]
  <2>1. o \in MdevLike(s) /\ V[n] = MdevLike(s) /\ n \in MdevDevs
    BY MdevAssumption DEF MdevDevs
  <2> HIDE DEF V
  <2>2. o.s \in MdevRec /\ MdevAlike(s, o.s)
    BY <2>1, MdevLikeIs
  <2> DEFINE u == [o.s EXCEPT !.pos[n] = @ + 1]
  <2>3. u \in MdevRec /\ MdevAlike(o.s, u)
    BY <2>1, <2>2, MdevPosSet
  <2> HIDE DEF u
  <2>4. Io(o.s, u) \subseteq MdevLike(s) /\ Ok(o.s) \subseteq MdevLike(s) /\ Fail(o.s) \subseteq MdevLike(s)
    BY <2>2, <2>3, MdevAlikeThen, MdevLikeIo, MdevLikeOk
  <2> QED BY <2>1, <2>4 DEF u
<1> HIDE DEF V
<1>3. mstr_stream_recv(s) \subseteq V[MdevCnt]
  BY <1>1, <1>2, MdevRecvLoop
<1> QED BY <1>1, <1>3

LEMMA MdevSendAlike ==
    ASSUME NEW s \in MdevRec, MdevStr(s, "tx").cnt = MdevCnt
    PROVE  mstr_stream_send(s) \subseteq MdevLike(s)
<1> DEFINE V == [n \in 0..MdevCnt |-> MdevLike(s)]
<1>1. Ok(s) \subseteq V[0] /\ V[MdevCnt] = MdevLike(s)
  <2>1. Ok(s) \subseteq MdevLike(s)
    BY MdevLikeOk, MdevAlikeSame
  <2>2. V[0] = MdevLike(s) /\ V[MdevCnt] = MdevLike(s)
    BY MdevAssumption
  <2> QED BY <2>1, <2>2
<1>2. ASSUME NEW n \in 1..MdevCnt, NEW o \in V[n - 1]
      PROVE  (IF o.ok THEN (IF "tx" \in o.s.child[n] THEN Io(o.s, o.s) ELSE Fail(o.s)) ELSE {o}) \subseteq V[n]
  <2>1. o \in MdevLike(s) /\ V[n] = MdevLike(s) /\ n \in MdevDevs
    BY MdevAssumption DEF MdevDevs
  <2> HIDE DEF V
  <2>2. o.s \in MdevRec /\ MdevAlike(s, o.s)
    BY <2>1, MdevLikeIs
  <2>3. Io(o.s, o.s) \subseteq MdevLike(s) /\ Ok(o.s) \subseteq MdevLike(s) /\ Fail(o.s) \subseteq MdevLike(s)
    BY <2>2, MdevLikeIo, MdevLikeOk
  <2> QED BY <2>1, <2>3
<1> HIDE DEF V
<1>3. mstr_stream_send(s) \subseteq V[MdevCnt]
  BY <1>1, <1>2, MdevSendLoop
<1> QED BY <1>1, <1>3

LEMMA MdevSyncAllAlike ==
    ASSUME NEW s \in MdevRec, NEW sids
    PROVE  MdevSyncAll(s, sids) \subseteq MdevLike(s)
<1> DEFINE V == [n \in 0..MdevCnt |-> MdevLike(s)]
<1>1. Ok(s) \subseteq V[0] /\ V[MdevCnt] = MdevLike(s)
  <2>1. Ok(s) \subseteq MdevLike(s)
    BY MdevLikeOk, MdevAlikeSame
  <2>2. V[0] = MdevLike(s) /\ V[MdevCnt] = MdevLike(s)
    BY MdevAssumption
  <2> QED BY <2>1, <2>2
<1>2. ASSUME NEW n \in 1..MdevCnt, NEW o \in V[n - 1]
      PROVE  (IF o.ok THEN (IF \A sid \in sids : MdevMarked(s, sid, n) THEN Io(o.s, o.s) ELSE Ok(o.s)) ELSE {o}) \subseteq V[n]
  <2>1. o \in MdevLike(s) /\ V[n] = MdevLike(s) /\ n \in MdevDevs
    BY MdevAssumption DEF MdevDevs
  <2> HIDE DEF V
  <2>2. o.s \in MdevRec /\ MdevAlike(s, o.s)
    BY <2>1, MdevLikeIs
  <2>3. Io(o.s, o.s) \subseteq MdevLike(s) /\ Ok(o.s) \subseteq MdevLike(s) /\ Fail(o.s) \subseteq MdevLike(s)
    BY <2>2, MdevLikeIo, MdevLikeOk
  <2> QED BY <2>1, <2>3
<1> HIDE DEF V
<1>3. MdevSyncAll(s, sids) \subseteq V[MdevCnt]
  BY <1>1, <1>2, MdevSyncLoop
<1> QED BY <1>1, <1>3

LEMMA MdevSyncAlike ==
    ASSUME NEW s \in MdevRec, NEW sids, NEW type
    PROVE  mdev_stream_sync(s, sids, type) \subseteq MdevLike(s)
<1> DEFINE Last(o) == IF o.ok THEN IF type = "sysref" THEN Io(o.s, o.s) ELSE Ok(o.s) ELSE {o}
<1>1. mdev_stream_sync(s, sids, type) =
        IF type = "sysref+gen" \/ sids = {} THEN Fail(s) ELSE UNION {Last(o) : o \in MdevSyncAll(s, sids)}
  BY Zenon DEF mdev_stream_sync, MdevSyncAll, ForEach, Then
<1>2. ASSUME NEW o \in MdevSyncAll(s, sids) PROVE Last(o) \subseteq MdevLike(s)
  <2>1. o \in MdevLike(s)
    BY MdevSyncAllAlike
  <2> QED BY <2>1, MdevLikeIs, MdevLikeIo, MdevLikeOk
<1>3. Fail(s) \subseteq MdevLike(s)
  BY MdevLikeOk, MdevAlikeSame
<1> HIDE DEF Last
<1> QED BY <1>1, <1>2, <1>3

LEMMA MdevFindsetAlike ==
    ASSUME NEW s \in MdevRec, NEW vs \in Seq(Nat), NEW stop \in BOOLEAN
    PROVE  usdr_dme_findsetv_uint(s, vs, stop) \subseteq MdevLike(s)
<1> DEFINE V == [n \in 0..Len(vs) |-> MdevLike(s)]
<1>1. Ok(s) \subseteq V[0] /\ V[Len(vs)] = MdevLike(s)
  <2>1. Ok(s) \subseteq MdevLike(s)
    BY MdevLikeOk, MdevAlikeSame
  <2>2. V[0] = MdevLike(s) /\ V[Len(vs)] = MdevLike(s)
    BY MdevAssumption
  <2> QED BY <2>1, <2>2
<1>2. ASSUME NEW n \in 1..Len(vs), NEW o \in V[n - 1]
      PROVE  (IF o.ok THEN (IF stop THEN mdev_obj_set_i64(o.s, vs[n]) ELSE Ignore(mdev_obj_set_i64(o.s, vs[n]))) ELSE {o}) \subseteq V[n]
  <2>1. o \in MdevLike(s) /\ V[n] = MdevLike(s) /\ vs[n] \in Nat
    BY MdevAssumption DEF MdevDevs
  <2> HIDE DEF V
  <2>2. o.s \in MdevRec /\ MdevAlike(s, o.s)
    BY <2>1, MdevLikeIs
  <2>3. mdev_obj_set_i64(o.s, vs[n]) \subseteq MdevLike(s)
    BY <2>1, <2>2, MdevSetAlike
  <2>4. Ignore(mdev_obj_set_i64(o.s, vs[n])) \subseteq MdevLike(s)
    <3>1. \A p \in MdevLike(s) : [p EXCEPT !.ok = TRUE] \in MdevLike(s)
      BY DEF MdevLike, MdevOuts
    <3> QED BY <2>3, <3>1 DEF Ignore
  <2> QED BY <2>1, <2>3, <2>4
<1> HIDE DEF V
<1>3. usdr_dme_findsetv_uint(s, vs, stop) \subseteq V[Len(vs)]
  BY <1>1, <1>2, MdevFindsetLoop
<1> QED BY <1>1, <1>3
-----------------------------------------------------------------------------
\* Each array slot belongs to one name: what is kept in it is what the device
\* has under that name.
MdevPaired(s) ==
    \A i \in MdevDevs :
        /\ "aux" \notin s.child[i]
        /\ s.real["tx"][i] <=> "rx" \in s.child[i]
        /\ s.real["rx"][i] <=> "tx" \in s.child[i]

\* The stream with this name is there on every device, and known as such; the
\* mark of the first is lost to a refused creation only.
MdevThere(s, sid) ==
    /\ MdevStr(s, sid).type = MdevSlotOf(sid) /\ MdevStr(s, sid).cnt = MdevCnt
    /\ \A i \in MdevDevs : /\ sid \in s.child[i]
                           /\ MdevMarked(s, sid, i) \/ (i = 1 /\ MdevSlotOf(sid) \in s.refused)

\* Held streams are there; an open aggregate has all its devices, and one that
\* is not open has none unless it was left by a failed debug service.
MdevOK(s) ==
    /\ MdevPaired(s)
    /\ \A sid \in s.held : MdevThere(s, sid)
    /\ s.dm = "up" => s.cnt = MdevCnt /\ \A i \in MdevDevs : s.ll[i]
    /\ s.dm # "up" => s.held = {}
    /\ s.dm # "up" /\ ~s.leak => \A i \in MdevDevs : ~s.ll[i] /\ s.child[i] = {}

MdevInv == mdev \in MdevRec /\ MdevOK(mdev)

\* The type a stream is found by is not the one of its name.
LEMMA MdevSlotFacts ==
    /\ \A sid \in MdevSids : MdevSlotOf(sid) \in MdevSlots
    /\ MdevSlotOf("rx") = "tx" /\ MdevSlotOf("tx") = "rx" /\ MdevSlotOf("aux") = "rx"
BY DEF MdevSids, MdevSlots, MdevSlotOf

\* What leaves the streams as they are keeps the invariant.
LEMMA MdevAlikeOK ==
    ASSUME NEW s \in MdevRec, MdevOK(s), NEW t \in MdevRec, MdevAlike(s, t) PROVE MdevOK(t)
<1>1. MdevPaired(t)
  BY DEF MdevAlike, MdevOK, MdevPaired
<1>2. ASSUME NEW sid \in t.held PROVE MdevThere(t, sid)
  <2>1. sid \in s.held /\ sid \in MdevSids
    BY DEF MdevAlike, MdevRec
  <2>2. MdevThere(s, sid)
    BY <2>1 DEF MdevOK
  <2> QED BY <2>1, <2>2 DEF MdevAlike, MdevThere, MdevStr, MdevMarked
<1> QED BY <1>1, <1>2 DEF MdevAlike, MdevOK

\* A call that ends in one of the outcomes S.
LEMMA MdevDone ==
    ASSUME NEW S, MdevMay, mdev \in MdevRec, MdevDo(S),
           \A o \in S : o.s \in MdevRec /\ MdevOK(o.s) /\ o.s.calls = mdev.calls
    PROVE  MdevInv'
<1>1. PICK o \in S : mdev' = [o.s EXCEPT !.calls = @ - 1]
  BY DEF MdevDo
<1>2. o.s \in MdevRec /\ MdevOK(o.s) /\ o.s.calls = mdev.calls
  BY <1>1
<1>3. o.s.calls - 1 \in Nat
  <2>1. mdev.calls \in Nat /\ mdev.calls > 0
    BY DEF MdevMay, MdevRec
  <2> QED BY <1>2, <2>1
<1>4. mdev' \in MdevRec
  BY <1>1, <1>2, <1>3 DEF MdevRec
<1>5. /\ mdev'.dm = o.s.dm /\ mdev'.leak = o.s.leak /\ mdev'.cnt = o.s.cnt /\ mdev'.ll = o.s.ll
      /\ mdev'.real = o.s.real /\ mdev'.held = o.s.held /\ mdev'.child = o.s.child /\ mdev'.str = o.s.str
      /\ mdev'.refused = o.s.refused
  BY <1>1, <1>2 DEF MdevRec
<1>6. MdevOK(mdev')
  BY <1>2, <1>5 DEF MdevOK, MdevPaired, MdevThere, MdevStr, MdevMarked
<1> QED BY <1>4, <1>6 DEF MdevInv

LEMMA MdevDoneLike ==
    ASSUME MdevInv, NEW S, MdevMay, MdevDo(S), S \subseteq MdevLike(mdev) PROVE MdevInv'
<1>1. ASSUME NEW o \in S PROVE o.s \in MdevRec /\ MdevOK(o.s) /\ o.s.calls = mdev.calls
  <2>1. o.s \in MdevRec /\ MdevAlike(mdev, o.s)
    BY MdevLikeIs
  <2> QED BY <2>1, MdevAlikeOK DEF MdevInv, MdevAlike
<1> QED BY <1>1, MdevDone DEF MdevInv

LEMMA MdevInitially == MdevInit => MdevInv
<1> SUFFICES ASSUME MdevInit PROVE MdevInv
  OBVIOUS
<1>1. mdev = MdevFresh
  BY DEF MdevInit
<1>2. MdevNoStr \in MdevStrs /\ MdevNo \in MdevMarks
  BY DEF MdevNoStr, MdevNo, MdevStrs, MdevMarks, MdevSlots
<1>3. MdevFresh \in MdevRec
  BY <1>2, MdevAssumption DEF MdevFresh, MdevRec, MdevMarks
<1>4. MdevOK(MdevFresh)
  BY DEF MdevFresh, MdevOK, MdevPaired, MdevNo, MdevSlots
<1> QED BY <1>1, <1>3, <1>4 DEF MdevInv
-----------------------------------------------------------------------------
\* usdr_dmd_close, mdev_unregister_stream
LEMMA MdevCloseInv ==
    ASSUME MdevInv, MdevClose PROVE MdevInv'
<1> DEFINE s == mdev
           D == {i \in 1..s.cnt : s.ll[i]}
           t == [mdev_generic_destroy(IF s.dbg THEN usdr_dif_free(s) ELSE s)
                 EXCEPT !.dm = "none", !.cnt = 0, !.held = {}, !.refused = {}, !.real = MdevFresh.real, !.str = MdevFresh.str,
                        !.pos = MdevFresh.pos, !.val = MdevFresh.val]
<1>1. s \in MdevRec /\ MdevOK(s) /\ MdevMay /\ s.dm = "up" /\ MdevDo(Ok(t))
  BY DEF MdevInv, MdevClose, MdevUp, usdr_dmd_close
<1>2. D = MdevDevs
  BY <1>1 DEF MdevOK, MdevDevs
<1>3. PICK u : u = IF s.dbg THEN usdr_dif_free(s) ELSE s
  OBVIOUS
<1>4. u \in MdevRec /\ u.cnt = s.cnt /\ u.ll = s.ll /\ u.calls = s.calls /\ u.leak = s.leak
  BY <1>1, <1>3 DEF usdr_dif_free, MdevRec
<1>5. mdev_generic_destroy(u) = MdevDestroyAll(u, MdevDevs)
  BY <1>2, <1>4 DEF mdev_generic_destroy
<1>6. PICK w : w = MdevDestroyAll(u, MdevDevs)
  OBVIOUS
<1>7. /\ w \in MdevRec /\ w.calls = s.calls /\ w.leak = s.leak
      /\ w.ll = MdevNo /\ w.child = [i \in MdevDevs |-> {}]
  BY <1>4, <1>6 DEF MdevDestroyAll, MdevRec, MdevMarks, MdevNo
<1>8. t = [w EXCEPT !.dm = "none", !.cnt = 0, !.held = {}, !.refused = {}, !.real = MdevFresh.real, !.str = MdevFresh.str,
                    !.pos = MdevFresh.pos, !.val = MdevFresh.val]
  BY <1>3, <1>5, <1>6
<1> HIDE DEF t
<1>9. /\ MdevFresh.real = [k \in MdevSlots |-> MdevNo] /\ MdevFresh.str \in [MdevSlots -> MdevStrs]
      /\ MdevFresh.pos \in [MdevDevs -> Nat] /\ MdevFresh.val \in [MdevDevs -> Nat] /\ MdevNo \in MdevMarks
  BY DEF MdevFresh, MdevNoStr, MdevNo, MdevStrs, MdevMarks, MdevSlots
<1>10. /\ t \in MdevRec /\ t.calls = s.calls /\ t.leak = s.leak /\ t.dm = "none" /\ t.held = {}
       /\ t.ll = MdevNo /\ t.child = [i \in MdevDevs |-> {}] /\ t.real = [k \in MdevSlots |-> MdevNo]
  BY <1>7, <1>8, <1>9 DEF MdevRec
<1>11. MdevOK(t)
  BY <1>10 DEF MdevOK, MdevPaired, MdevNo, MdevSlots
<1> QED BY <1>1, <1>10, <1>11, MdevDone DEF Ok

LEMMA MdevDestroyInv ==
    ASSUME MdevInv, MdevDestroy PROVE MdevInv'
<1> DEFINE s == mdev
<1>1. PICK sid \in s.held : MdevDo(mdev_unregister_stream(s, sid))
  BY DEF MdevDestroy
<1>2. s \in MdevRec /\ MdevOK(s) /\ MdevMay /\ s.dm = "up" /\ sid \in MdevSids
  BY DEF MdevInv, MdevDestroy, MdevUp, MdevRec
<1>3. PICK k, name : k = MdevSlotOf(sid) /\ name = CHOOSE n \in {"rx", "tx"} : MdevSlotOf(n) = k
  OBVIOUS
<1>4. /\ MdevStr(s, sid).type = k /\ MdevStr(s, sid).cnt = MdevCnt /\ k \in MdevSlots
      /\ name \in {"rx", "tx"} /\ MdevSlotOf(name) = k
  BY <1>2, <1>3, MdevSlotFacts DEF MdevOK, MdevThere, MdevSlots
<1> DEFINE t == [s EXCEPT !.real[k] = [i \in MdevDevs |-> @[i] /\ i \notin MdevDevs],
                     !.child = [i \in MdevDevs |-> IF i \in MdevDevs THEN @[i] \ {name} ELSE @[i]],
                     !.run = [i \in MdevDevs |-> IF i \in MdevDevs THEN @[i] \ {name} ELSE @[i]],
                     !.pos = IF name = "rx" THEN MdevFresh.pos ELSE @,
                     !.held = @ \ {sid}]
<1>5. mdev_unregister_stream(s, sid) = Ok(t)
  BY <1>3, <1>4 DEF mdev_unregister_stream, MdevDevs
<1>6. MdevFresh.pos \in [MdevDevs -> Nat]
  BY DEF MdevFresh
<1>7. /\ t.real = [s.real EXCEPT ![k] = MdevNo]
      /\ t.child = [i \in MdevDevs |-> s.child[i] \ {name}] /\ t.held = s.held \ {sid}
      /\ t.calls = s.calls /\ t.dm = s.dm /\ t.leak = s.leak /\ t.cnt = s.cnt /\ t.ll = s.ll /\ t.str = s.str
      /\ t.refused = s.refused
  BY <1>2, <1>4 DEF MdevRec, MdevMarks, MdevNo
<1>8. t \in MdevRec
  BY <1>2, <1>4, <1>6 DEF MdevRec, MdevMarks
<1> HIDE DEF t
<1>9. MdevPaired(t)
  BY <1>2, <1>4, <1>7, MdevSlotFacts DEF MdevOK, MdevPaired, MdevNo, MdevRec, MdevMarks, MdevSlots
<1>10. ASSUME NEW x \in t.held PROVE MdevThere(t, x)
  <2>1. x \in s.held /\ x # sid /\ x \in MdevSids
    BY <1>2, <1>7 DEF MdevRec
  <2>2. MdevThere(s, x)
    BY <1>2, <2>1 DEF MdevOK
  <2>3. ASSUME NEW i \in MdevDevs PROVE x # name
    <3>1. x # "aux" /\ sid # "aux"
      BY <1>2, <2>1 DEF MdevOK, MdevThere, MdevPaired
    <3> QED BY <1>2, <1>3, <1>4, <2>1, <3>1, MdevSlotFacts DEF MdevSids
  <2> QED BY <1>7, <2>2, <2>3 DEF MdevThere, MdevStr, MdevMarked
<1>11. MdevOK(t)
  BY <1>2, <1>7, <1>9, <1>10 DEF MdevOK
<1> QED BY <1>1, <1>2, <1>5, <1>7, <1>8, <1>11, MdevDone DEF Ok
-----------------------------------------------------------------------------
\* mdev_create_stream for the object k: the streams made before a failure stay,
\* paired, and the marks of the other object.
MdevGrown(s, t, k) ==
    /\ t.calls = s.calls /\ t.dm = s.dm /\ t.leak = s.leak /\ t.cnt = s.cnt /\ t.ll = s.ll /\ t.held = s.held
    /\ t.refused = s.refused
    /\ \A l \in MdevSlots :
         /\ t.str[l].type = s.str[l].type /\ t.str[l].cnt = s.str[l].cnt
         /\ l # k => t.str[l].mask = s.str[l].mask
    /\ MdevPaired(t)
    /\ \A i \in MdevDevs : s.child[i] \subseteq t.child[i]

LEMMA MdevGrownThen ==
    ASSUME NEW s, NEW t, NEW u, NEW k, MdevGrown(s, t, k), MdevGrown(t, u, k) PROVE MdevGrown(s, u, k)
BY DEF MdevGrown

LEMMA MdevAlikeGrown ==
    ASSUME NEW t, NEW u, NEW k, MdevPaired(t), MdevAlike(t, u) \/ MdevMarkedAnew(t, u, k)
    PROVE  MdevGrown(t, u, k) /\ u.child = t.child
BY DEF MdevAlike, MdevMarkedAnew, MdevGrown, MdevPaired

\* One more stream on one device.
LEMMA MdevGrow ==
    ASSUME NEW t \in MdevRec, MdevPaired(t), NEW i \in MdevDevs, NEW sid \in {"rx", "tx"},
           NEW k, k = MdevSlotOf(sid),
           NEW q, q = MdevWithStream(t, k, i, sid)
    PROVE  /\ q \in MdevRec /\ MdevGrown(t, q, k)
           /\ \A j \in MdevDevs : sid \in q.child[j] <=> j = i \/ sid \in t.child[j]
           /\ q.str[k].mask = [t.str[k].mask EXCEPT ![i] = TRUE]
<1> DEFINE v == [t EXCEPT !.child[i] = @ \cup {sid}]
           x == [v EXCEPT !.real[k][i] = TRUE]
           w == [x EXCEPT !.str[k].mask[i] = TRUE]
<1>12. q = w
  BY DEF MdevWithStream
<1>1. k \in MdevSlots /\ sid \in MdevSids /\ (k = "tx" <=> sid = "rx") /\ (k = "rx" <=> sid = "tx")
  BY MdevSlotFacts DEF MdevSlots, MdevSids
<1>2. /\ v \in MdevRec /\ v.child = [t.child EXCEPT ![i] = @ \cup {sid}] /\ v.real = t.real /\ v.str = t.str
      /\ v.calls = t.calls /\ v.dm = t.dm /\ v.leak = t.leak /\ v.cnt = t.cnt /\ v.ll = t.ll /\ v.held = t.held
      /\ v.refused = t.refused
  BY <1>1 DEF MdevRec
<1> HIDE DEF v
<1>3. /\ x \in MdevRec /\ x.child = v.child /\ x.real = [v.real EXCEPT ![k][i] = TRUE] /\ x.str = v.str
      /\ x.calls = v.calls /\ x.dm = v.dm /\ x.leak = v.leak /\ x.cnt = v.cnt /\ x.ll = v.ll /\ x.held = v.held
      /\ x.refused = v.refused
  BY <1>1, <1>2 DEF MdevRec, MdevMarks
<1> HIDE DEF x
<1>5. w = MdevMark(x, k, i)
  BY DEF MdevMark
<1> HIDE DEF w
<1>4. w \in MdevRec /\ MdevMarkedAnew(x, w, k) /\ w.str[k].mask = [x.str[k].mask EXCEPT ![i] = TRUE]
  BY <1>1, <1>3, <1>5, MdevMarkSet
<1>6. t.child \in [MdevDevs -> SUBSET MdevSids] /\ t.real \in [MdevSlots -> [MdevDevs -> BOOLEAN]]
  BY DEF MdevRec, MdevMarks
<1>7. /\ \A j \in MdevDevs : w.child[j] = IF j = i THEN t.child[j] \cup {sid} ELSE t.child[j]
      /\ \A l \in MdevSlots, j \in MdevDevs : w.real[l][j] = IF l = k /\ j = i THEN TRUE ELSE t.real[l][j]
  <2>1. w.child = v.child /\ w.real = x.real
    BY <1>3, <1>4 DEF MdevMarkedAnew
  <2>2. \A j \in MdevDevs : w.child[j] = IF j = i THEN t.child[j] \cup {sid} ELSE t.child[j]
    BY <1>2, <1>6, <2>1
  <2>3. w.real = [t.real EXCEPT ![k][i] = TRUE]
    BY <1>2, <1>3, <2>1
  <2>4. \A l \in MdevSlots, j \in MdevDevs : w.real[l][j] = IF l = k /\ j = i THEN TRUE ELSE t.real[l][j]
    <3>1. PICK a \in [MdevDevs -> BOOLEAN] : a = t.real[k]
      BY <1>1, <1>6
    <3>2. w.real = [t.real EXCEPT ![k] = [a EXCEPT ![i] = TRUE]]
      BY <1>6, <2>3, <3>1
    <3>3. \A l \in MdevSlots : w.real[l] = IF l = k THEN [a EXCEPT ![i] = TRUE] ELSE t.real[l]
      BY <1>1, <1>6, <3>2
    <3>4. \A j \in MdevDevs : [a EXCEPT ![i] = TRUE][j] = IF j = i THEN TRUE ELSE a[j]
      BY Zenon
    <3> QED BY <3>1, <3>3, <3>4
  <2> QED BY <2>2, <2>4
<1>8. MdevPaired(w)
  <2> SUFFICES ASSUME NEW j \in MdevDevs
               PROVE  /\ "aux" \notin w.child[j]
                      /\ w.real["tx"][j] <=> "rx" \in w.child[j]
                      /\ w.real["rx"][j] <=> "tx" \in w.child[j]
    BY DEF MdevPaired
  <2>1. /\ "aux" \notin t.child[j]
        /\ t.real["tx"][j] <=> "rx" \in t.child[j]
        /\ t.real["rx"][j] <=> "tx" \in t.child[j]
    BY DEF MdevPaired
  <2>2. CASE j # i
    <3>1. w.child[j] = t.child[j] /\ w.real["tx"][j] = t.real["tx"][j] /\ w.real["rx"][j] = t.real["rx"][j]
      BY <1>7, <2>2 DEF MdevSlots
    <3> QED BY <2>1, <3>1
  <2>3. CASE j = i
    <3>1. /\ w.child[j] = t.child[j] \cup {sid}
          /\ w.real["tx"][j] = IF k = "tx" THEN TRUE ELSE t.real["tx"][j]
          /\ w.real["rx"][j] = IF k = "rx" THEN TRUE ELSE t.real["rx"][j]
      BY <1>7, <2>3 DEF MdevSlots
    <3>2. CASE sid = "rx"
      BY <1>1, <2>1, <3>1, <3>2
    <3>3. CASE sid = "tx"
      BY <1>1, <2>1, <3>1, <3>3
    <3> QED BY <3>2, <3>3
  <2> QED BY <2>2, <2>3
<1>9. MdevGrown(t, w, k)
  BY <1>2, <1>3, <1>4, <1>7, <1>8 DEF MdevMarkedAnew, MdevGrown
<1>10. \A j \in MdevDevs : sid \in w.child[j] <=> j = i \/ sid \in t.child[j]
  BY <1>7
<1>11. w.str[k].mask = [t.str[k].mask EXCEPT ![i] = TRUE]
  BY <1>2, <1>3, <1>4
<1> QED BY <1>4, <1>9, <1>10, <1>11, <1>12

\* The outcomes after n devices: without a failure the stream is on each of
\* them, and each is marked.
MdevPart(s, sid, n) ==
    {o \in MdevOuts :
        /\ MdevGrown(s, o.s, MdevSlotOf(sid))
        /\ o.ok => \A j \in 1..n : sid \in o.s.child[j] /\ MdevMarked(o.s, sid, j)}

LEMMA MdevOpenOneOK ==
    ASSUME NEW t \in MdevRec, MdevPaired(t), NEW i \in MdevDevs, NEW sid \in MdevSids,
           NEW o \in MdevOpenOne(t, i, sid)
    PROVE  /\ o \in MdevOuts /\ MdevGrown(t, o.s, MdevSlotOf(sid))
           /\ o.ok => /\ sid \in o.s.child[i]
                      /\ o.s.str[MdevSlotOf(sid)].mask = [t.str[MdevSlotOf(sid)].mask EXCEPT ![i] = TRUE]
<1> DEFINE k == MdevSlotOf(sid)
           u == [t EXCEPT !.str[k].mask[i] = FALSE]
           v == [u EXCEPT !.child[i] = @ \cup {sid}]
           w == [v EXCEPT !.real[k][i] = TRUE, !.str[k].mask[i] = TRUE]
<1>1. u \in MdevRec /\ MdevMarkedAnew(t, u, k) /\ u.str[k].mask = [t.str[k].mask EXCEPT ![i] = FALSE]
  <2>1. k \in MdevSlots
    BY MdevSlotFacts
  <2>2. u = MdevUnmark(t, k, i)
    BY DEF MdevUnmark
  <2> HIDE DEF u, k
  <2> QED BY <2>1, <2>2, MdevUnmarkSet
<1>2. MdevGrown(t, u, k) /\ MdevPaired(u)
  BY <1>1, MdevAlikeGrown DEF MdevGrown
<1>3. \/ o \in Fail(u) \/ o \in Faulty(u)
      \/ sid # "aux" /\ o \in Io(w, w)
  <2>1. CASE u.real[k][i]
    BY <2>1 DEF MdevOpenOne
  <2>2. CASE ~u.real[k][i]
    <3>1. PICK q \in MdevChildCreate(u, i, sid) :
            o \in IF q.ok THEN LET z == [q.s EXCEPT !.real[k][i] = TRUE, !.str[k].mask[i] = TRUE] IN Io(z, z)
                 ELSE {q}
      BY <2>2 DEF MdevOpenOne, Then
    <3> HIDE DEF u
    <3>2. \/ q \in Fail(u) \/ q \in Faulty(u)
          \/ sid # "aux" /\ q \in Ok(v)
      BY DEF MdevChildCreate, Io
    <3>3. CASE q \in Fail(u) \/ q \in Faulty(u)
      <4>1. ~q.ok
        BY <3>3 DEF Fail, Faulty
      <4> QED BY <3>1, <3>3, <4>1
    <3>4. CASE sid # "aux" /\ q \in Ok(v)
      <4>1. q.ok /\ q.s = v
        BY <3>4 DEF Ok
      <4> QED BY <3>1, <3>4, <4>1
    <3> QED BY <3>2, <3>3, <3>4
  <2> QED BY <2>1, <2>2
<1> HIDE DEF u
<1>4. CASE o \in Fail(u)
  <2>1. o = [s |-> u, ok |-> FALSE]
    BY <1>4 DEF Fail
  <2>2. o.s = u /\ o.ok = FALSE /\ o \in MdevOuts
    BY <1>1, <2>1 DEF MdevOuts
  <2> QED BY <1>2, <2>2
<1>5. CASE o \in Faulty(u)
  <2>1. o \in MdevOuts /\ ~o.ok /\ MdevAlike(u, o.s)
    BY <1>1, <1>5, MdevFaulty
  <2>2. MdevGrown(u, o.s, k)
    BY <1>2, <2>1, MdevAlikeGrown
  <2> QED BY <1>2, <2>1, <2>2, MdevGrownThen
<1>6. CASE sid # "aux" /\ o \in Io(w, w)
  <2>1. sid \in {"rx", "tx"}
    BY <1>6 DEF MdevSids
  <2>2. /\ w \in MdevRec /\ MdevGrown(u, w, k) /\ sid \in w.child[i]
        /\ w.str[k].mask = [t.str[k].mask EXCEPT ![i] = TRUE]
    <3>1. w \in MdevRec /\ MdevGrown(u, w, k) /\ sid \in w.child[i] /\ w.str[k].mask = [u.str[k].mask EXCEPT ![i] = TRUE]
      <4>1. w = MdevWithStream(u, k, i, sid)
        BY DEF MdevWithStream
      <4> HIDE DEF w, k
      <4>2. u \in MdevRec /\ MdevPaired(u)
        BY <1>1, <1>2
      <4>3. /\ w \in MdevRec /\ MdevGrown(u, w, k)
            /\ \A j \in MdevDevs : sid \in w.child[j] <=> j = i \/ sid \in u.child[j]
            /\ w.str[k].mask = [u.str[k].mask EXCEPT ![i] = TRUE]
        BY <2>1, <4>1, <4>2, MdevGrow DEF k
      <4> QED BY <4>3
    <3>2. [[t.str[k].mask EXCEPT ![i] = FALSE] EXCEPT ![i] = TRUE] = [t.str[k].mask EXCEPT ![i] = TRUE]
      OBVIOUS
    <3> QED BY <1>1, <3>1, <3>2
  <2> HIDE DEF w
  <2>3. MdevGrown(t, w, k) /\ MdevPaired(w)
    BY <1>2, <2>2, MdevGrownThen DEF MdevGrown
  <2>4. CASE o \in Ok(w)
    <3>1. o = [s |-> w, ok |-> TRUE]
      BY <2>4 DEF Ok
    <3>2. o.s = w /\ o \in MdevOuts
      BY <2>2, <3>1 DEF MdevOuts
    <3> QED BY <2>2, <2>3, <3>2
  <2>5. CASE o \in Faulty(w)
    <3>1. o \in MdevOuts /\ ~o.ok /\ MdevAlike(w, o.s)
      BY <2>2, <2>5, MdevFaulty
    <3>2. MdevGrown(w, o.s, k)
      BY <2>3, <3>1, MdevAlikeGrown
    <3> QED BY <2>3, <3>1, <3>2, MdevGrownThen
  <2> QED BY <1>6, <2>4, <2>5 DEF Io
<1> QED BY <1>3, <1>4, <1>5, <1>6

LEMMA MdevOpenAllOK ==
    ASSUME NEW s \in MdevRec, MdevPaired(s), NEW sid \in MdevSids
    PROVE  MdevOpenAll(s, sid) \subseteq MdevPart(s, sid, MdevCnt)
<1> DEFINE V == [n \in 0..MdevCnt |-> MdevPart(s, sid, n)]
<1>1. Ok(s) \subseteq V[0] /\ V[MdevCnt] = MdevPart(s, sid, MdevCnt)
  <2>1. Ok(s) \subseteq MdevPart(s, sid, 0)
    BY DEF Ok, MdevPart, MdevOuts, MdevGrown
  <2>2. V[0] = MdevPart(s, sid, 0) /\ V[MdevCnt] = MdevPart(s, sid, MdevCnt)
    BY MdevAssumption
  <2> QED BY <2>1, <2>2
<1>2. ASSUME NEW n \in 1..MdevCnt, NEW o \in V[n - 1]
      PROVE  (IF o.ok THEN MdevOpenOne(o.s, n, sid) ELSE {o}) \subseteq V[n]
  <2>1. o \in MdevPart(s, sid, n - 1) /\ V[n] = MdevPart(s, sid, n) /\ n \in MdevDevs
    BY MdevAssumption DEF MdevDevs
  <2> HIDE DEF V
  <2>2. o \in MdevOuts /\ o.s \in MdevRec /\ MdevGrown(s, o.s, MdevSlotOf(sid)) /\ MdevPaired(o.s)
    BY <2>1 DEF MdevPart, MdevOuts, MdevGrown
  <2>3. ~o.ok => o \in MdevPart(s, sid, n)
    BY <2>1 DEF MdevPart
  <2>4. ASSUME o.ok, NEW p \in MdevOpenOne(o.s, n, sid) PROVE p \in MdevPart(s, sid, n)
    <3> DEFINE k == MdevSlotOf(sid)
    <3>1. /\ p \in MdevOuts /\ MdevGrown(o.s, p.s, k)
          /\ p.ok => sid \in p.s.child[n] /\ p.s.str[k].mask = [o.s.str[k].mask EXCEPT ![n] = TRUE]
      BY <2>1, <2>2, <2>4, MdevOpenOneOK
    <3>2. o.s.str[k].mask \in [MdevDevs -> BOOLEAN]
      BY <2>2, MdevSlotFacts DEF MdevRec, MdevStrs, MdevMarks
    <3> HIDE DEF k
    <3>3. MdevGrown(s, p.s, k)
      BY <2>2, <3>1, MdevGrownThen DEF k
    <3>4. ASSUME p.ok, NEW j \in 1..n PROVE sid \in p.s.child[j] /\ p.s.str[k].mask[j]
      <4>1. CASE j = n
        BY <2>1, <3>1, <3>2, <3>4, <4>1
      <4>2. CASE j # n
        <5>1. j \in 1..(n - 1) /\ j \in MdevDevs
          BY <2>1, <4>2, MdevAssumption DEF MdevDevs
        <5>2. sid \in o.s.child[j] /\ o.s.str[k].mask[j]
          BY <2>1, <2>4, <5>1 DEF MdevPart, MdevMarked, MdevStr, k
        <5> QED BY <2>1, <3>1, <3>2, <3>4, <4>2, <5>1, <5>2 DEF MdevGrown
      <4> QED BY <4>1, <4>2
    <3> QED BY <3>1, <3>3, <3>4 DEF MdevPart, MdevMarked, MdevStr, k
  <2> QED BY <2>1, <2>3, <2>4
<1> HIDE DEF V
<1>3. MdevOpenAll(s, sid) \subseteq V[MdevCnt]
  BY <1>1, <1>2, MdevOpenLoop
<1> QED BY <1>1, <1>3

\* An object in use refuses at its first device.
LEMMA MdevOpenRefused ==
    ASSUME NEW s \in MdevRec, NEW sid \in MdevSids, s.real[MdevSlotOf(sid)][1], 1 \in MdevDevs
    PROVE  MdevOpenAll(s, sid) \subseteq Fail(MdevUnmark(s, MdevSlotOf(sid), 1))
<1> DEFINE u == MdevUnmark(s, MdevSlotOf(sid), 1)
           V == [n \in 0..MdevCnt |-> IF n = 0 THEN Ok(s) ELSE Fail(u)]
<1>2. MdevOpenOne(s, 1, sid) = Fail(u)
  <2>1. u = [s EXCEPT !.str[MdevSlotOf(sid)].mask[1] = FALSE] /\ u.real = s.real
    BY DEF MdevRec, MdevUnmark
  <2> HIDE DEF u
  <2> QED BY <2>1 DEF MdevOpenOne
<1> HIDE DEF u
<1>1. Ok(s) \subseteq V[0] /\ V[MdevCnt] = Fail(u)
  BY MdevAssumption DEF MdevDevs
<1>3. \A o \in Fail(u) : ~o.ok /\ {o} \subseteq Fail(u)
  BY DEF Fail
<1>4. ASSUME NEW n \in 1..MdevCnt, NEW o \in V[n - 1]
      PROVE  (IF o.ok THEN MdevOpenOne(o.s, n, sid) ELSE {o}) \subseteq V[n]
  <2>1. V[n] = Fail(u)
    BY MdevAssumption
  <2>2. CASE n = 1
    <3>1. o = [s |-> s, ok |-> TRUE]
      BY <2>2, MdevAssumption DEF Ok
    <3> QED BY <1>2, <2>1, <2>2, <3>1
  <2>3. CASE n # 1
    <3>1. o \in Fail(u)
      BY <2>3, MdevAssumption
    <3> QED BY <1>3, <2>1, <3>1
  <2> QED BY <2>2, <2>3
<1> HIDE DEF V
<1>5. MdevOpenAll(s, sid) \subseteq V[MdevCnt]
  BY <1>1, <1>4, MdevOpenLoop
<1> QED BY <1>1, <1>5 DEF u

LEMMA MdevGrownOK ==
    ASSUME NEW s \in MdevRec, MdevOK(s), s.dm = "up", NEW k \in MdevSlots,
           \A x \in s.held, i \in MdevDevs : MdevSlotOf(x) # k,
           NEW t \in MdevRec, MdevGrown(s, t, k)
    PROVE  MdevOK(t)
<1>1. ASSUME NEW x \in t.held PROVE MdevThere(t, x)
  <2>1. x \in s.held /\ x \in MdevSids
    BY DEF MdevGrown, MdevRec
  <2>2. MdevThere(s, x)
    BY <2>1 DEF MdevOK
  <2>3. MdevSlotOf(x) \in MdevSlots /\ \A i \in MdevDevs : MdevSlotOf(x) # k
    BY <2>1, MdevSlotFacts
  <2> QED BY <2>1, <2>2, <2>3 DEF MdevGrown, MdevThere, MdevStr, MdevMarked
<1> QED BY <1>1 DEF MdevGrown, MdevOK

LEMMA MdevRefusedSet ==
    ASSUME NEW t \in MdevRec, NEW R \in SUBSET MdevSlots
    PROVE  LET u == [t EXCEPT !.refused = R]
           IN  /\ u \in MdevRec /\ u.refused = R
               /\ u.calls = t.calls /\ u.dm = t.dm /\ u.leak = t.leak /\ u.cnt = t.cnt /\ u.ll = t.ll
               /\ u.real = t.real /\ u.held = t.held /\ u.child = t.child /\ u.str = t.str
BY DEF MdevRec

\* One more refusal.
LEMMA MdevRefusal ==
    ASSUME NEW t \in MdevRec, MdevOK(t), NEW k \in MdevSlots
    PROVE  LET u == MdevWithRefusal(t, k) IN u \in MdevRec /\ MdevOK(u) /\ u.calls = t.calls
<1> DEFINE R == t.refused \cup {k}
           u == [t EXCEPT !.refused = R]
<1>1. R \in SUBSET MdevSlots
  BY DEF MdevRec
<1>2. /\ u \in MdevRec /\ u.refused = R
      /\ u.calls = t.calls /\ u.dm = t.dm /\ u.leak = t.leak /\ u.cnt = t.cnt /\ u.ll = t.ll
      /\ u.real = t.real /\ u.held = t.held /\ u.child = t.child /\ u.str = t.str
  BY <1>1, MdevRefusedSet
<1> HIDE DEF u
<1>3. MdevOK(u)
  BY <1>2 DEF MdevOK, MdevPaired, MdevThere, MdevStr, MdevMarked
<1> QED BY <1>2, <1>3 DEF u, MdevWithRefusal

\* The refused creation of a stream for an object in use.
LEMMA MdevRefusedOK ==
    ASSUME NEW s \in MdevRec, MdevOK(s), NEW k \in MdevSlots, 1 \in MdevDevs
    PROVE  LET u == MdevUnmark(s, k, 1)
               w == MdevWithRefusal(u, k)
           IN  u \in MdevRec /\ w \in MdevRec /\ MdevOK(w) /\ w.calls = s.calls
<1> DEFINE u == MdevUnmark(s, k, 1)
           R == u.refused \cup {k}
           w == [u EXCEPT !.refused = R]
<1>1. u \in MdevRec /\ MdevMarkedAnew(s, u, k) /\ u.str[k].mask = [s.str[k].mask EXCEPT ![1] = FALSE]
  <2>1. u = MdevUnmark(s, k, 1)
    OBVIOUS
  <2> HIDE DEF u
  <2> QED BY <2>1, MdevUnmarkSet
<1> HIDE DEF u
<1>2. R \in SUBSET MdevSlots
  BY <1>1 DEF MdevRec
<1>3. /\ w \in MdevRec /\ w.refused = R
      /\ w.calls = u.calls /\ w.dm = u.dm /\ w.leak = u.leak /\ w.cnt = u.cnt /\ w.ll = u.ll
      /\ w.real = u.real /\ w.held = u.held /\ w.child = u.child /\ w.str = u.str
  BY <1>1, <1>2, MdevRefusedSet
<1> HIDE DEF w
<1>4. s.str[k].mask \in [MdevDevs -> BOOLEAN]
  BY DEF MdevRec, MdevStrs, MdevMarks
<1>5. MdevPaired(w)
  BY <1>1, <1>3 DEF MdevMarkedAnew, MdevOK, MdevPaired
<1>6. ASSUME NEW x \in w.held PROVE MdevThere(w, x)
  <2>1. x \in s.held /\ x \in MdevSids
    BY <1>1, <1>3 DEF MdevMarkedAnew, MdevRec
  <2>2. MdevThere(s, x) /\ MdevSlotOf(x) \in MdevSlots
    BY <2>1, MdevSlotFacts DEF MdevOK
  <2>3. ASSUME NEW i \in MdevDevs
        PROVE  MdevMarked(w, x, i) \/ (i = 1 /\ MdevSlotOf(x) \in w.refused)
    <3>1. MdevMarked(s, x, i) \/ (i = 1 /\ MdevSlotOf(x) \in s.refused)
      BY <2>2 DEF MdevThere
    <3>2. CASE MdevSlotOf(x) = k
      <4>1. i # 1 => w.str[k].mask[i] = s.str[k].mask[i]
        BY <1>1, <1>3, <1>4
      <4> QED BY <1>3, <3>1, <3>2, <4>1 DEF MdevMarked, MdevStr
    <3>3. CASE MdevSlotOf(x) # k
      BY <1>1, <1>3, <2>2, <3>1, <3>3 DEF MdevMarkedAnew, MdevMarked, MdevStr
    <3> QED BY <3>2, <3>3
  <2> QED BY <1>1, <1>3, <2>2, <2>3 DEF MdevMarkedAnew, MdevThere, MdevStr
<1>7. MdevOK(w)
  BY <1>1, <1>3, <1>5, <1>6 DEF MdevMarkedAnew, MdevOK
<1> QED BY <1>1, <1>3, <1>7 DEF MdevMarkedAnew, u, w, MdevWithRefusal

\* The stream was made and marked on every device.
LEMMA MdevOpened ==
    ASSUME NEW s \in MdevRec, MdevOK(s), s.dm = "up", NEW sid \in MdevSids, NEW k, k = MdevSlotOf(sid),
           \A x \in s.held, i \in MdevDevs : MdevSlotOf(x) # k,
           NEW t \in MdevRec, MdevGrown(s, t, k), \A j \in MdevDevs : sid \in t.child[j] /\ t.str[k].mask[j],
           NEW p, p = MdevWithHandle(t, k, sid), NEW q, q = MdevSansRefusal(p, k)
    PROVE  p \in MdevRec /\ q \in MdevRec /\ MdevOK(q) /\ q.calls = s.calls
<1> DEFINE r == [t.str[k] EXCEPT !.type = k, !.cnt = MdevCnt]
           x == [t EXCEPT !.str[k] = r]
           y == [x EXCEPT !.held = @ \cup {sid}]
           R == y.refused \ {k}
           w == [y EXCEPT !.refused = R]
<1>1. t.str \in [MdevSlots -> MdevStrs] /\ t.held \in SUBSET MdevSids /\ k \in MdevSlots
  BY MdevSlotFacts DEF MdevRec
<1>2. r \in MdevStrs /\ r.type = k /\ r.cnt = MdevCnt /\ r.mask = t.str[k].mask
  <2>1. PICK a \in MdevStrs : a = t.str[k]
    BY <1>1
  <2>2. r = [a EXCEPT !.type = k, !.cnt = MdevCnt]
    BY <2>1
  <2> HIDE DEF r
  <2> QED BY <1>1, <2>1, <2>2, MdevAssumption DEF MdevStrs
<1>3. p = y
  BY <1>1 DEF MdevRec, MdevWithHandle
<1> HIDE DEF r
<1>4. /\ x \in MdevRec /\ x.str = [t.str EXCEPT ![k] = r]
      /\ x.calls = t.calls /\ x.dm = t.dm /\ x.leak = t.leak /\ x.cnt = t.cnt /\ x.ll = t.ll
      /\ x.real = t.real /\ x.held = t.held /\ x.child = t.child /\ x.refused = t.refused
  BY <1>1, <1>2, MdevStrSet
<1> HIDE DEF x
<1>5. /\ y \in MdevRec /\ y.str = x.str /\ y.held = x.held \cup {sid}
      /\ y.calls = x.calls /\ y.dm = x.dm /\ y.leak = x.leak /\ y.cnt = x.cnt /\ y.ll = x.ll
      /\ y.real = x.real /\ y.child = x.child /\ y.refused = x.refused
  BY <1>1, <1>4 DEF MdevRec
<1> HIDE DEF y
<1>6. R \in SUBSET MdevSlots
  BY <1>5 DEF MdevRec
<1>7. /\ w \in MdevRec /\ w.refused = R
      /\ w.calls = y.calls /\ w.dm = y.dm /\ w.leak = y.leak /\ w.cnt = y.cnt /\ w.ll = y.ll
      /\ w.real = y.real /\ w.held = y.held /\ w.child = y.child /\ w.str = y.str
  BY <1>5, <1>6, MdevRefusedSet
<1>8. w.refused = t.refused \ {k}
  BY <1>4, <1>5, <1>7
<1> HIDE DEF w
<1>9. MdevOK(t)
  BY <1>1, MdevGrownOK
<1>10. \A l \in MdevSlots : w.str[l] = IF l = k THEN r ELSE t.str[l]
  BY <1>1, <1>4, <1>5, <1>7
<1>11. ASSUME NEW z \in w.held PROVE MdevThere(w, z)
  <2>1. z \in MdevSids /\ MdevSlotOf(z) \in MdevSlots /\ (z = sid \/ z \in t.held)
    BY <1>1, <1>4, <1>5, <1>7, MdevSlotFacts
  <2>2. w.str[MdevSlotOf(z)].type = MdevSlotOf(z) /\ w.str[MdevSlotOf(z)].cnt = MdevCnt
    BY <1>2, <1>9, <1>10, <2>1 DEF MdevOK, MdevThere, MdevStr
  <2>3. ASSUME NEW i \in MdevDevs
        PROVE  /\ z \in w.child[i]
               /\ MdevMarked(w, z, i) \/ (i = 1 /\ MdevSlotOf(z) \in w.refused)
    <3>1. CASE z = sid
      <4>1. z \in t.child[i] /\ t.str[k].mask[i] /\ MdevSlotOf(z) = k
        BY <3>1
      <4> QED BY <1>2, <1>4, <1>5, <1>7, <1>10, <2>1, <4>1 DEF MdevMarked, MdevStr
    <3>2. CASE z # sid
      <4>1. z \in t.held /\ MdevSlotOf(z) # k
        BY <2>1, <3>2 DEF MdevGrown
      <4>2. z \in t.child[i] /\ (MdevMarked(t, z, i) \/ (i = 1 /\ MdevSlotOf(z) \in t.refused))
        BY <1>9, <4>1 DEF MdevOK, MdevThere
      <4> QED BY <1>4, <1>5, <1>7, <1>8, <1>10, <2>1, <4>1, <4>2 DEF MdevMarked, MdevStr
    <3> QED BY <3>1, <3>2
  <2> QED BY <2>2, <2>3 DEF MdevThere, MdevStr
<1>12. MdevPaired(w)
  BY <1>4, <1>5, <1>7, <1>9 DEF MdevOK, MdevPaired
<1>13. w.dm = "up" /\ w.cnt = MdevCnt /\ w.ll = s.ll /\ w.calls = s.calls
  BY <1>4, <1>5, <1>7 DEF MdevGrown, MdevOK
<1>14. MdevOK(w)
  BY <1>11, <1>12, <1>13 DEF MdevOK
<1>15. q = w
  BY <1>3 DEF w, MdevSansRefusal
<1> QED BY <1>3, <1>5, <1>7, <1>13, <1>14, <1>15

\* An object in use refuses, and is as whole as before but for a mark.
LEMMA MdevOpenInUse ==
    ASSUME NEW s \in MdevRec, MdevOK(s), NEW sid \in MdevSids, NEW k, k = MdevSlotOf(sid),
           NEW x \in s.held, NEW i \in MdevDevs, MdevSlotOf(x) = k,
           NEW o \in MdevOpenAll(s, sid), NEW q, q = MdevWithRefusal(o.s, k)
    PROVE  o \in MdevOuts /\ ~o.ok /\ q \in MdevRec /\ MdevOK(q) /\ q.calls = s.calls
<1>1. 1 \in MdevDevs
  BY MdevAssumption DEF MdevDevs
<1>2. x \in MdevSids /\ x # "aux" /\ x \in s.child[1] /\ MdevPaired(s)
  BY <1>1 DEF MdevOK, MdevThere, MdevPaired, MdevRec
<1>3. s.real[k][1] /\ k \in MdevSlots
  BY <1>1, <1>2, MdevSlotFacts DEF MdevPaired, MdevSids
<1> DEFINE u == MdevUnmark(s, k, 1)
           w == MdevWithRefusal(u, k)
<1>4. o \in Fail(u)
  BY <1>1, <1>3, MdevOpenRefused
<1>5. u \in MdevRec /\ w \in MdevRec /\ MdevOK(w) /\ w.calls = s.calls
  BY <1>1, <1>3, MdevRefusedOK
<1>6. w = MdevWithRefusal(u, k)
  OBVIOUS
<1> HIDE DEF u, w
<1>7. o = [s |-> u, ok |-> FALSE]
  BY <1>4 DEF Fail
<1>8. q = w
  BY <1>6, <1>7
<1> QED BY <1>5, <1>7, <1>8 DEF MdevOuts

LEMMA MdevOpenInv ==
    ASSUME MdevInv, MdevUp, NEW sid \in MdevSids, MdevCreateCall(sid) PROVE MdevInv'
<1> DEFINE s == mdev
           k == MdevSlotOf(sid)
           Last(u) == [u EXCEPT !.str[k].type = k, !.str[k].cnt = MdevCnt, !.held = @ \cup {sid}]
           Rest(o) == IF o.ok THEN UNION {IF q.ok THEN Ok(Last(q.s)) ELSE {q} : q \in Io(o.s, o.s)} ELSE {o}
           Bad(t) == MdevWithRefusal(t, k)
           Good(t) == MdevSansRefusal(t, k)
           Noted(p) == [p EXCEPT !.s.refused = IF p.ok THEN @ \ {k} ELSE @ \cup {k}]
           Fine(t) == t \in MdevRec /\ MdevOK(t) /\ t.calls = s.calls
<1>1. s \in MdevRec /\ MdevOK(s) /\ s.dm = "up" /\ MdevMay /\ MdevPaired(s) /\ k \in MdevSlots
  BY MdevSlotFacts DEF MdevInv, MdevUp, MdevOK
<1>2. mdev_create_stream(s, sid) = UNION {Rest(o) : o \in MdevOpenAll(s, sid)}
  BY Zenon DEF mdev_create_stream, MdevOpenAll, MdevOpenOne, ForEach, Then
<1>3. ASSUME NEW o \in MdevOpenAll(s, sid), NEW p \in Rest(o)
      PROVE  p \in MdevOuts /\ ((~p.ok /\ Fine(Bad(p.s))) \/ (p.ok /\ Fine(Good(p.s))))
  <2>1. CASE \E x \in s.held, i \in MdevDevs : MdevSlotOf(x) = k
    <3>1. PICK x \in s.held, i \in MdevDevs : MdevSlotOf(x) = k
      BY <2>1
    <3> HIDE DEF Good, Fine, Last, Noted
    <3>2. Bad(o.s) = MdevWithRefusal(o.s, k)
      OBVIOUS
    <3> HIDE DEF Bad
    <3>3. o \in MdevOuts /\ ~o.ok /\ Bad(o.s) \in MdevRec /\ MdevOK(Bad(o.s)) /\ Bad(o.s).calls = s.calls
      <4> HIDE DEF Rest, s, k
      <4>1. s \in MdevRec /\ MdevOK(s) /\ x \in s.held /\ i \in MdevDevs /\ k = MdevSlotOf(sid)
        BY <1>1, <3>1 DEF k
      <4> QED BY <3>1, <3>2, <4>1, MdevOpenInUse
    <3>4. p = o
      BY <3>3
    <3> HIDE DEF Rest
    <3> QED BY <3>3, <3>4 DEF Fine
  <2>2. CASE \A x \in s.held, i \in MdevDevs : MdevSlotOf(x) # k
    <3> HIDE DEF Bad, Good, Fine, Last, Noted
    <3>1. /\ o \in MdevOuts /\ o.s \in MdevRec /\ MdevGrown(s, o.s, k) /\ MdevPaired(o.s)
          /\ o.ok => \A j \in MdevDevs : sid \in o.s.child[j] /\ o.s.str[k].mask[j]
      <4>1. o \in MdevPart(s, sid, MdevCnt)
        BY <1>1, MdevOpenAllOK
      <4> HIDE DEF Rest, s
      <4> QED BY <4>1 DEF MdevPart, MdevOuts, MdevGrown, MdevDevs, MdevMarked, MdevStr
    <3>2. MdevOK(o.s) /\ o.s.calls = s.calls
      BY <1>1, <2>2, <3>1, MdevGrownOK DEF MdevGrown
    <3>3. (p = o /\ ~o.ok) \/ p \in Faulty(o.s) \/ (o.ok /\ p = [s |-> Last(o.s), ok |-> TRUE])
      <4>1. CASE ~o.ok
        BY <4>1
      <4>2. CASE o.ok
        <5>1. PICK q \in Io(o.s, o.s) : p \in IF q.ok THEN Ok(Last(q.s)) ELSE {q}
          BY <4>2
        <5>2. CASE q \in Ok(o.s)
          <6>1. q.ok /\ q.s = o.s
            BY <5>2 DEF Ok
          <6> QED BY <4>2, <5>1, <6>1 DEF Ok
        <5>3. CASE q \in Faulty(o.s)
          <6>1. ~q.ok
            BY <3>1, <5>3, MdevFaulty
          <6> QED BY <5>1, <5>3, <6>1
        <5> QED BY <5>1, <5>2, <5>3 DEF Io
      <4> QED BY <4>1, <4>2
    <3>4. CASE p = o /\ ~o.ok
      <4>1. p \in MdevOuts /\ p.s = o.s /\ ~p.ok
        BY <3>1, <3>4 DEF MdevOuts
      <4>2. Fine(Bad(o.s))
        BY <1>1, <3>1, <3>2, MdevRefusal DEF Fine, Bad
      <4> QED BY <4>1, <4>2
    <3>5. CASE p \in Faulty(o.s)
      <4>1. p \in MdevOuts /\ p.s \in MdevRec /\ ~p.ok /\ MdevAlike(o.s, p.s)
        BY <3>1, <3>5, MdevFaulty DEF MdevOuts
      <4>2. MdevOK(p.s) /\ p.s.calls = s.calls
        BY <3>1, <3>2, <4>1, MdevAlikeOK DEF MdevAlike
      <4>3. Fine(Bad(p.s))
        BY <1>1, <4>1, <4>2, MdevRefusal DEF Fine, Bad
      <4> QED BY <4>1, <4>3
    <3>6. CASE o.ok /\ p = [s |-> Last(o.s), ok |-> TRUE]
      <4>1. Last(o.s) \in MdevRec /\ Fine(Good(Last(o.s)))
        <5>1. Last(o.s) = MdevWithHandle(o.s, k, sid)
          BY DEF Last, MdevWithHandle
        <5>2. Good(Last(o.s)) = MdevSansRefusal(Last(o.s), k)
          BY DEF Good
        <5>3. \A j \in MdevDevs : sid \in o.s.child[j] /\ o.s.str[k].mask[j]
          BY <3>1, <3>6
        <5>4. Last(o.s) \in MdevRec /\ Good(Last(o.s)) \in MdevRec /\ MdevOK(Good(Last(o.s))) /\ Good(Last(o.s)).calls = s.calls
          <6> HIDE DEF Rest, s, k
          <6>1. s \in MdevRec /\ MdevOK(s) /\ s.dm = "up" /\ k = MdevSlotOf(sid)
            BY <1>1 DEF k
          <6>2. o.s \in MdevRec /\ MdevGrown(s, o.s, k)
            BY <3>1
          <6> QED BY <2>2, <5>1, <5>2, <5>3, <6>1, <6>2, MdevOpened
        <5> QED BY <5>4 DEF Fine
      <4> QED BY <3>6, <4>1 DEF MdevOuts
    <3> QED BY <3>3, <3>4, <3>5, <3>6
  <2> QED BY <2>1, <2>2
<1> HIDE DEF Rest
<1>4. ASSUME NEW o \in {Noted(p) : p \in mdev_create_stream(s, sid)}
      PROVE  o.s \in MdevRec /\ MdevOK(o.s) /\ o.s.calls = s.calls
  <2>1. PICK p \in mdev_create_stream(s, sid) : o = Noted(p)
    OBVIOUS
  <2> HIDE DEF Bad, Good, Fine
  <2>2. p \in MdevOuts /\ ((~p.ok /\ Fine(Bad(p.s))) \/ (p.ok /\ Fine(Good(p.s))))
    BY <1>2, <1>3
  <2>3. (~p.ok => o.s = Bad(p.s)) /\ (p.ok => o.s = Good(p.s))
    BY <2>1, <2>2 DEF MdevOuts, Bad, Good, MdevWithRefusal, MdevSansRefusal
  <2>4. Fine(o.s)
    BY <2>2, <2>3
  <2> QED BY <2>4 DEF Fine
<1>5. MdevDo({Noted(p) : p \in mdev_create_stream(s, sid)})
  BY DEF MdevCreateCall
<1> HIDE DEF Noted
<1> QED BY <1>1, <1>4, <1>5, MdevDone
-----------------------------------------------------------------------------
\* mdev_create: devices are made, nothing else changes.
MdevMade(s, t) ==
    /\ t.calls = s.calls /\ t.dm = s.dm /\ t.leak = s.leak /\ t.held = s.held
    /\ t.real = s.real /\ t.child = s.child /\ t.str = s.str /\ t.refused = s.refused

\* The outcomes after n devices: without a failure they are open, unless they
\* are not all of one kind.
MdevMaking(s, n) ==
    {o \in MdevOuts : MdevMade(s, o.s) /\ (o.ok /\ ~MdevOdd(o.s) => \A j \in 1..n : o.s.ll[j])}

LEMMA MdevMadeThen == ASSUME NEW s, NEW t, NEW u, MdevMade(s, t), MdevMade(t, u) PROVE MdevMade(s, u)
BY DEF MdevMade

LEMMA MdevFaultyMade ==
    ASSUME NEW t \in MdevRec, NEW o \in Faulty(t)
    PROVE  o \in MdevOuts /\ ~o.ok /\ MdevMade(t, o.s)
<1>1. t.faults # 0 /\ o = [s |-> [t EXCEPT !.faults = @ - 1], ok |-> FALSE]
  BY DEF Faulty, Fail
<1>2. [t EXCEPT !.faults = @ - 1] \in MdevRec
  BY <1>1 DEF MdevRec
<1>3. MdevMade(t, [t EXCEPT !.faults = @ - 1])
  BY DEF MdevMade, MdevRec
<1> QED BY <1>1, <1>2, <1>3 DEF MdevOuts

LEMMA MdevLowlevel ==
    ASSUME NEW t \in MdevRec, ~MdevOdd(t), NEW i \in MdevDevs, NEW p \in lowlevel_create(t, i)
    PROVE  /\ p \in MdevOuts /\ MdevMade(t, p.s)
           /\ p.ok => p.s.ll = [t.ll EXCEPT ![i] = TRUE]
<1>1. CASE p \in Faulty(t)
  BY <1>1, MdevFaultyMade
<1>2. CASE p \notin Faulty(t)
  <2>1. PICK b \in BOOLEAN : p = [s |-> [t EXCEPT !.ll[i] = TRUE, !.same[i] = b], ok |-> TRUE]
    BY <1>2 DEF lowlevel_create, Ok
  <2> DEFINE u == [t EXCEPT !.ll[i] = TRUE, !.same[i] = b]
  <2>2. u \in MdevRec /\ MdevMade(t, u) /\ u.ll = [t.ll EXCEPT ![i] = TRUE]
    BY DEF MdevRec, MdevMarks, MdevMade
  <2> HIDE DEF u
  <2>3. p = [s |-> u, ok |-> TRUE]
    BY <2>1 DEF u
  <2>4. p.s = u /\ p \in MdevOuts
    BY <2>2, <2>3 DEF MdevOuts
  <2> QED BY <2>2, <2>4
<1> QED BY <1>1, <1>2

LEMMA MdevCreateAllOK ==
    ASSUME NEW s \in MdevRec PROVE MdevCreateAll(s) \subseteq MdevMaking(s, MdevCnt)
<1> DEFINE V == [n \in 0..MdevCnt |-> MdevMaking(s, n)]
<1>1. Ok(s) \subseteq V[0] /\ V[MdevCnt] = MdevMaking(s, MdevCnt)
  <2>1. Ok(s) \subseteq MdevMaking(s, 0)
    BY DEF Ok, MdevMaking, MdevOuts, MdevMade
  <2>2. V[0] = MdevMaking(s, 0) /\ V[MdevCnt] = MdevMaking(s, MdevCnt)
    BY MdevAssumption
  <2> QED BY <2>1, <2>2
<1>2. ASSUME NEW n \in 1..MdevCnt, NEW o \in V[n - 1]
      PROVE  (IF o.ok THEN (IF MdevOdd(o.s) THEN Ok(o.s) ELSE lowlevel_create(o.s, n)) ELSE {o}) \subseteq V[n]
  <2>1. o \in MdevMaking(s, n - 1) /\ V[n] = MdevMaking(s, n) /\ n \in MdevDevs
    BY MdevAssumption DEF MdevDevs
  <2> HIDE DEF V
  <2>2. o \in MdevOuts /\ o.s \in MdevRec /\ MdevMade(s, o.s)
    BY <2>1 DEF MdevMaking, MdevOuts
  <2>3. CASE ~o.ok
    BY <2>1, <2>3 DEF MdevMaking
  <2>4. CASE o.ok /\ MdevOdd(o.s)
    <3>1. [s |-> o.s, ok |-> TRUE] \in MdevMaking(s, n)
      BY <2>2, <2>4 DEF MdevMaking, MdevOuts
    <3> QED BY <2>1, <2>4, <3>1 DEF Ok
  <2>5. CASE o.ok /\ ~MdevOdd(o.s)
    <3>1. ASSUME NEW p \in lowlevel_create(o.s, n) PROVE p \in MdevMaking(s, n)
      <4>1. /\ p \in MdevOuts /\ MdevMade(o.s, p.s)
            /\ p.ok => p.s.ll = [o.s.ll EXCEPT ![n] = TRUE]
        BY <2>1, <2>2, <2>5, MdevLowlevel
      <4>2. MdevMade(s, p.s)
        BY <2>2, <4>1, MdevMadeThen
      <4>3. \A j \in 1..(n - 1) : o.s.ll[j]
        BY <2>1, <2>5 DEF MdevMaking
      <4>4. o.s.ll \in [MdevDevs -> BOOLEAN]
        BY <2>2 DEF MdevRec, MdevMarks
      <4>5. \A j \in 1..n : j \in MdevDevs /\ (j = n \/ j \in 1..(n - 1))
        BY MdevAssumption DEF MdevDevs
      <4>6. p.ok => \A j \in 1..n : p.s.ll[j]
        BY <4>1, <4>3, <4>4, <4>5
      <4> QED BY <4>1, <4>2, <4>6 DEF MdevMaking
    <3> QED BY <2>1, <2>5, <3>1
  <2> QED BY <2>3, <2>4, <2>5
<1> HIDE DEF V
<1>3. MdevCreateAll(s) \subseteq V[MdevCnt]
  BY <1>1, <1>2, MdevCreateLoop
<1> QED BY <1>1, <1>3

\* c comes from s by making some devices and closing all.
MdevCleaned(s, c) ==
    /\ c \in MdevRec /\ c.calls = s.calls /\ c.dm = "none" /\ c.leak = FALSE /\ c.held = {}
    /\ \A i \in MdevDevs : ~c.ll[i] /\ c.child[i] = {}
    /\ MdevPaired(c)

\* The error path leaves nothing open.
LEMMA MdevCleanupOK ==
    ASSUME NEW s \in MdevRec, MdevOK(s), s.dm = "none", ~s.leak, NEW t \in MdevRec, MdevMade(s, t),
           NEW c, c = MdevCleanup(t)
    PROVE  MdevCleaned(s, c)
<1>1. /\ c \in MdevRec /\ c.calls = t.calls /\ c.dm = t.dm /\ c.leak = t.leak /\ c.held = t.held /\ c.real = t.real
      /\ c.ll = MdevNo /\ c.child = [i \in MdevDevs |-> {}]
  BY DEF MdevCleanup, MdevDestroyAll, MdevRec, MdevMarks, MdevNo
<1>2. c.real = s.real /\ c.calls = s.calls /\ c.dm = "none" /\ c.leak = FALSE /\ c.held = {}
  <2>1. s.held = {} /\ s.leak = FALSE
    BY DEF MdevOK, MdevRec
  <2> QED BY <1>1, <2>1 DEF MdevMade
<1>3. \A i \in MdevDevs : ~c.ll[i] /\ c.child[i] = {}
  BY <1>1 DEF MdevNo
<1>4. \A i \in MdevDevs : s.child[i] = {}
  BY DEF MdevOK
<1>5. MdevPaired(c)
  BY <1>2, <1>3, <1>4 DEF MdevOK, MdevPaired
<1> QED BY <1>1, <1>2, <1>3, <1>5, SMTT(30) DEF MdevCleaned

\* mdev_create: all devices or none.
LEMMA MdevMadeOuts ==
    ASSUME NEW s \in MdevRec, MdevOK(s), s.dm = "none", ~s.leak, NEW p \in mdev_create(s)
    PROVE  /\ p \in MdevOuts /\ MdevOK(p.s) /\ p.s.calls = s.calls
           /\ p.s.held = {} /\ p.s.leak = FALSE /\ (~p.ok => p.s.dm = "none")
<1> DEFINE Last(u) == Io(u, [u EXCEPT !.dm = "up"])
           Counted(t) == [t EXCEPT !.cnt = MdevCnt]
           Fin(t) == UNION {IF q.ok THEN UNION {IF r.ok THEN Last(r.s) ELSE {r} : r \in Ok(Counted(q.s))} ELSE {q}
                            : q \in Io(t, t)}
           Und(t) == UNION {IF q.ok THEN {q} ELSE {[r EXCEPT !.ok = FALSE] : r \in Ok(MdevCleanup(q.s))}
                            : q \in Fin(t)}
           After(o) == IF ~o.ok THEN Fail(MdevCleanup(o.s))
                       ELSE IF MdevOdd(o.s) THEN Ok([MdevCleanup(o.s) EXCEPT !.dm = "hollow"]) ELSE Und(o.s)
<1>1. mdev_create(s) = UNION {After(o) : o \in MdevCreateAll(s)}
  BY Zenon DEF mdev_create, MdevCreateAll, MdevOdd, ForEach, Then, Undo, OrElse
<1>2. PICK o \in MdevCreateAll(s) : p \in After(o)
  BY <1>1
<1>3. /\ o.s \in MdevRec /\ MdevMade(s, o.s)
      /\ o.ok /\ ~MdevOdd(o.s) => \A j \in MdevDevs : o.s.ll[j]
  BY MdevCreateAllOK DEF MdevMaking, MdevOuts, MdevDevs
<1>4. ASSUME NEW t \in MdevRec, MdevMade(s, t), p = [s |-> MdevCleanup(t), ok |-> FALSE]
      PROVE  /\ p \in MdevOuts /\ MdevOK(p.s) /\ p.s.calls = s.calls
             /\ p.s.held = {} /\ p.s.leak = FALSE /\ (~p.ok => p.s.dm = "none")
  <2>1. PICK c : c = MdevCleanup(t)
    OBVIOUS
  <2>2. /\ c \in MdevRec /\ c.calls = s.calls /\ c.dm = "none" /\ c.leak = FALSE /\ c.held = {}
        /\ \A i \in MdevDevs : ~c.ll[i] /\ c.child[i] = {}
        /\ MdevPaired(c)
    <3>1. MdevCleaned(s, c)
      BY <1>4, <2>1, MdevCleanupOK
    <3> QED BY <3>1 DEF MdevCleaned
  <2>3. MdevOK(c)
    BY <2>2 DEF MdevOK
  <2>4. p \in MdevOuts /\ p.s = c
    BY <1>4, <2>1, <2>2 DEF MdevOuts
  <2> QED BY <2>2, <2>3, <2>4
<1>5. CASE ~o.ok
  BY <1>2, <1>3, <1>4, <1>5 DEF Fail
<1>6. CASE o.ok /\ MdevOdd(o.s)
  <2>1. PICK c : c = MdevCleanup(o.s)
    OBVIOUS
  <2>2. /\ c \in MdevRec /\ c.calls = s.calls /\ c.leak = FALSE /\ c.held = {}
        /\ \A i \in MdevDevs : ~c.ll[i] /\ c.child[i] = {}
        /\ MdevPaired(c)
    <3>1. MdevCleaned(s, c)
      BY <1>3, <2>1, MdevCleanupOK
    <3> QED BY <3>1 DEF MdevCleaned
  <2> DEFINE h == [c EXCEPT !.dm = "hollow"]
  <2>3. /\ h \in MdevRec /\ h.calls = c.calls /\ h.leak = c.leak /\ h.held = c.held /\ h.dm = "hollow"
        /\ h.ll = c.ll /\ h.child = c.child /\ h.real = c.real
    BY <2>2 DEF MdevRec
  <2>4. p = [s |-> h, ok |-> TRUE]
    BY <1>2, <1>6, <2>1 DEF Ok
  <2> HIDE DEF h
  <2>5. MdevOK(h)
    BY <2>2, <2>3 DEF MdevOK, MdevPaired
  <2>6. p \in MdevOuts /\ p.s = h /\ p.ok
    BY <2>3, <2>4 DEF MdevOuts
  <2> QED BY <2>2, <2>3, <2>5, <2>6
<1>7. CASE o.ok /\ ~MdevOdd(o.s)
  <2>1. PICK q \in Fin(o.s) : p \in IF q.ok THEN {q} ELSE {[r EXCEPT !.ok = FALSE] : r \in Ok(MdevCleanup(q.s))}
    BY <1>2, <1>7
  <2>2. PICK t : t = Counted(o.s)
    OBVIOUS
  <2>3. /\ t \in MdevRec /\ MdevMade(o.s, t) /\ t.ll = o.s.ll /\ t.cnt = MdevCnt
    BY <1>3, <2>2, MdevAssumption DEF MdevRec, MdevMade
  <2>4. MdevMade(s, t)
    BY <1>3, <2>3, MdevMadeThen
  <2>5. q \in Faulty(o.s) \/ q \in Faulty(t) \/ q \in Ok([t EXCEPT !.dm = "up"])
    <3>1. PICK x \in Io(o.s, o.s) :
            q \in IF x.ok THEN UNION {IF r.ok THEN Last(r.s) ELSE {r} : r \in Ok(Counted(x.s))} ELSE {x}
      BY <2>1
    <3>2. CASE x \in Faulty(o.s)
      <4>1. ~x.ok
        BY <1>3, <3>2, MdevFaultyMade
      <4> QED BY <3>1, <3>2, <4>1
    <3>3. CASE x \in Ok(o.s)
      <4>1. x.ok /\ x.s = o.s
        BY <3>3 DEF Ok
      <4>2. PICK r \in Ok(t) : q \in IF r.ok THEN Last(r.s) ELSE {r}
        BY <2>2, <3>1, <4>1
      <4>3. r.ok /\ r.s = t
        BY <4>2 DEF Ok
      <4>4. q \in Io(t, [t EXCEPT !.dm = "up"])
        BY <4>2, <4>3
      <4> QED BY <4>4 DEF Io
    <3> QED BY <3>1, <3>2, <3>3 DEF Io
  <2>6. ASSUME q.s \in MdevRec, MdevMade(s, q.s), ~q.ok
        PROVE  /\ p \in MdevOuts /\ MdevOK(p.s) /\ p.s.calls = s.calls
               /\ p.s.held = {} /\ p.s.leak = FALSE /\ (~p.ok => p.s.dm = "none")
    <3>1. p = [s |-> MdevCleanup(q.s), ok |-> FALSE]
      BY <2>1, <2>6 DEF Ok
    <3> QED BY <1>4, <2>6, <3>1
  <2>7. CASE q \in Faulty(o.s)
    BY <1>3, <2>6, <2>7, MdevFaultyMade, MdevMadeThen DEF MdevOuts
  <2>8. CASE q \in Faulty(t)
    BY <2>3, <2>4, <2>6, <2>8, MdevFaultyMade, MdevMadeThen DEF MdevOuts
  <2>9. CASE q \in Ok([t EXCEPT !.dm = "up"])
    <3> DEFINE h == [t EXCEPT !.dm = "up"]
    <3>1. /\ h \in MdevRec /\ h.calls = t.calls /\ h.leak = t.leak /\ h.held = t.held /\ h.dm = "up"
          /\ h.ll = t.ll /\ h.child = t.child /\ h.real = t.real /\ h.cnt = t.cnt /\ h.str = t.str
      BY <2>3 DEF MdevRec
    <3>2. q = [s |-> h, ok |-> TRUE]
      BY <2>9 DEF Ok
    <3> HIDE DEF h
    <3>3. p = [s |-> h, ok |-> TRUE]
      BY <2>1, <3>2
    <3>4. s.held = {} /\ s.leak = FALSE /\ MdevPaired(s)
      BY DEF MdevOK, MdevRec
    <3>5. MdevOK(h) /\ h.held = {} /\ h.leak = FALSE /\ h.calls = s.calls
      BY <1>3, <1>7, <2>3, <2>4, <3>1, <3>4 DEF MdevOK, MdevPaired, MdevMade
    <3>6. p \in MdevOuts /\ p.s = h /\ p.ok
      BY <3>1, <3>3 DEF MdevOuts
    <3> QED BY <3>5, <3>6
  <2> QED BY <2>5, <2>7, <2>8, <2>9
<1> QED BY <1>5, <1>6, <1>7

\* usdr_dmd_create: the aggregate, and then its debug service.
LEMMA MdevCreateInv ==
    ASSUME MdevInv, MdevCreate PROVE MdevInv'
<1> DEFINE s == mdev
           Dif(t) == UNION {IF q.ok THEN {q} ELSE {[r EXCEPT !.ok = FALSE] : r \in Ok([q.s EXCEPT !.leak = TRUE])}
                            : q \in usdr_dif_init(t)}
           Rest(o) == IF o.ok THEN Ok(o.s) \cup Dif(o.s) ELSE {o}
           Given(o) == [o EXCEPT !.s.dm = IF o.ok THEN @ ELSE "none"]
           OutOK(o) == o \in MdevOuts /\ MdevOK(o.s) /\ o.s.calls = s.calls
<1>1. /\ s \in MdevRec /\ MdevOK(s) /\ s.dm = "none" /\ ~s.leak /\ MdevMay /\ MdevDo(usdr_dmd_create(s))
  BY DEF MdevInv, MdevCreate
<1>2. usdr_dmd_create(s) = {Given(o) : o \in UNION {Rest(o) : o \in mdev_create(s)}}
  BY Zenon DEF usdr_dmd_create, Then, Undo, OrElse
<1>3. ASSUME NEW o, OutOK(o), o.ok \/ o.s.dm = "none"
      PROVE  Given(o).s = o.s
  <2>1. o.s \in MdevRec /\ o = [s |-> o.s, ok |-> o.ok]
    BY <1>3 DEF MdevOuts
  <2>2. [o.s EXCEPT !.dm = o.s.dm] = o.s
    BY <2>1 DEF MdevRec
  <2>3. Given(o).s = [o.s EXCEPT !.dm = o.s.dm]
    BY <1>3, <2>1
  <2> QED BY <2>2, <2>3
<1>4. ASSUME NEW o \in mdev_create(s), NEW p \in Rest(o)
      PROVE  Given(p).s \in MdevRec /\ MdevOK(Given(p).s) /\ Given(p).s.calls = s.calls
  <2>1. /\ o \in MdevOuts /\ o.s \in MdevRec /\ MdevOK(o.s) /\ o.s.calls = s.calls
        /\ o.s.held = {} /\ (~o.ok => o.s.dm = "none") /\ o.ok \in BOOLEAN
    BY <1>1, MdevMadeOuts DEF MdevOuts
  <2>2. \/ p \in MdevOuts /\ p.s = o.s /\ p.ok = o.ok
        \/ o.ok /\ p \in Dif(o.s)
    <3>1. [s |-> o.s, ok |-> TRUE] \in MdevOuts
      BY <2>1 DEF MdevOuts
    <3> HIDE DEF Dif
    <3>2. CASE ~o.ok
      <4>1. p = o
        BY <3>2
      <4> QED BY <2>1, <4>1
    <3>3. CASE o.ok
      <4>1. p = [s |-> o.s, ok |-> TRUE] \/ p \in Dif(o.s)
        BY <3>3 DEF Ok
      <4>2. o.ok = TRUE
        BY <2>1, <3>3
      <4> HIDE DEF Rest
      <4>3. CASE p = [s |-> o.s, ok |-> TRUE]
        <5>1. p \in MdevOuts
          BY <3>1, <4>3
        <5>2. p.s = o.s
          BY <4>3
        <5>3. p.ok = o.ok
          BY <4>2, <4>3
        <5> QED BY <5>1, <5>2, <5>3
      <4>4. CASE p \in Dif(o.s)
        BY Zenon, <3>3, <4>4
      <4> QED BY <4>1, <4>3, <4>4
    <3> QED BY <3>2, <3>3
  <2>3. CASE p \in MdevOuts /\ p.s = o.s /\ p.ok = o.ok
    BY <1>3, <2>1, <2>3
  <2>4. CASE o.ok /\ p \in Dif(o.s)
    <3>1. PICK q \in usdr_dif_init(o.s) :
            p \in IF q.ok THEN {q} ELSE {[r EXCEPT !.ok = FALSE] : r \in Ok([q.s EXCEPT !.leak = TRUE])}
      BY <2>4
    <3>2. CASE q \in Ok([o.s EXCEPT !.dbg = TRUE])
      <4> DEFINE h == [o.s EXCEPT !.dbg = TRUE]
      <4>1. h \in MdevRec /\ MdevAlike(o.s, h)
        BY <2>1 DEF MdevRec, MdevAlike
      <4>2. q = [s |-> h, ok |-> TRUE]
        BY <3>2 DEF Ok
      <4> HIDE DEF h
      <4>3. MdevOK(h) /\ h.calls = s.calls
        BY <2>1, <4>1, MdevAlikeOK DEF MdevAlike
      <4>4. p = q /\ q.ok /\ q.s = h /\ q \in MdevOuts
        BY <3>1, <4>1, <4>2 DEF MdevOuts
      <4> QED BY <1>3, <4>1, <4>3, <4>4
    <3>3. CASE q \in Faulty(o.s)
      <4>1. q.s \in MdevRec /\ ~q.ok /\ MdevAlike(o.s, q.s)
        BY <2>1, <3>3, MdevFaulty DEF MdevOuts
      <4>2. MdevOK(q.s) /\ q.s.calls = s.calls /\ q.s.held = {}
        BY <2>1, <4>1, MdevAlikeOK DEF MdevAlike
      <4> DEFINE h == [q.s EXCEPT !.leak = TRUE]
                 g == [h EXCEPT !.dm = "none"]
      <4>3. p = [s |-> h, ok |-> FALSE]
        BY <3>1, <4>1 DEF Ok
      <4>4. Given(p).s = g
        <5> HIDE DEF h
        <5> QED BY <4>3
      <4>5. /\ g \in MdevRec /\ g.calls = q.s.calls /\ g.dm = "none" /\ g.leak = TRUE /\ g.held = q.s.held
            /\ g.real = q.s.real /\ g.child = q.s.child
        BY <4>1 DEF MdevRec
      <4> HIDE DEF g, Given
      <4>6. MdevOK(g)
        BY <4>2, <4>5 DEF MdevOK, MdevPaired
      <4> QED BY <4>2, <4>4, <4>5, <4>6
    <3> QED BY <3>1, <3>2, <3>3 DEF usdr_dif_init, Io
  <2> QED BY <2>2, <2>3, <2>4
<1> HIDE DEF Rest, Given
<1>5. \A p \in usdr_dmd_create(s) : p.s \in MdevRec /\ MdevOK(p.s) /\ p.s.calls = s.calls
  BY <1>2, <1>4
<1> QED BY <1>1, <1>5, MdevDone

\* One case per operation.
LEMMA MdevInductive == MdevInv /\ [MdevNext]_mdev => MdevInv'
<1> SUFFICES ASSUME MdevInv, [MdevNext]_mdev PROVE MdevInv'
  OBVIOUS
<1>1. mdev \in MdevRec /\ MdevOK(mdev) /\ mdev.held \subseteq MdevSids
  BY DEF MdevInv, MdevRec
<1>2. CASE MdevCreate
  BY <1>2, MdevCreateInv
<1>3. CASE MdevClose
  BY <1>3, MdevCloseInv
<1>4. CASE MdevOpen \/ MdevReopen
  BY <1>1, <1>4, MdevOpenInv DEF MdevOpen, MdevReopen
<1>5. CASE MdevDestroy
  BY <1>5, MdevDestroyInv
<1>6. CASE MdevStart
  <2>1. PICK sid \in mdev.held, on \in BOOLEAN : MdevDo(mstr_stream_op(mdev, sid, on))
    BY <1>6 DEF MdevStart
  <2>2. mstr_stream_op(mdev, sid, on) \subseteq MdevLike(mdev)
    BY <1>1, MdevOpAlike
  <2> QED BY <1>6, <2>1, <2>2, MdevDoneLike DEF MdevStart, MdevUp
<1>7. CASE MdevRecv
  <2>1. MdevStr(mdev, "rx").cnt = MdevCnt
    BY <1>1, <1>7 DEF MdevRecv, MdevOK, MdevThere
  <2>2. mstr_stream_recv(mdev) \subseteq MdevLike(mdev)
    BY <1>1, <2>1, MdevRecvAlike
  <2> QED BY <1>7, <2>2, MdevDoneLike DEF MdevRecv, MdevUp
<1>8. CASE MdevSend
  <2>1. MdevStr(mdev, "tx").cnt = MdevCnt
    BY <1>1, <1>8 DEF MdevSend, MdevOK, MdevThere
  <2>2. mstr_stream_send(mdev) \subseteq MdevLike(mdev)
    BY <1>1, <2>1, MdevSendAlike
  <2> QED BY <1>8, <2>2, MdevDoneLike DEF MdevSend, MdevUp
<1>9. CASE MdevSync
  <2>1. PICK type \in {"all", "sysref"} : MdevDo(mdev_stream_sync(mdev, mdev.held, type))
    BY <1>9 DEF MdevSync
  <2>2. mdev_stream_sync(mdev, mdev.held, type) \subseteq MdevLike(mdev)
    BY <1>1, MdevSyncAlike
  <2> QED BY <1>9, <2>1, <2>2, MdevDoneLike DEF MdevSync, MdevUp
<1>10. CASE MdevSet
  <2>1. PICK vs \in {<<1>>, <<2, 1>>}, stop \in BOOLEAN : MdevDo(usdr_dme_findsetv_uint(mdev, vs, stop))
    BY <1>10 DEF MdevSet
  <2>2. vs \in Seq(Nat)
    <3>1. <<1>> \in Seq(Nat)
      OBVIOUS
    <3>2. <<2, 1>> \in Seq(Nat)
      OBVIOUS
    <3> QED BY <3>1, <3>2, Zenon
  <2>3. usdr_dme_findsetv_uint(mdev, vs, stop) \subseteq MdevLike(mdev)
    BY <1>1, <2>2, MdevFindsetAlike
  <2> QED BY <1>10, <2>1, <2>3, MdevDoneLike DEF MdevSet, MdevUp
<1>11. CASE UNCHANGED mdev
  BY <1>11 DEF MdevInv, MdevOK, MdevPaired, MdevThere, MdevStr, MdevMarked
<1> QED BY <1>2, <1>3, <1>4, <1>5, <1>6, <1>7, <1>8, <1>9, <1>10, <1>11 DEF MdevNext

\* mdev.c behind dm_dev.c: a stream the caller holds is whole, on any number of
\* devices and whichever calls failed before, but for the first device's mark
\* after a refused creation; and no failed creation, whichever of its steps
\* failed for whichever device, leaves a device open, but for the one that fails
\* on its debug service.
THEOREM MdevAlwaysWhole == MdevSpec => []MdevWhole
<1>1. MdevInv => MdevWhole
  <2> SUFFICES ASSUME MdevInv PROVE MdevHandleWhole /\ MdevNoneLeft
    BY DEF MdevWhole
  <2>1. mdev \in MdevRec /\ MdevOK(mdev)
    BY DEF MdevInv
  <2>2. ASSUME NEW sid \in mdev.held, NEW i \in MdevDevs
        PROVE  /\ sid \in mdev.child[i] /\ mdev.real[MdevStr(mdev, sid).type][i]
               /\ MdevStr(mdev, sid).cnt = MdevCnt
               /\ MdevMarked(mdev, sid, i) \/ (i = 1 /\ MdevSlotOf(sid) \in mdev.refused)
    <3>1. MdevThere(mdev, sid) /\ sid \in MdevSids
      BY <2>1 DEF MdevOK, MdevRec
    <3>2. sid \in mdev.child[i] /\ sid # "aux"
      BY <2>1, <3>1 DEF MdevThere, MdevOK, MdevPaired
    <3> QED BY <2>1, <3>1, <3>2, MdevSlotFacts DEF MdevThere, MdevOK, MdevPaired, MdevSids
  <2> QED BY <2>1, <2>2 DEF MdevHandleWhole, MdevNoneLeft, MdevOK
<1> QED BY <1>1, MdevInitially, MdevInductive, PTL DEF MdevSpec
=============================================================================
