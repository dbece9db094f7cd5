----------------------------- MODULE AppProofs -----------------------------
(***************************************************************************)
(* Proofs about the applications of the library: usdr_dm_create, its ring  *)
(* buffers and the program that moves blocks through them, and the         *)
(* SoapySDR plug-in.                                                       *)
(*                                                                         *)
(* RingBuffer, for every number of slots and every run that grants fewer   *)
(* indices than an unsigned has values.  Beyond that bound the properties  *)
(* do not hold: index 2^32 - 1 is IDX_TIMEDOUT.                            *)
(*                                                                         *)
(* DmCreate, for every number of channels, slots, samples of a block and   *)
(* samples of the files.  Its invariant says what a ring of the transmit   *)
(* side holds: the file of its channel from where it is sent next to where *)
(* it is read next.                                                        *)
(*                                                                         *)
(* SoapyPlugin, for any plug-in objects, sizes of packets, of jitter       *)
(* buffers and of reads.  Its invariant says where the next read of a      *)
(* stream goes on.                                                         *)
(***************************************************************************)
EXTENDS RingBuffer, DmCreate, SoapyPlugin, SharedLemmas, TLAPS

-----------------------------------------------------------------------------
IInv == TypeOK /\ RingInv

LEMMA AtRange == ASSUME NEW i \in Nat PROVE At(i) \in 0..Items-1
BY RingAssumption DEF At

LEMMA InitIInv == Init => IInv
BY RingAssumption DEF Init, IInv, TypeOK, RingInv, FifoOrder, FreeSlots

\* The threads hold indices less than Items apart, hence different slots.
LEMMA IInvNoConflict ==
    ASSUME IInv PROVE NoSlotConflict
<1> SUFFICES ASSUME pst # "wait", cst # "wait" PROVE At(pret) # At(cret)
  BY DEF NoSlotConflict
<1>1. /\ pret = sent /\ cret = got
      /\ got \in Nat /\ sent \in Nat
      /\ got < sent /\ sent - got < Items
  BY RingAssumption DEF IInv, TypeOK, RingInv
<1> QED BY <1>1, SlotInjective, RingAssumption DEF At

\* One step of either thread preserves the invariant, if indices cannot wrap.
LEMMA StepIInv ==
    ASSUME MaxPackets < IdxMod, IInv, [Next]_vars
    PROVE  IInv'
<1> USE RingAssumption
<1>1. CASE Pwait
  <2>0. pidx = sent /\ pidx + 1 \in 0..IdxMod-1
    BY <1>1 DEF Pwait, IInv, TypeOK, RingInv, FifoOrder
  <2>1. (pidx + 1) % IdxMod = pidx + 1
    BY <2>0, NoWrap
  <2>2. pret' = sent /\ pret' # IDX_TIMEDOUT /\ pst' = "fill" /\ pidx' = sent + 1
    BY <1>1, <2>0, <2>1 DEF Pwait, IDX_TIMEDOUT, IInv, TypeOK, RingInv, FifoOrder
  <2> QED BY <1>1, <2>0, <2>2 DEF Pwait, IInv, TypeOK, RingInv, FifoOrder
<1>2. CASE PwaitTimedOut
  BY <1>2 DEF PwaitTimedOut, IDX_TIMEDOUT, IInv, TypeOK, RingInv, FifoOrder
<1>3. CASE Fill
  <2>1. pret = sent /\ sent < MaxPackets /\ At(sent) \in 0..Items-1
    <3>1. pret = sent /\ sent < MaxPackets /\ sent \in Nat
      BY <1>3 DEF Fill, IInv, TypeOK, RingInv
    <3> QED BY <3>1, AtRange
  <2>2. \A i \in 0..MaxPackets : got <= i /\ i < sent => At(i) # At(sent)
    <3> SUFFICES ASSUME NEW i \in 0..MaxPackets, got <= i, i < sent
                 PROVE  At(i) # At(sent)
      OBVIOUS
    <3>1. i \in Nat /\ sent \in Nat /\ sent - i < Items
      BY <1>3 DEF Fill, IInv, TypeOK, RingInv, FifoOrder
    <3> QED BY <3>1, SlotInjective DEF At
  <2>3. slot' = [slot EXCEPT ![At(sent)] = sent + 1]
    BY <1>3, <2>1 DEF Fill, IInv, TypeOK, RingInv, FifoOrder
  <2>4. \A i \in 0..MaxPackets : got <= i /\ i < sent => slot'[At(i)] = i + 1
    <3> SUFFICES ASSUME NEW i \in 0..MaxPackets, got <= i, i < sent
                 PROVE  slot'[At(i)] = i + 1
      OBVIOUS
    <3>1. slot[At(i)] = i + 1 /\ slot \in [0..Items-1 -> 0..MaxPackets]
      BY DEF IInv, TypeOK, RingInv
    <3>2. At(i) \in 0..Items-1 /\ At(i) # At(sent)
      BY <2>2, AtRange
    <3> QED BY <2>3, <3>1, <3>2
  <2>5. slot'[At(sent)] = sent + 1 /\ slot' \in [0..Items-1 -> 0..MaxPackets]
    BY <2>1, <2>3 DEF IInv, TypeOK
  <2> QED BY <1>3, <2>1, <2>4, <2>5 DEF Fill, IInv, TypeOK, RingInv, FifoOrder
<1>4. CASE Ppost
  <2>1. \A i \in 0..MaxPackets : got <= i /\ i < sent + 1 => slot[At(i)] = i + 1
    BY <1>4 DEF Ppost, IInv, TypeOK, RingInv, FifoOrder
  <2> QED BY <1>4, <2>1 DEF Ppost, SemPost, IInv, TypeOK, RingInv, FifoOrder
<1>5. CASE Cwait
  <2>0. cidx = got /\ cidx + 1 \in 0..IdxMod-1
    BY <1>5 DEF Cwait, IInv, TypeOK, RingInv, FifoOrder
  <2>1. (cidx + 1) % IdxMod = cidx + 1
    BY <2>0, NoWrap
  <2>2. cret' = got /\ cret' # IDX_TIMEDOUT /\ cst' = "read" /\ cidx' = got + 1
    BY <1>5, <2>0, <2>1 DEF Cwait, IDX_TIMEDOUT, IInv, TypeOK, RingInv, FifoOrder
  <2> QED BY <1>5, <2>0, <2>2 DEF Cwait, IInv, TypeOK, RingInv, FifoOrder
<1>6. CASE CwaitTimedOut
  BY <1>6 DEF CwaitTimedOut, IDX_TIMEDOUT, IInv, TypeOK, RingInv, FifoOrder
<1>7. CASE Read
  <2>1. slot[At(got)] = got + 1 /\ cret = got /\ got < sent
    BY <1>7 DEF Read, IInv, TypeOK, RingInv, FifoOrder
  <2> QED BY <1>7, <2>1 DEF Read, IInv, TypeOK, RingInv, FifoOrder
<1>8. CASE Cpost
  BY <1>8 DEF Cpost, SemPost, IInv, TypeOK, RingInv, FifoOrder
<1>9. CASE UNCHANGED vars
  BY <1>9 DEF vars, IInv, TypeOK, RingInv, FifoOrder
<1> QED
  BY <1>1, <1>2, <1>3, <1>4, <1>5, <1>6, <1>7, <1>8, <1>9
  DEF Next, Produce, Consume

\* Before an index wraps, the ring is type correct and its credits, indices
\* and slot contents stay consistent.
THEOREM RingInvariant ==
    ASSUME MaxPackets < IdxMod PROVE Spec => [](TypeOK /\ RingInv)
<1>1. IInv /\ [Next]_vars => IInv'
  BY StepIInv
<1> QED BY <1>1, InitIInv, PTL DEF Spec, IInv

\* ring_buffer_at never gives both threads the same slot.
THEOREM RingNoSlotConflict ==
    ASSUME MaxPackets < IdxMod PROVE Spec => []NoSlotConflict
<1>1. IInv /\ [Next]_vars => IInv'
  BY StepIInv
<1>2. IInv => NoSlotConflict
  BY IInvNoConflict
<1> QED BY <1>1, <1>2, InitIInv, PTL DEF Spec

\* The consumer sees the packets in the order they were posted.
THEOREM RingFifoOrder ==
    ASSUME MaxPackets < IdxMod PROVE Spec => []FifoOrder
<1>1. IInv /\ [Next]_vars => IInv'
  BY StepIInv
<1>2. IInv => FifoOrder
  BY DEF IInv, RingInv
<1> QED BY <1>1, <1>2, InitIInv, PTL DEF Spec

-----------------------------------------------------------------------------
(* The refinement of BoundedFifo *)

\* Below the wrap the packets seen as the queue are the posted and not yet
\* released ones: got + 1, got + 2, ... up to sent.
LEMMA QueueIs ==
    IInv => /\ Queue = Numbered(got, sent - got)
            /\ sent - got \in 0..Items
<1> SUFFICES ASSUME IInv
             PROVE  /\ Queue = Numbered(got, sent - got)
                    /\ sent - got \in 0..Items
  OBVIOUS
<1>1. /\ sent \in 0..MaxPackets /\ got \in Nat /\ MaxPackets \in Nat
      /\ sent - got \in 0..Items
  BY RingAssumption DEF IInv, TypeOK, RingInv
<1>2. ASSUME NEW k \in 1..(sent - got)
      PROVE  slot[At(got + k - 1)] = got + k
  <2>1. got + k - 1 \in 0..MaxPackets /\ got <= got + k - 1 /\ got + k - 1 < sent
    BY <1>1
  <2>2. slot[At(got + k - 1)] = (got + k - 1) + 1
    BY <2>1 DEF IInv, RingInv
  <2> QED BY <1>1, <2>2
<1>3. Queue = Numbered(got, sent - got)
  BY <1>2 DEF Queue, Numbered
<1> QED BY <1>1, <1>3

\* Ppost is a Put and Cpost a Take; every other step leaves the queue alone.
LEMMA StepFifo ==
    ASSUME IInv, IInv', [Next]_vars
    PROVE  [Fifo!Next]_<<Queue, sent, got>>
<1> USE RingAssumption
<1> DEFINE n == sent - got
<1>1. Queue = Numbered(got, n) /\ n \in Nat /\ n <= Items
  BY QueueIs
<1>2. Queue' = Numbered(got', n')
  <2>1. (IInv => Queue = Numbered(got, sent - got))'
    BY QueueIs, PTL
  <2> QED BY <2>1
<1>3. /\ sent \in Nat /\ got \in Nat /\ sent = got + n
      /\ sent' \in Nat /\ got' \in Nat
  BY DEF IInv, TypeOK
<1>4. n' <= Items
  <2>1. (IInv => sent - got \in 0..Items)'
    BY QueueIs, PTL
  <2> QED BY <2>1
<1>5. CASE Ppost
  <2>1. sent' = sent + 1 /\ got' = got /\ n' = n + 1
    BY <1>3, <1>5 DEF Ppost
  <2> HIDE DEF n
  <2>2. Queue' = Append(Queue, sent')
    BY <1>1, <1>2, <1>3, <2>1, NumberedAppend
  <2>3. Len(Queue) < Items
    BY <1>1, <1>3, <1>4, <2>1, NumberedSeq
  <2> QED BY <2>1, <2>2, <2>3 DEF Fifo!Next, Fifo!Put
<1>6. CASE Cpost
  <2>1. got' = got + 1 /\ sent' = sent /\ n' = n - 1 /\ n > 0
    BY <1>3, <1>6 DEF Cpost, IInv, TypeOK, RingInv
  <2> HIDE DEF n
  <2>2. Queue' = Tail(Queue) /\ Queue # << >> /\ Head(Queue) = got + 1
    BY <1>1, <1>2, <1>3, <2>1, NumberedTail
  <2> QED BY <2>1, <2>2 DEF Fifo!Next, Fifo!Take
<1>7. CASE sent' = sent /\ got' = got
  BY <1>1, <1>2, <1>7
<1> QED
  BY <1>5, <1>6, <1>7
  DEF Next, Produce, Consume, Pwait, PwaitTimedOut, Fill, Cwait, CwaitTimedOut,
      Read, vars

\* As long as no index wraps the ring is a bounded first-in first-out queue:
\* a post of the producer is a Put, a post of the consumer a Take, and nothing
\* else the threads do shows.
THEOREM RingImplementsFifo ==
    ASSUME MaxPackets < IdxMod PROVE Spec => ImplementsFifo
<1>1. Init => Fifo!Init
  BY DEF Init, Fifo!Init, Queue
<1>2. IInv /\ [Next]_vars => IInv'
  BY StepIInv
<1>3. IInv /\ IInv' /\ [Next]_vars => [Fifo!Next]_<<Queue, sent, got>>
  BY StepFifo
<1> QED BY <1>1, <1>2, <1>3, InitIInv, PTL DEF Spec, ImplementsFifo, Fifo!Spec
-----------------------------------------------------------------------------
(* The program.                                                            *)
\* Its state has these fields.
AppShape(s) ==
    /\ s = [opt |-> s.opt, faults |-> s.faults, pc |-> s.pc, dev |-> s.dev, st |-> s.st, strms |-> s.strms,
            thr |-> s.thr, tbuf |-> s.tbuf, rbuf |-> s.rbuf, fp |-> s.fp, at |-> s.at, torn |-> s.torn,
            stale |-> s.stale, stm |-> s.stm, sent |-> s.sent, got |-> s.got, out |-> s.out, gap |-> s.gap,
            i |-> s.i, tstop |-> s.tstop, stop |-> s.stop, sig |-> s.sig]
    /\ s.thr = [rx |-> s.thr.rx, tx |-> s.thr.tx]
    /\ s.thr.rx = [b \in AppCh |-> s.thr.rx[b]] /\ s.thr.tx = [b \in AppCh |-> s.thr.tx[b]]
    /\ s.tbuf = [b \in AppCh |-> s.tbuf[b]] /\ s.rbuf = [b \in AppCh |-> s.rbuf[b]]
    /\ s.fp = [b \in AppCh |-> s.fp[b]] /\ s.out = [b \in AppCh |-> s.out[b]]

\* Before the threads of the transmit side are started, and after the last
\* block is sent.
AppEarly == {"open", "rate", "openrx", "opentx", "threadtx"}
AppLate == {"stoprx", "stoptx", "tstop", "join", "close", "exit"}

\* Files of several channels are cycled through.
AppSeveral(s) == s.opt.cycle /\ AppChans > 1

AppBlocks(b) == [at : 0..AppFile[b], len : 0..AppBlk, last : BOOLEAN]

\* What a ring of the transmit side holds, and where its file is read next.
AppTyped(s, b) ==
    /\ s.tbuf[b] \in Seq(AppBlocks(b)) /\ s.fp[b] \in 0..AppFile[b]
    /\ ~s.opt.file => s.fp[b] # AppFile[b]

\* The ring of a receive channel holds the blocks received and not written.
AppQueued(s, b) ==
    /\ s.out[b] \in Nat /\ s.rbuf[b] \in Seq(Nat) /\ s.out[b] + Len(s.rbuf[b]) = s.got
    /\ \A k \in 1..Len(s.rbuf[b]) : s.rbuf[b][k] = s.out[b] + k

(* A block that is not the last is full, unless the only file is cycled    *)
(* through; an empty one may stand behind the file.                        *)
AppBlockOk(s, b, k) ==
    LET q == s.tbuf[b]
    IN  /\ q[k].at = AppFile[b] => q[k].len = 0
        /\ ~s.opt.cycle /\ ~q[k].last => q[k].len = AppBlk

\* The ring of a transmit channel holds the file from where it is sent next
\* to where it is read next.
AppLined(s, b) ==
    LET q == s.tbuf[b]
        F == AppFile[b]
    IN  /\ s.at[b] \in 0..(F - 1)
        /\ \A k \in 1..Len(q) : AppBlockOk(s, b, k)
        /\ q # <<>> => q[1].at % F = s.at[b]
        /\ \A k \in 1..(Len(q) - 1) : ~q[k].last /\ q[k + 1].at % F = (q[k].at + q[k].len) % F
        /\ s.thr.tx[b] # "end" =>
              IF q = <<>> THEN s.fp[b] % F = s.at[b]
              ELSE ~q[Len(q)].last /\ s.fp[b] % F = (q[Len(q)].at + q[Len(q)].len) % F

\* The inductive invariant.
AppInv(s) ==
    /\ AppShape(s) /\ s.opt \in AppOpts
    /\ s.sent \in Nat /\ s.stm = AppBlk + s.sent
    /\ s.torn => s.stale \/ AppSeveral(s)
    /\ ~s.gap /\ s.got \in Nat /\ \A b \in AppCh : AppQueued(s, b) /\ AppTyped(s, b)
    /\ s.pc \in AppEarly => \A b \in AppCh : s.thr.tx[b] = "no"
    /\ s.stale \/ AppSeveral(s) \/ s.pc \in AppLate \/ \A b \in AppCh : AppLined(s, b)
-----------------------------------------------------------------------------
\* Nothing but the control of the main thread and of threads changes.
AppSame(s, t) ==
    /\ AppShape(t) /\ t.opt = s.opt /\ t.pc = s.pc
    /\ t.tbuf = s.tbuf /\ t.rbuf = s.rbuf /\ t.fp = s.fp /\ t.at = s.at /\ t.torn = s.torn
    /\ t.stm = s.stm /\ t.sent = s.sent /\ t.got = s.got /\ t.out = s.out /\ t.gap = s.gap
    /\ s.stale => t.stale
    /\ \A b \in AppCh : t.thr.tx[b] # "end" => s.thr.tx[b] # "end"

\* A step of that kind, to the place pc in the main thread.
AppMove(s, t, pc) ==
    /\ \E u : AppSame(s, u) /\ t = [u EXCEPT !.pc = pc]
    /\ s.pc \in AppLate => pc \in AppLate
    /\ pc \in AppEarly => s.pc \in AppEarly /\ t.thr.tx = s.thr.tx

LEMMA AppMoved ==
    ASSUME NEW s, AppInv(s), NEW t, NEW pc, AppMove(s, t, pc)
    PROVE  AppInv(t)
<1>1. PICK u : AppSame(s, u) /\ t = [u EXCEPT !.pc = pc]
  BY DEF AppMove
<1>2. AppShape(u)
  BY <1>1 DEF AppSame
<1>3. /\ t.opt = u.opt /\ t.pc = pc /\ t.tbuf = u.tbuf /\ t.rbuf = u.rbuf /\ t.fp = u.fp /\ t.at = u.at
      /\ t.torn = u.torn /\ t.stm = u.stm /\ t.sent = u.sent /\ t.got = u.got /\ t.out = u.out /\ t.gap = u.gap
      /\ t.stale = u.stale /\ t.thr = u.thr /\ AppShape(t)
  BY <1>1, <1>2 DEF AppShape
<1>4. /\ t.opt = s.opt /\ t.tbuf = s.tbuf /\ t.rbuf = s.rbuf /\ t.fp = s.fp /\ t.at = s.at
      /\ t.torn = s.torn /\ t.stm = s.stm /\ t.sent = s.sent /\ t.got = s.got /\ t.out = s.out /\ t.gap = s.gap
      /\ (s.stale => t.stale) /\ \A b \in AppCh : t.thr.tx[b] # "end" => s.thr.tx[b] # "end"
  BY <1>1, <1>3 DEF AppSame
<1>5. \A b \in AppCh : AppQueued(t, b) /\ AppTyped(t, b)
  BY <1>4 DEF AppInv, AppQueued, AppTyped
<1>6. t.pc \in AppEarly => \A b \in AppCh : t.thr.tx[b] = "no"
  BY <1>3 DEF AppInv, AppMove
<1>7. \A b \in AppCh : AppLined(s, b) => AppLined(t, b)
  BY <1>4 DEF AppLined, AppBlockOk
<1>8. t.stale \/ AppSeveral(t) \/ t.pc \in AppLate \/ \A b \in AppCh : AppLined(t, b)
  BY <1>3, <1>4, <1>7 DEF AppInv, AppMove, AppSeveral
<1> QED
  BY <1>3, <1>4, <1>5, <1>6, <1>8 DEF AppInv, AppSeveral
-----------------------------------------------------------------------------
(* The steps of the main thread but those that move blocks.                *)
AppKeep(s, t) == AppSame(s, t) /\ t.thr = s.thr

LEMMA AppPlain ==
    ASSUME NEW s, AppShape(s), NEW v, NEW w,
           NEW t \in {s, [s EXCEPT !.faults = v], [s EXCEPT !.dev = v], [s EXCEPT !.st = v], [s EXCEPT !.tstop = v],
                      [s EXCEPT !.i = v], [s EXCEPT !.strms = v, !.sig = w], [s EXCEPT !.stop = v],
                      [s EXCEPT !.stale = TRUE]}
    PROVE  AppKeep(s, t)
<1>1. CASE t = s
  BY <1>1 DEF AppKeep, AppSame
<1>2. CASE t = [s EXCEPT !.faults = v]
  BY <1>2 DEF AppKeep, AppSame, AppShape
<1>3. CASE t = [s EXCEPT !.dev = v]
  BY <1>3 DEF AppKeep, AppSame, AppShape
<1>4. CASE t = [s EXCEPT !.st = v]
  BY <1>4 DEF AppKeep, AppSame, AppShape
<1>5. CASE t = [s EXCEPT !.tstop = v]
  BY <1>5 DEF AppKeep, AppSame, AppShape
<1>6. CASE t = [s EXCEPT !.i = v]
  BY <1>6 DEF AppKeep, AppSame, AppShape
<1>7. CASE t = [s EXCEPT !.strms = v, !.sig = w]
  BY <1>7 DEF AppKeep, AppSame, AppShape
<1>8. CASE t = [s EXCEPT !.stop = v]
  BY <1>8 DEF AppKeep, AppSame, AppShape
<1>9. CASE t = [s EXCEPT !.stale = TRUE]
  BY <1>9 DEF AppKeep, AppSame, AppShape
<1> QED BY <1>1, <1>2, <1>3, <1>4, <1>5, <1>6, <1>7, <1>8, <1>9

LEMMA AppSetSt ==
    ASSUME NEW s, AppShape(s), NEW v PROVE AppKeep(s, [s EXCEPT !.st = v])
BY AppPlain

LEMMA AppFault ==
    ASSUME NEW s, AppShape(s), NEW o \in Faulty(s) PROVE AppKeep(s, o.s)
<1>1. o.s = [s EXCEPT !.faults = s.faults - 1]
  BY DEF Faulty, Fail
<1>2. AppKeep(s, [s EXCEPT !.faults = s.faults - 1])
  BY AppPlain
<1> QED BY <1>1, <1>2

LEMMA AppKeepTrans ==
    ASSUME NEW s, NEW t, NEW u, AppKeep(s, t), AppKeep(t, u)
    PROVE  AppKeep(s, u)
BY DEF AppKeep, AppSame

LEMMA AppKeepShape ==
    ASSUME NEW s, NEW t, AppKeep(s, t) PROVE AppShape(t)
BY DEF AppKeep, AppSame

\* A call of the library.
LEMMA AppIo ==
    ASSUME NEW s, AppShape(s), NEW t, AppKeep(s, t), NEW x \in Io(s, t)
    PROVE  AppKeep(s, x.s)
<1>1. x.s = t \/ x.s = [s EXCEPT !.faults = s.faults - 1]
  BY DEF Io, Ok, Faulty, Fail
<1>2. AppKeep(s, [s EXCEPT !.faults = s.faults - 1])
  BY AppPlain
<1> QED BY <1>1, <1>2

LEMMA AppIoSelf ==
    ASSUME NEW s, AppShape(s), NEW x \in Io(s, s)
    PROVE  AppKeep(s, x.s)
BY AppPlain, AppIo

\* Where the main thread goes from there.
LEMMA AppGoes ==
    ASSUME NEW s, NEW t, AppKeep(s, t), NEW pc, NEW x \in AppGo(t, pc),
           s.pc \in AppLate => pc \in AppLate, pc \in AppEarly => s.pc \in AppEarly
    PROVE  AppMove(s, x.s, pc)
<1>1. x.s = [t EXCEPT !.pc = pc]
  BY DEF AppGo, Ok
<1>2. AppShape(t) /\ t.thr = s.thr
  BY DEF AppKeep, AppSame
<1>3. [t EXCEPT !.pc = pc].thr = s.thr
  BY <1>2 DEF AppShape
<1> QED BY <1>1, <1>3 DEF AppMove, AppKeep

LEMMA AppStepMoves ==
    ASSUME NEW s, AppShape(s), NEW S, \A o \in S : AppKeep(s, o.s), NEW pc,
           s.pc \in AppLate => pc \in AppLate, pc \in AppEarly => s.pc \in AppEarly,
           NEW x \in AppStep(s, S, pc) \cup AppMust(S, pc)
    PROVE  \E q : AppMove(s, x.s, q)
<1>1. PICK o \in S, q \in {pc, "close"} : x \in AppGo(o.s, q)
  BY DEF AppStep, AppMust
<1>2. (s.pc \in AppLate => q \in AppLate) /\ (q \in AppEarly => s.pc \in AppEarly)
  BY <1>1 DEF AppLate, AppEarly
<1> QED BY <1>1, <1>2, AppGoes

LEMMA AppOpenMoves ==
    ASSUME NEW s, AppShape(s), s.pc = "open", NEW x \in AppOpen(s)
    PROVE  \E q : AppMove(s, x.s, q)
<1> DEFINE t == [s EXCEPT !.dev = TRUE]
<1>1. AppKeep(s, t)
  BY AppPlain
<1> HIDE DEF t
<1>2. PICK o \in Io(s, t) :
         x \in IF ~o.ok THEN AppGo(o.s, "exit")
               ELSE UNION {AppGo(p.s, IF p.ok \/ ~s.opt.soe THEN "rate" ELSE "exit") : p \in Io(o.s, o.s)}
  BY DEF AppOpen, t
<1>3. AppKeep(s, o.s) /\ AppShape(o.s)
  BY <1>1, AppIo, AppKeepShape
<1>4. CASE ~o.ok
  <2>1. x \in AppGo(o.s, "exit")
    BY <1>2, <1>4
  <2> QED BY <1>3, <2>1, AppGoes DEF AppLate, AppEarly
<1>5. CASE o.ok
  <2>1. PICK p \in Io(o.s, o.s), q \in {"rate", "exit"} : x \in AppGo(p.s, q)
    BY <1>2, <1>5
  <2>2. AppKeep(s, p.s)
    BY <1>3, AppIoSelf, AppKeepTrans
  <2>3. (s.pc \in AppLate => q \in AppLate) /\ (q \in AppEarly => s.pc \in AppEarly)
    BY <2>1 DEF AppLate, AppEarly
  <2> QED BY <2>1, <2>2, <2>3, AppGoes
<1> QED BY <1>4, <1>5

LEMMA AppRateMoves ==
    ASSUME NEW s, AppShape(s), s.pc = "rate", NEW x \in AppRate(s)
    PROVE  \E q : AppMove(s, x.s, q)
<1> DEFINE S == Then(Ignore(Io(s, s)), LAMBDA t : Io(t, t))
<1>1. ASSUME NEW o \in S PROVE AppKeep(s, o.s)
  <2>1. PICK y \in Ignore(Io(s, s)) : o \in IF y.ok THEN Io(y.s, y.s) ELSE {y}
    BY DEF Then
  <2>2. PICK z \in Io(s, s) : y = [z EXCEPT !.ok = TRUE]
    BY <2>1 DEF Ignore
  <2>3. z = [s |-> z.s, ok |-> z.ok]
    <3>1. z \in Ok(s) \/ z \in Fail([s EXCEPT !.faults = s.faults - 1])
      BY DEF Io, Faulty
    <3> QED BY <3>1 DEF Ok, Fail
  <2>4. y.s = z.s
    BY <2>2, <2>3
  <2>5. AppKeep(s, y.s) /\ AppShape(y.s)
    BY <2>4, AppIoSelf, AppKeepShape
  <2> QED BY <2>1, <2>5, AppIoSelf, AppKeepTrans
<1>2. x \in AppStep(s, S, "openrx")
  BY DEF AppRate
<1> HIDE DEF S
<1> QED BY <1>1, <1>2, AppStepMoves DEF AppLate, AppEarly

LEMMA AppOpenStreamMoves ==
    ASSUME NEW s, AppShape(s), NEW d, NEW pc, pc \in AppEarly, s.pc \in AppEarly, NEW x \in AppOpenStream(s, d, pc)
    PROVE  \E q : AppMove(s, x.s, q)
<1>0. s.pc \notin AppLate
  BY DEF AppLate, AppEarly
<1>1. CASE ~s.opt[d]
  <2>1. x \in AppGo(s, pc)
    BY <1>1 DEF AppOpenStream
  <2>2. AppKeep(s, s)
    BY AppPlain
  <2> QED BY <1>0, <2>1, <2>2, AppGoes
<1>2. CASE s.opt[d]
  <2> DEFINE u == [s EXCEPT !.st[d] = "open"]
             S == Then(Io(s, u), LAMBDA t : Io(t, t))
  <2>0. AppKeep(s, u)
    <3>1. u = [s EXCEPT !.st = [s.st EXCEPT ![d] = "open"]]
      OBVIOUS
    <3> HIDE DEF u
    <3> QED BY <3>1, AppSetSt
  <2> HIDE DEF u
  <2>1. ASSUME NEW o \in S PROVE AppKeep(s, o.s)
    <3>1. PICK y \in Io(s, u) : o \in IF y.ok THEN Io(y.s, y.s) ELSE {y}
      BY DEF Then
    <3>2. AppKeep(s, y.s) /\ AppShape(y.s)
      BY <2>0, AppIo, AppKeepShape
    <3> QED BY <3>1, <3>2, AppIoSelf, AppKeepTrans
  <2>2. x \in AppMust(S, pc)
    BY <1>2 DEF AppOpenStream, u
  <2> HIDE DEF S
  <2> QED BY <1>0, <2>1, <2>2, AppStepMoves
<1> QED BY <1>1, <1>2

LEMMA AppStartMoves ==
    ASSUME NEW s, AppShape(s), s.pc \in {"startrx", "starttx", "stoprx", "stoptx"}, NEW d, NEW pc,
           pc \notin AppEarly, s.pc \in AppLate => pc \in AppLate, NEW x \in AppStart(s, d, pc) \cup AppStop(s, d, pc)
    PROVE  \E q : AppMove(s, x.s, q)
<1>1. CASE ~s.opt[d]
  <2>1. x \in AppGo(s, pc)
    BY <1>1 DEF AppStart, AppStop
  <2>2. AppKeep(s, s)
    BY AppPlain
  <2> QED BY <2>1, <2>2, AppGoes
<1>2. CASE s.opt[d]
  <2> DEFINE u(v) == [s EXCEPT !.st[d] = v]
  <2>0. ASSUME NEW v PROVE AppKeep(s, u(v))
    <3>1. u(v) = [s EXCEPT !.st = [s.st EXCEPT ![d] = v]]
      OBVIOUS
    <3> HIDE DEF u
    <3> QED BY <3>1, AppSetSt
  <2> HIDE DEF u
  <2>1. PICK v : x \in AppStep(s, Io(s, u(v)), pc) \cup AppMust(Io(s, u(v)), pc)
    BY <1>2 DEF AppStart, AppStop, u
  <2>2. \A o \in Io(s, u(v)) : AppKeep(s, o.s)
    BY <2>0, AppIo
  <2> QED BY <2>1, <2>2, AppStepMoves
<1> QED BY <1>1, <1>2

LEMMA AppSyncMoves ==
    ASSUME NEW s, AppShape(s),
           NEW x, \/ s.pc = "off" /\ x \in AppSyncOff(s)
                  \/ s.pc = "sync" /\ x \in AppSync(s)
                  \/ s.pc = "params" /\ x \in AppParams(s)
                  \/ s.pc = "tstop" /\ x \in AppStopThreads(s)
    PROVE  \E q : AppMove(s, x.s, q)
<1> DEFINE t == [s EXCEPT !.strms = TRUE, !.sig = TRUE]
           u == [s EXCEPT !.tstop = TRUE]
<1>1. AppKeep(s, t) /\ AppKeep(s, u) /\ AppKeep(s, s)
  BY AppPlain
<1>2. AppShape(t) /\ AppShape(u)
  BY <1>1, AppKeepShape
<1> HIDE DEF t, u
<1>3. \A o \in Io(t, t) \cup Io(u, u) \cup Io(s, s) : AppKeep(s, o.s)
  BY <1>1, <1>2, AppIoSelf, AppKeepTrans
<1>4. CASE s.pc = "off" /\ x \in AppSyncOff(s)
  <2>1. x \in AppStep(s, Io(t, t), "startrx")
    BY <1>4 DEF AppSyncOff, t
  <2> QED BY <1>3, <1>4, <2>1, AppStepMoves DEF AppLate, AppEarly
<1>5. CASE s.pc = "sync" /\ x \in AppSync(s)
  <2>1. x \in AppStep(s, Io(s, s), "params")
    BY <1>5 DEF AppSync
  <2> QED BY <1>3, <1>5, <2>1, AppStepMoves DEF AppLate, AppEarly
<1>6. CASE s.pc = "params" /\ x \in AppParams(s)
  <2>1. x \in AppStep(s, Io(s, s), "loop")
    BY <1>6 DEF AppParams
  <2> QED BY <1>3, <1>6, <2>1, AppStepMoves DEF AppLate, AppEarly
<1>7. CASE s.pc = "tstop" /\ x \in AppStopThreads(s)
  <2>1. x \in AppMust(Io(u, u), "join")
    BY <1>7 DEF AppStopThreads, u
  <2> QED BY <1>3, <1>7, <2>1, AppStepMoves DEF AppLate, AppEarly
<1> QED BY <1>4, <1>5, <1>6, <1>7

LEMMA AppEndMoves ==
    ASSUME NEW s, AppShape(s),
           NEW x, \/ s.pc = "loop" /\ x \in AppLoop(s)
                  \/ s.pc = "join" /\ x \in AppGo(s, "close")
                  \/ s.pc = "close" /\ x \in AppClose(s)
    PROVE  \E q : AppMove(s, x.s, q)
<1>1. AppKeep(s, s)
  BY AppPlain
<1>2. CASE s.pc = "loop" /\ x \in AppLoop(s)
  <2>1. PICK q \in {"stoprx", "send"} : x \in AppGo(s, q)
    BY <1>2 DEF AppLoop
  <2>2. s.pc \notin AppLate /\ q \notin AppEarly
    BY <1>2, <2>1 DEF AppLate, AppEarly
  <2> QED BY <1>1, <2>1, <2>2, AppGoes
<1>3. CASE s.pc = "join" /\ x \in AppGo(s, "close")
  BY <1>1, <1>3, AppGoes DEF AppLate, AppEarly
<1>4. CASE s.pc = "close" /\ x \in AppClose(s)
  <2> DEFINE v == [d \in {"rx", "tx"} |-> "none"]
             t == IF s.strms THEN [s EXCEPT !.st = v] ELSE s
             u == [t EXCEPT !.dev = FALSE]
  <2>1. AppKeep(s, t)
    BY <1>1, AppSetSt
  <2>2. x \in AppGo(u, "exit")
    BY <1>4 DEF AppClose
  <2> HIDE DEF t
  <2>3. AppKeep(t, u)
    BY <2>1, AppKeepShape, AppPlain
  <2> HIDE DEF u
  <2>4. AppKeep(s, u)
    BY <2>1, <2>3, AppKeepTrans
  <2> QED BY <1>4, <2>2, <2>4, AppGoes DEF AppLate, AppEarly
<1> QED BY <1>2, <1>3, <1>4
-----------------------------------------------------------------------------
(* The loop that starts the threads of a direction.                        *)
AppStartAll(s, d) == ForEach(s, [b \in AppCh |-> b], LAMBDA t, b : Io(t, [t EXCEPT !.thr[d][b] = "top"]))

LEMMA AppThreadLoop ==
    ASSUME NEW s, NEW d, NEW V, Ok(s) \subseteq V[0],
           \A n \in 1..AppChans : \A o \in V[n - 1] :
               (IF o.ok THEN Io(o.s, [o.s EXCEPT !.thr[d][n] = "top"]) ELSE {o}) \subseteq V[n]
    PROVE  AppStartAll(s, d) \subseteq V[AppChans]
<1> DEFINE es == [b \in AppCh |-> b]
           B(n, X) == UNION {IF o.ok THEN Io(o.s, [o.s EXCEPT !.thr[d][es[n]] = "top"]) ELSE {o} : o \in X}
           Eq(f) == f = [n \in 0..Len(es) |-> IF n = 0 THEN Ok(s) ELSE B(n, f[n - 1])]
           G == [n \in 1..AppChans |-> [X \in SUBSET V[n - 1] |-> B(n, X)]]
           at == CHOOSE f : Eq(f)
<1>1. AppStartAll(s, d) = at[Len(es)]
  BY Zenon DEF AppStartAll, ForEach, Then
<1>2. Len(es) = AppChans /\ AppChans \in Nat /\ \A n \in 1..AppChans : es[n] = n
  <2>1. AppChans \in Nat
    BY AppAssumption
  <2>2. es \in Seq(1..AppChans) /\ DOMAIN es = 1..AppChans
    BY <2>1 DEF AppCh
  <2> QED BY <2>1, <2>2 DEF AppCh
<1> HIDE DEF es
<1>3. ASSUME NEW n \in 1..AppChans, NEW X \in SUBSET V[n - 1] PROVE B(n, X) \in SUBSET V[n]
  <2> SUFFICES ASSUME NEW x \in B(n, X) PROVE x \in V[n]
    OBVIOUS
  <2>1. PICK o \in X : x \in IF o.ok THEN Io(o.s, [o.s EXCEPT !.thr[d][n] = "top"]) ELSE {o}
    BY <1>2
  <2> QED BY <2>1
<1> HIDE DEF B
<1>4. \A n \in 1..AppChans : \A X \in SUBSET V[n - 1] : G[n][X] = B(n, X)
  OBVIOUS
<1> HIDE DEF G
<1>5. PICK f : /\ f = [n \in 0..AppChans |-> IF n = 0 THEN Ok(s) ELSE G[n][f[n - 1]]]
               /\ \A n \in 0..AppChans : f[n] \in SUBSET V[n]
  <2>1. ASSUME NEW n \in 1..AppChans, NEW X \in SUBSET V[n - 1] PROVE G[n][X] \in SUBSET V[n]
    <3>1. G[n][X] = B(n, X)
      BY <1>4
    <3> QED BY <1>3, <3>1
  <2>2. \E f : LoopIs(f, AppChans, Ok(s), V, G)
    BY <1>2, <2>1, LoopDefined, Zenon
  <2> QED BY <2>2 DEF LoopIs
<1>6. Eq(f)
  <2>1. ASSUME NEW n \in 0..AppChans
        PROVE  (IF n = 0 THEN Ok(s) ELSE G[n][f[n - 1]]) = (IF n = 0 THEN Ok(s) ELSE B(n, f[n - 1]))
    <3>1. CASE n # 0
      <4>1. n \in 1..AppChans /\ n - 1 \in 0..AppChans
        BY <1>2, <3>1
      <4> QED BY <1>4, <1>5, <4>1
    <3> QED BY <3>1
  <2>2. [n \in 0..AppChans |-> IF n = 0 THEN Ok(s) ELSE G[n][f[n - 1]]] =
          [n \in 0..AppChans |-> IF n = 0 THEN Ok(s) ELSE B(n, f[n - 1])]
    BY <2>1
  <2> QED BY <1>2, <1>5, <2>2
<1> HIDE DEF Eq
<1>7. Eq(at)
  BY <1>6
<1> HIDE DEF at
<1>8. at[0] = Ok(s) /\ \A n \in 1..AppChans : at[n] = B(n, at[n - 1])
  <2>1. at = [n \in 0..AppChans |-> IF n = 0 THEN Ok(s) ELSE B(n, at[n - 1])]
    BY <1>2, <1>7 DEF Eq
  <2>2. 0 \in 0..AppChans /\ \A n \in 1..AppChans : n \in 0..AppChans /\ n # 0
    BY <1>2
  <2> QED BY <2>1, <2>2, Zenon
<1>9. at[AppChans] \subseteq V[AppChans]
  <2>1. /\ at[0] \subseteq V[0]
        /\ \A n \in 1..AppChans : at[n - 1] \subseteq V[n - 1] => at[n] \subseteq V[n]
    BY <1>3, <1>8
  <2> QED BY <1>2, <2>1, LoopBound, Zenon
<1> QED BY <1>1, <1>2, <1>9

\* The first n threads of direction d run.
AppFirst(s, d, n) == [s EXCEPT !.thr[d] = [b \in AppCh |-> IF b <= n THEN "top" ELSE s.thr[d][b]]]

LEMMA AppFirstSame ==
    ASSUME NEW s, AppShape(s), NEW d \in {"rx", "tx"}, NEW n, d = "tx" => \A b \in AppCh : s.thr.tx[b] = "no"
    PROVE  AppSame(s, AppFirst(s, d, n))
<1> DEFINE F == [b \in AppCh |-> IF b <= n THEN "top" ELSE s.thr[d][b]]
<1>1. F = [b \in AppCh |-> F[b]]
  OBVIOUS
<1> HIDE DEF F
<1>2. CASE d = "rx"
  <2>1. AppFirst(s, d, n) = [s EXCEPT !.thr = [s.thr EXCEPT !.rx = F]]
    BY <1>2 DEF AppFirst, F
  <2> QED BY <1>1, <2>1, SMTT(30) DEF AppSame, AppShape
<1>3. CASE d = "tx"
  <2>1. AppFirst(s, d, n) = [s EXCEPT !.thr = [s.thr EXCEPT !.tx = F]]
    BY <1>3 DEF AppFirst, F
  <2> QED BY <1>1, <1>3, <2>1, SMTT(30) DEF AppSame, AppShape
<1> QED BY <1>2, <1>3

LEMMA AppFirstNext ==
    ASSUME NEW s, AppShape(s), NEW d \in {"rx", "tx"}, NEW n \in AppCh
    PROVE  /\ AppFirst(s, d, 0) = s
           /\ [AppFirst(s, d, n - 1) EXCEPT !.thr[d][n] = "top"] = AppFirst(s, d, n)
<1> DEFINE F(m) == [b \in AppCh |-> IF b <= m THEN "top" ELSE s.thr[d][b]]
<1>0. AppChans \in Nat /\ n \in Nat /\ n > 0
  BY AppAssumption DEF AppCh
<1>1. F(0) = s.thr[d]
  <2>1. \A b \in AppCh : ~(b <= 0)
    BY <1>0 DEF AppCh
  <2>2. F(0) = [b \in AppCh |-> s.thr[d][b]]
    BY <2>1
  <2> QED BY <2>2 DEF AppShape
<1>2. [F(n - 1) EXCEPT ![n] = "top"] = F(n)
  <2> DEFINE G == [F(n - 1) EXCEPT ![n] = "top"]
  <2>1. \A b \in AppCh : b <= n <=> b <= n - 1 \/ b = n
    BY <1>0 DEF AppCh
  <2>2. \A b \in AppCh : G[b] = F(n)[b]
    BY <2>1
  <2>3. G = [b \in AppCh |-> G[b]] /\ F(n) = [b \in AppCh |-> F(n)[b]]
    OBVIOUS
  <2> QED BY <2>2, <2>3
<1> HIDE DEF F
<1>3. \A m : AppFirst(s, d, m) = [s EXCEPT !.thr = [s.thr EXCEPT ![d] = F(m)]]
  BY DEF AppFirst, F
<1>4. AppFirst(s, d, 0) = s
  BY <1>1, <1>3 DEF AppShape
<1>5. AppFirst(s, d, n - 1).thr = [s.thr EXCEPT ![d] = F(n - 1)]
  BY <1>3 DEF AppShape
<1>6. [AppFirst(s, d, n - 1).thr EXCEPT ![d][n] = "top"] = [s.thr EXCEPT ![d] = F(n)]
  BY <1>2, <1>5 DEF AppShape
<1>7. [AppFirst(s, d, n - 1) EXCEPT !.thr[d][n] = "top"] =
        [AppFirst(s, d, n - 1) EXCEPT !.thr = [AppFirst(s, d, n - 1).thr EXCEPT ![d][n] = "top"]]
  OBVIOUS
<1>8. [AppFirst(s, d, n - 1) EXCEPT !.thr = [s.thr EXCEPT ![d] = F(n)]] = [s EXCEPT !.thr = [s.thr EXCEPT ![d] = F(n)]]
  BY <1>3 DEF AppShape
<1> QED BY <1>3, <1>4, <1>6, <1>7, <1>8

LEMMA AppThreadsStarted ==
    ASSUME NEW s, AppShape(s), NEW d \in {"rx", "tx"}, d = "tx" => \A b \in AppCh : s.thr.tx[b] = "no",
           NEW o \in AppStartAll(s, d)
    PROVE  AppSame(s, o.s)
<1> DEFINE T(n) == AppFirst(s, d, n)
           W(n) == [T(n) EXCEPT !.faults = T(n).faults - 1]
           U(n) == {[s |-> T(n), ok |-> TRUE]} \cup {[s |-> W(k), ok |-> FALSE] : k \in 0..n}
           V == [n \in 0..AppChans |-> U(n)]
<1>0. AppChans \in Nat \ {0}
  BY AppAssumption
<1>1. \A n \in AppCh : T(0) = s /\ [T(n - 1) EXCEPT !.thr[d][n] = "top"] = T(n)
  BY AppFirstNext
<1>2. \A n : AppSame(s, T(n)) /\ AppSame(s, W(n))
  <2>1. \A n : AppSame(s, T(n))
    BY AppFirstSame
  <2> HIDE DEF T
  <2>2. ASSUME NEW n PROVE AppSame(s, W(n))
    <3>1. AppShape(T(n))
      BY <2>1 DEF AppSame
    <3>2. AppKeep(T(n), W(n))
      BY <3>1, AppPlain
    <3> HIDE DEF W
    <3> QED BY <2>1, <3>2 DEF AppKeep, AppSame
  <2> QED BY <2>1, <2>2
<1> HIDE DEF T
<1>3. Ok(s) \subseteq V[0]
  <2>1. T(0) = s
    BY <1>0, <1>1 DEF AppCh
  <2>2. V[0] = U(0)
    BY <1>0
  <2> QED BY <2>1, <2>2 DEF Ok
<1>4. ASSUME NEW n \in 1..AppChans, NEW y \in V[n - 1]
      PROVE  (IF y.ok THEN Io(y.s, [y.s EXCEPT !.thr[d][n] = "top"]) ELSE {y}) \subseteq V[n]
  <2>1. V[n - 1] = U(n - 1) /\ V[n] = U(n) /\ n - 1 \in 0..n /\ 0..(n - 1) \subseteq 0..n
    BY <1>0
  <2>2. [T(n - 1) EXCEPT !.thr[d][n] = "top"] = T(n)
    BY <1>1 DEF AppCh
  <2>3. CASE y = [s |-> T(n - 1), ok |-> TRUE]
    <3>1. y.ok = TRUE /\ y.s = T(n - 1)
      BY <2>3
    <3>2. Io(T(n - 1), T(n)) \subseteq U(n)
      BY <2>1 DEF Io, Ok, Faulty, Fail
    <3> QED BY <2>1, <2>2, <3>1, <3>2
  <2>4. CASE \E k \in 0..(n - 1) : y = [s |-> W(k), ok |-> FALSE]
    <3>1. PICK k \in 0..(n - 1) : y = [s |-> W(k), ok |-> FALSE]
      BY <2>4
    <3>2. y.ok = FALSE /\ k \in 0..n
      BY <2>1, <3>1
    <3> HIDE DEF W
    <3> QED BY <2>1, <3>1, <3>2
  <2> QED BY <2>1, <2>3, <2>4
<1>5. o \in V[AppChans]
  <2> HIDE DEF V
  <2> QED BY <1>3, <1>4, AppThreadLoop
<1>6. o \in U(AppChans)
  BY <1>0, <1>5
<1> HIDE DEF W
<1> QED BY <1>2, <1>6

LEMMA AppThreadsMove ==
    ASSUME NEW s, AppInv(s), NEW d \in {"rx", "tx"}, NEW pc, s.pc = (IF d = "tx" THEN "threadtx" ELSE "threadrx"),
           pc \in {"threadrx", "off"}, NEW x \in AppThreads(s, d, pc)
    PROVE  \E q : AppMove(s, x.s, q)
<1>0. AppShape(s) /\ s.pc \notin AppLate /\ pc \notin AppEarly /\ "exit" \notin AppEarly /\ "close" \notin AppEarly
  BY DEF AppInv, AppLate, AppEarly
<1>1. CASE ~s.opt[d]
  <2>1. x \in AppGo(s, pc)
    BY <1>1 DEF AppThreads
  <2>2. AppKeep(s, s)
    BY <1>0, AppPlain
  <2> QED BY <1>0, <2>1, <2>2, AppGoes
<1>2. CASE s.opt[d] /\ x \in Always(Faulty(s), LAMBDA t : AppGo(t, "exit"))
  <2>1. PICK o \in Faulty(s) : x \in AppGo(o.s, "exit")
    BY <1>2 DEF Always
  <2>2. AppKeep(s, o.s)
    BY <1>0, AppFault
  <2> QED BY <1>0, <2>1, <2>2, AppGoes
<1>3. CASE s.opt[d] /\ x \in AppMust(AppStartAll(s, d), pc)
  <2>1. PICK o \in AppStartAll(s, d), q \in {pc, "close"} : x \in AppGo(o.s, q)
    BY <1>3 DEF AppMust
  <2>2. d = "tx" => \A b \in AppCh : s.thr.tx[b] = "no"
    BY DEF AppInv, AppEarly
  <2>3. AppSame(s, o.s)
    BY <1>0, <2>2, AppThreadsStarted
  <2>4. x.s = [o.s EXCEPT !.pc = q]
    BY <2>1 DEF AppGo, Ok
  <2> QED BY <1>0, <2>1, <2>3, <2>4 DEF AppMove
<1> QED BY <1>1, <1>2, <1>3 DEF AppThreads, AppStartAll
-----------------------------------------------------------------------------
(* The steps that move blocks.                                             *)
LEMMA AppKept ==
    ASSUME NEW s, AppInv(s), NEW t, AppKeep(s, t)
    PROVE  AppInv(t)
<1>1. t = [t EXCEPT !.pc = s.pc] /\ t.thr = s.thr
  BY DEF AppKeep, AppSame, AppShape
<1> QED BY <1>1, AppMoved DEF AppMove, AppKeep

LEMMA AppWent ==
    ASSUME NEW s, AppInv(s), NEW pc, s.pc \in AppLate => pc \in AppLate, pc \in AppEarly => s.pc \in AppEarly,
           NEW x \in AppGo(s, pc)
    PROVE  AppInv(x.s)
<1>1. AppShape(s)
  BY DEF AppInv
<1>2. AppKeep(s, s)
  BY <1>1, AppPlain
<1> QED BY <1>2, AppGoes, AppMoved

\* A packet is received into every ring.
LEMMA AppReceived ==
    ASSUME NEW s, AppInv(s), NEW t,
           t = [s EXCEPT !.got = @ + 1, !.rbuf = [b \in AppCh |-> Append(@[b], s.got + 1)]]
    PROVE  AppInv(t)
<1> DEFINE R == [b \in AppCh |-> Append(s.rbuf[b], s.got + 1)]
<1>0. AppShape(s) /\ s.got \in Nat
  BY DEF AppInv
<1>r. R = [b \in AppCh |-> R[b]] /\ \A b \in AppCh : R[b] = Append(s.rbuf[b], s.got + 1)
  OBVIOUS
<1>t. t = [s EXCEPT !.got = s.got + 1, !.rbuf = R]
  BY <1>0 DEF AppShape
<1> HIDE DEF R
<1>1. /\ t.opt = s.opt /\ t.pc = s.pc /\ t.tbuf = s.tbuf /\ t.rbuf = R /\ t.fp = s.fp /\ t.at = s.at
      /\ t.torn = s.torn /\ t.stm = s.stm /\ t.sent = s.sent /\ t.got = s.got + 1 /\ t.out = s.out /\ t.gap = s.gap
      /\ t.stale = s.stale /\ t.thr = s.thr /\ AppShape(t)
  BY <1>0, <1>r, <1>t, ZenonT(60) DEF AppShape
<1>2. ASSUME NEW b \in AppCh PROVE AppQueued(t, b)
  <2> DEFINE q == s.rbuf[b]
             a == s.out[b]
             w == Append(q, s.got + 1)
  <2>1. a \in Nat /\ q \in Seq(Nat) /\ a + Len(q) = s.got /\ \A k \in 1..Len(q) : q[k] = a + k
    BY DEF AppInv, AppQueued
  <2>2. t.rbuf[b] = w /\ t.out[b] = a /\ t.got = s.got + 1
    BY <1>1, <1>r
  <2> HIDE DEF q, a
  <2>3. /\ w \in Seq(Nat) /\ Len(w) = Len(q) + 1 /\ w[Len(q) + 1] = s.got + 1
        /\ \A k \in 1..Len(q) : w[k] = q[k]
    BY <1>0, <2>1, AppendProperties
  <2> HIDE DEF w
  <2>4. Len(q) \in Nat /\ \A k \in 1..Len(w) : k \in 1..Len(q) \/ k = Len(q) + 1
    BY <2>1, <2>3
  <2>5. ASSUME NEW k \in 1..Len(w) PROVE w[k] = a + k
    <3>1. CASE k \in 1..Len(q)
      BY <2>1, <2>3, <3>1
    <3>2. CASE k = Len(q) + 1
      <4>1. s.got + 1 = a + (Len(q) + 1)
        BY <2>1, <2>4
      <4> QED BY <2>3, <3>2, <4>1
    <3> QED BY <2>4, <3>1, <3>2
  <2>6. a + Len(w) = s.got + 1
    BY <2>1, <2>3, <2>4
  <2> QED BY <2>1, <2>2, <2>3, <2>5, <2>6 DEF AppQueued
<1>3. \A b \in AppCh : AppLined(s, b) => AppLined(t, b)
  BY <1>1, SMTT(30) DEF AppLined, AppBlockOk
<1>4. t.stale \/ AppSeveral(t) \/ t.pc \in AppLate \/ \A b \in AppCh : AppLined(t, b)
  BY <1>1, <1>3 DEF AppInv, AppSeveral
<1>5. t.got \in Nat /\ ~t.gap /\ t.opt \in AppOpts /\ t.sent \in Nat /\ t.stm = AppBlk + t.sent
  BY <1>0, <1>1 DEF AppInv
<1>6. t.torn => t.stale \/ AppSeveral(t)
  BY <1>1 DEF AppInv, AppSeveral
<1>7. t.pc \in AppEarly => \A b \in AppCh : t.thr.tx[b] = "no"
  BY <1>1 DEF AppInv
<1>8. \A b \in AppCh : AppTyped(t, b)
  BY <1>1 DEF AppInv, AppTyped
<1> QED BY <1>1, <1>2, <1>4, <1>5, <1>6, <1>7, <1>8 DEF AppInv

\* A block received is written.
LEMMA AppWritten ==
    ASSUME NEW s, AppInv(s), NEW b \in AppCh, s.rbuf[b] # <<>>, NEW t \in disk_write_thread(s, b)
    PROVE  AppInv(t)
<1>0. AppShape(s) /\ s.got \in Nat /\ ~s.gap /\ AppQueued(s, b)
  BY DEF AppInv
<1> DEFINE k == Head(s.rbuf[b])
<1>1. /\ s.out[b] \in Nat /\ s.rbuf[b] \in Seq(Nat) /\ s.out[b] + Len(s.rbuf[b]) = s.got
      /\ \A j \in 1..Len(s.rbuf[b]) : s.rbuf[b][j] = s.out[b] + j
  BY <1>0 DEF AppQueued
<1>2. k = s.out[b] + 1
  BY <1>1
<1>3. CASE t = [s EXCEPT !.rbuf[b] = Tail(@), !.thr.rx[b] = "top", !.gap = @ \/ k # s.out[b] + 1, !.out[b] = k]
  <2> DEFINE R == [s.rbuf EXCEPT ![b] = Tail(s.rbuf[b])]
             T == [s.thr.rx EXCEPT ![b] = "top"]
             O == [s.out EXCEPT ![b] = k]
  <2>1. R = [c \in AppCh |-> R[c]] /\ T = [c \in AppCh |-> T[c]] /\ O = [c \in AppCh |-> O[c]]
    BY <1>0 DEF AppShape
  <2>2. /\ R[b] = Tail(s.rbuf[b]) /\ O[b] = k
        /\ \A c \in AppCh \ {b} : R[c] = s.rbuf[c] /\ O[c] = s.out[c]
    BY <1>0 DEF AppShape
  <2>3. t = [s EXCEPT !.rbuf = R, !.thr = [s.thr EXCEPT !.rx = T], !.gap = s.gap \/ k # s.out[b] + 1, !.out = O]
    BY <1>3
  <2> HIDE DEF R, T, O, k
  <2>4. /\ t.opt = s.opt /\ t.pc = s.pc /\ t.tbuf = s.tbuf /\ t.rbuf = R /\ t.fp = s.fp /\ t.at = s.at
        /\ t.torn = s.torn /\ t.stm = s.stm /\ t.sent = s.sent /\ t.got = s.got /\ t.out = O
        /\ t.gap = (s.gap \/ k # s.out[b] + 1)
        /\ t.stale = s.stale /\ t.thr.tx = s.thr.tx /\ AppShape(t)
    BY <1>0, <2>1, <2>3 DEF AppShape
  <2>5. AppQueued(t, b)
    <3> DEFINE q == s.rbuf[b]
               w == Tail(q)
               a == s.out[b]
    <3>0. a \in Nat /\ q \in Seq(Nat) /\ q # <<>> /\ a + Len(q) = s.got /\ \A j \in 1..Len(q) : q[j] = a + j
      BY <1>1
    <3>4. t.rbuf[b] = w /\ t.out[b] = a + 1 /\ t.got = s.got
      BY <1>2, <2>2, <2>4
    <3> HIDE DEF q, a
    <3>1. w \in Seq(Nat) /\ Len(w) = Len(q) - 1 /\ \A j \in 1..(Len(q) - 1) : w[j] = q[j + 1]
      BY <3>0, HeadTailProperties
    <3> HIDE DEF w
    <3>2. Len(q) \in Nat \ {0}
      BY <3>0
    <3>5. ASSUME NEW j \in 1..Len(w) PROVE w[j] = (a + 1) + j
      <4>1. j + 1 \in 1..Len(q) /\ j \in 1..(Len(q) - 1) /\ a + (j + 1) = (a + 1) + j
        BY <3>0, <3>1, <3>2
      <4> QED BY <3>0, <3>1, <4>1
    <3>6. a + 1 \in Nat /\ (a + 1) + Len(w) = s.got
      BY <3>0, <3>1, <3>2
    <3> QED BY <3>1, <3>4, <3>5, <3>6 DEF AppQueued
  <2>6. \A c \in AppCh : AppQueued(t, c) /\ AppTyped(t, c)
    <3>1. \A c \in AppCh \ {b} : AppQueued(s, c) => AppQueued(t, c)
      BY <2>2, <2>4 DEF AppQueued
    <3>2. \A c \in AppCh : AppTyped(s, c) => AppTyped(t, c)
      BY <2>4 DEF AppTyped
    <3> QED BY <2>5, <3>1, <3>2 DEF AppInv
  <2>7. \A c \in AppCh : AppLined(s, c) => AppLined(t, c)
    BY <2>4 DEF AppLined, AppBlockOk
  <2>8. ~t.gap
    BY <1>0, <1>2, <2>4
  <2> QED BY <2>4, <2>6, <2>7, <2>8 DEF AppInv, AppSeveral
<1>4. CASE \E o \in Faulty(s) : t = [o.s EXCEPT !.thr.rx[b] = "end"]
  <2>0. PICK o \in Faulty(s) : t = [o.s EXCEPT !.thr.rx[b] = "end"]
    BY <1>4
  <2> DEFINE u == o.s
  <2>1. t = [u EXCEPT !.thr.rx[b] = "end"]
    BY <2>0
  <2>2. AppKeep(s, u)
    BY <1>0, AppFault
  <2>3. AppInv(u) /\ AppShape(u)
    BY <2>2, AppKept, AppKeepShape
  <2> HIDE DEF u
  <2> DEFINE T == [u.thr.rx EXCEPT ![b] = "end"]
  <2>4. t = [u EXCEPT !.thr = [u.thr EXCEPT !.rx = T]]
    BY <2>1
  <2>5. T = [c \in AppCh |-> T[c]]
    BY <2>3 DEF AppShape
  <2> HIDE DEF T
  <2>6. AppSame(u, t) /\ t = [t EXCEPT !.pc = u.pc] /\ t.thr.tx = u.thr.tx
    BY <2>3, <2>4, <2>5 DEF AppShape, AppSame
  <2> QED BY <2>3, <2>6, AppMoved DEF AppMove
<1> QED BY <1>3, <1>4 DEF disk_write_thread

\* The numbers the lemmas below need.
LEMMA AppFileIs ==
    ASSUME NEW b \in AppCh
    PROVE  AppFile[b] \in Nat \ {0} /\ AppBlk \in Nat \ {0} /\ AppFile[b] % AppFile[b] = 0 /\ 0 % AppFile[b] = 0
<1>1. AppFile[b] \in Nat \ {0} /\ AppBlk \in Nat \ {0}
  BY AppAssumption DEF AppCh
<1> DEFINE F == AppFile[b]
<1> HIDE DEF F
<1>2. F % F = 0 /\ 0 % F = 0
  <2>1. F * 1 + 0 = F /\ F * 0 + 0 = 0 /\ 0 \in 0..(F - 1)
    BY <1>1 DEF F
  <2> QED BY <1>1, <2>1, DivModUnique DEF F
<1> QED BY <1>1, <1>2 DEF F

(* What is read into a block.                                              *)
AppNewBlock(s, b, blk) ==
    LET F == AppFile[b]
    IN  /\ blk = [at |-> blk.at, len |-> blk.len, last |-> blk.last, fp |-> blk.fp]
        /\ blk.at \in 0..F /\ blk.len \in 0..AppBlk /\ blk.last \in BOOLEAN /\ blk.fp \in 0..F
        /\ ~s.opt.file => blk.fp # F
        /\ blk.at % F = s.fp[b] % F
        /\ blk.at = F => blk.len = 0
        /\ ~s.opt.cycle /\ ~blk.last => blk.len = AppBlk
        /\ ~blk.last => blk.fp % F = (blk.at + blk.len) % F

LEMMA AppFilled ==
    ASSUME NEW s, NEW b \in AppCh, AppTyped(s, b), s.opt.cycle \in BOOLEAN
    PROVE  AppNewBlock(s, b, AppFill(s, b))
<1> DEFINE F == AppFile[b]
           p == s.fp[b]
           left == F - p
           n == IF left < AppBlk THEN left ELSE AppBlk
           again == IF F < AppBlk THEN F ELSE AppBlk
           eof == n < AppBlk
<1>0. F \in Nat \ {0} /\ AppBlk \in Nat \ {0} /\ F % F = 0 /\ 0 % F = 0 /\ p \in 0..F /\ (~s.opt.file => p # F)
  BY AppFileIs DEF AppTyped
<1> HIDE DEF F, p
<1>1. CASE ~s.opt.file
  <2> DEFINE r == (p + AppBlk) % F
             blk == [at |-> p, len |-> AppBlk, last |-> FALSE, fp |-> r]
  <2>1. AppFill(s, b) = blk
    BY <1>1 DEF AppFill, AppGenerate, F, p
  <2>2. r \in 0..(F - 1)
    BY <1>0
  <2>3. r % F = r
    BY <1>0, <2>2, NoWrap
  <2>4. blk.fp % F = (blk.at + blk.len) % F
    BY <2>3
  <2> HIDE DEF r
  <2>5. p # F
    BY <1>0, <1>1
  <2> QED BY <1>0, <2>1, <2>2, <2>4, <2>5 DEF AppNewBlock, F, p
<1>2. CASE s.opt.file /\ n = 0 /\ s.opt.cycle
  <2> DEFINE blk == [at |-> 0, len |-> again, last |-> again = 0, fp |-> again]
  <2>1. AppFill(s, b) = blk
    BY <1>2 DEF AppFill, F, p
  <2>2. p = F
    BY <1>0, <1>2
  <2>3. again \in 0..F /\ again \in 0..AppBlk /\ again # 0 /\ 0 + again = again
    BY <1>0
  <2> HIDE DEF again
  <2> QED BY <1>0, <1>2, <2>1, <2>2, <2>3 DEF AppNewBlock, F, p
<1>3. CASE s.opt.file /\ ~(n = 0 /\ s.opt.cycle)
  <2> DEFINE to == IF eof /\ s.opt.cycle THEN 0 ELSE p + n
             blk == [at |-> p, len |-> n, last |-> eof /\ ~s.opt.cycle, fp |-> to]
  <2>1. AppFill(s, b) = blk
    BY <1>3 DEF AppFill, F, p
  <2>2. n \in 0..AppBlk /\ p + n \in 0..F /\ (p = F => n = 0) /\ (eof => p + n = F) /\ (~eof => n = AppBlk)
    BY <1>0
  <2>3. to \in 0..F /\ to % F = (p + n) % F
    BY <1>0, <2>2
  <2> HIDE DEF n, to
  <2>4. eof \in BOOLEAN
    OBVIOUS
  <2> HIDE DEF eof
  <2> QED BY <1>0, <1>3, <2>1, <2>2, <2>3, <2>4 DEF AppNewBlock, F, p
<1> QED BY <1>1, <1>2, <1>3

\* Appending to a ring.
LEMMA AppAppended ==
    ASSUME NEW B, NEW q \in Seq(B), NEW e \in B, NEW w, w = Append(q, e)
    PROVE  /\ w \in Seq(B) /\ Len(q) \in Nat /\ Len(w) = Len(q) + 1 /\ w # <<>> /\ w[Len(q) + 1] = e
           /\ \A k \in 1..Len(q) : w[k] = q[k]
           /\ q = <<>> <=> Len(q) = 0
BY AppendProperties

\* A block that was read is put in its ring.
LEMMA AppPutOk ==
    ASSUME NEW s, AppInv(s), NEW b \in AppCh, s.thr.tx[b] = "wait", NEW blk, AppNewBlock(s, b, blk),
           NEW end \in BOOLEAN, ~end => ~blk.last
    PROVE  AppInv(AppPut(s, b, blk, end))
<1> DEFINE e == [at |-> blk.at, len |-> blk.len, last |-> blk.last]
           q == s.tbuf[b]
           w == Append(q, e)
           F == AppFile[b]
           Q == [s.tbuf EXCEPT ![b] = w]
           P == [s.fp EXCEPT ![b] = blk.fp]
           T == [s.thr.tx EXCEPT ![b] = IF end THEN "end" ELSE "top"]
           t == AppPut(s, b, blk, end)
<1>0. AppShape(s) /\ AppTyped(s, b) /\ s.pc \notin AppEarly
  BY DEF AppInv
<1>1. t = [s EXCEPT !.tbuf = Q, !.fp = P, !.thr = [s.thr EXCEPT !.tx = T]]
  BY DEF AppPut
<1>2. /\ Q = [c \in AppCh |-> Q[c]] /\ P = [c \in AppCh |-> P[c]] /\ T = [c \in AppCh |-> T[c]]
      /\ Q[b] = w /\ P[b] = blk.fp /\ T[b] = (IF end THEN "end" ELSE "top")
      /\ \A c \in AppCh \ {b} : Q[c] = s.tbuf[c] /\ P[c] = s.fp[c] /\ T[c] = s.thr.tx[c]
  BY <1>0 DEF AppShape
<1>3. e \in AppBlocks(b) /\ q \in Seq(AppBlocks(b)) /\ e.at = blk.at /\ e.len = blk.len /\ e.last = blk.last
  BY <1>0 DEF AppNewBlock, AppBlocks, AppTyped
<1> HIDE DEF Q, P, T, t, e
<1>4. /\ t.opt = s.opt /\ t.pc = s.pc /\ t.rbuf = s.rbuf /\ t.at = s.at
      /\ t.torn = s.torn /\ t.stm = s.stm /\ t.sent = s.sent /\ t.got = s.got /\ t.out = s.out /\ t.gap = s.gap
      /\ t.stale = s.stale /\ t.thr.tx = T /\ t.tbuf = Q /\ t.fp = P
  BY <1>0, <1>1 DEF AppShape
<1>s. AppShape(t)
  BY <1>0, <1>1, <1>2 DEF AppShape
<1>5. /\ w \in Seq(AppBlocks(b)) /\ Len(q) \in Nat /\ Len(w) = Len(q) + 1 /\ w # <<>> /\ w[Len(q) + 1] = e
      /\ \A k \in 1..Len(q) : w[k] = q[k]
      /\ q = <<>> <=> Len(q) = 0
  BY <1>3, AppAppended
<1>6. \A c \in AppCh : AppTyped(t, c) /\ AppQueued(t, c)
  <2>1. AppTyped(t, b)
    BY <1>2, <1>4, <1>5 DEF AppTyped, AppNewBlock
  <2>2. \A c \in AppCh \ {b} : AppTyped(s, c) => AppTyped(t, c)
    BY <1>2, <1>4 DEF AppTyped
  <2>3. \A c \in AppCh : AppQueued(s, c) => AppQueued(t, c)
    BY <1>4 DEF AppQueued
  <2> QED BY <2>1, <2>2, <2>3 DEF AppInv
<1>7. ASSUME AppLined(s, b) PROVE AppLined(t, b)
  <2> HIDE DEF w, q, F
  <2>0. t.tbuf[b] = w /\ t.fp[b] = blk.fp /\ t.at[b] = s.at[b] /\ t.thr.tx[b] = (IF end THEN "end" ELSE "top")
    BY <1>2, <1>4
  <2>1. /\ s.at[b] \in 0..(F - 1)
        /\ \A k \in 1..Len(q) : (q[k].at = F => q[k].len = 0) /\ (~s.opt.cycle /\ ~q[k].last => q[k].len = AppBlk)
        /\ q # <<>> => q[1].at % F = s.at[b]
        /\ \A k \in 1..(Len(q) - 1) : ~q[k].last /\ q[k + 1].at % F = (q[k].at + q[k].len) % F
        /\ IF q = <<>> THEN s.fp[b] % F = s.at[b]
           ELSE ~q[Len(q)].last /\ s.fp[b] % F = (q[Len(q)].at + q[Len(q)].len) % F
    BY <1>7 DEF AppLined, AppBlockOk, q, F
  <2>2. \A k \in 1..Len(w) : AppBlockOk(t, b, k)
    <3>1. ASSUME NEW k \in 1..Len(w)
          PROVE  (w[k].at = F => w[k].len = 0) /\ (~s.opt.cycle /\ ~w[k].last => w[k].len = AppBlk)
      <4>1. k \in 1..Len(q) \/ k = Len(q) + 1
        BY <1>5
      <4>2. CASE k \in 1..Len(q)
        BY <1>5, <2>1, <4>2
      <4>3. CASE k = Len(q) + 1
        BY <1>3, <1>5, <4>3 DEF AppNewBlock, F
      <4> QED BY <4>1, <4>2, <4>3
    <3> QED BY <1>4, <2>0, <3>1 DEF AppBlockOk, F
  <2>3. w[1].at % F = s.at[b]
    <3>1. CASE q = <<>>
      BY <1>3, <1>5, <2>1, <3>1 DEF AppNewBlock, F
    <3>2. CASE q # <<>>
      <4>1. 1 \in 1..Len(q)
        BY <1>5, <3>2
      <4> QED BY <1>5, <2>1, <3>2, <4>1
    <3> QED BY <3>1, <3>2
  <2>4. ASSUME NEW k \in 1..(Len(w) - 1) PROVE ~w[k].last /\ w[k + 1].at % F = (w[k].at + w[k].len) % F
    <3>1. k \in 1..Len(q) /\ q # <<>>
      BY <1>5
    <3>2. CASE k = Len(q)
      BY <1>3, <1>5, <2>1, <3>1, <3>2 DEF AppNewBlock, F
    <3>3. CASE k # Len(q)
      <4>1. k \in 1..(Len(q) - 1) /\ k + 1 \in 1..Len(q)
        BY <1>5, <3>1, <3>3
      <4> QED BY <1>5, <2>1, <3>1, <4>1
    <3> QED BY <3>2, <3>3
  <2>5. ~end => ~w[Len(w)].last /\ blk.fp % F = (w[Len(w)].at + w[Len(w)].len) % F
    BY <1>3, <1>5 DEF AppNewBlock, F
  <2> QED BY <1>5, <2>0, <2>1, <2>2, <2>3, <2>4, <2>5 DEF AppLined, F
<1>8. \A c \in AppCh \ {b} : AppLined(s, c) => AppLined(t, c)
  BY <1>2, <1>4 DEF AppLined, AppBlockOk
<1>9. t.stale \/ AppSeveral(t) \/ t.pc \in AppLate \/ \A c \in AppCh : AppLined(t, c)
  BY <1>4, <1>7, <1>8 DEF AppInv, AppSeveral
<1>10. /\ t.got \in Nat /\ ~t.gap /\ t.opt \in AppOpts /\ t.sent \in Nat /\ t.stm = AppBlk + t.sent
       /\ t.torn => t.stale \/ AppSeveral(t)
  BY <1>4 DEF AppInv, AppSeveral
<1> QED BY <1>0, <1>4, <1>s, <1>6, <1>9, <1>10 DEF AppInv, t

LEMMA AppReadOk ==
    ASSUME NEW s, AppInv(s), NEW b \in AppCh, s.thr.tx[b] = "wait", NEW t \in disk_read_thread(s, b)
    PROVE  AppInv(t)
<1> DEFINE blk == AppFill(s, b)
<1>0. AppShape(s) /\ AppTyped(s, b) /\ s.opt.cycle \in BOOLEAN
  BY DEF AppInv, AppOpts
<1>1. AppNewBlock(s, b, blk)
  BY <1>0, AppFilled
<1> HIDE DEF blk
<1>2. CASE t = AppPut(s, b, blk, blk.last)
  <2>1. blk.last \in BOOLEAN
    BY <1>1 DEF AppNewBlock
  <2> QED BY <1>1, <1>2, <2>1, AppPutOk
<1>3. CASE \E o \in Faulty(s), n \in 0..blk.len : t = AppPut(o.s, b, AppCutBlock(blk, n), TRUE)
  <2>1. PICK o \in Faulty(s), n \in 0..blk.len : t = AppPut(o.s, b, AppCutBlock(blk, n), TRUE)
    BY <1>3
  <2>2. AppKeep(s, o.s)
    BY <1>0, AppFault
  <2>3. AppInv(o.s)
    BY <2>2, AppKept
  <2>4. o.s.fp = s.fp /\ o.s.thr = s.thr /\ o.s.opt = s.opt
    BY <2>2 DEF AppKeep, AppSame
  <2> DEFINE blk2 == AppCutBlock(blk, n)
  <2>5. blk2.at = blk.at /\ blk2.len = n /\ blk2.last = TRUE /\ blk2.fp = blk.fp
        /\ blk2 = [at |-> blk2.at, len |-> blk2.len, last |-> blk2.last, fp |-> blk2.fp]
    BY DEF AppCutBlock
  <2>6. t = AppPut(o.s, b, blk2, TRUE)
    BY <2>1
  <2> HIDE DEF blk2
  <2>7. n \in 0..AppBlk /\ (blk.len = 0 => n = 0)
    BY <1>1, AppFileIs DEF AppNewBlock
  <2>8. AppNewBlock(o.s, b, blk2)
    BY <1>1, <2>4, <2>5, <2>7 DEF AppNewBlock
  <2> QED BY <2>3, <2>4, <2>6, <2>8, AppPutOk
<1> DEFINE S == UNION {{AppPut(o.s, b, AppCutBlock(blk, n), TRUE) : n \in 0..blk.len} : o \in Faulty(s)}
<1>4. disk_read_thread(s, b) = {AppPut(s, b, blk, blk.last)} \cup (IF ~s.opt.file THEN {} ELSE S)
  BY DEF disk_read_thread, blk
<1>5. t \in S => \E o \in Faulty(s), n \in 0..blk.len : t = AppPut(o.s, b, AppCutBlock(blk, n), TRUE)
  OBVIOUS
<1> HIDE DEF S
<1> QED BY <1>2, <1>3, <1>4, <1>5

\* The shortest of the first blocks.
LEMMA AppLenIs ==
    ASSUME NEW s, AppInv(s), \A b \in AppCh : s.tbuf[b] # <<>>
    PROVE  /\ AppLen(s) \in Nat
           /\ \E b \in AppCh : AppLen(s) = Head(s.tbuf[b]).len
           /\ \A b \in AppCh : AppLen(s) <= Head(s.tbuf[b]).len
<1> DEFINE T == {Head(s.tbuf[b]).len : b \in AppCh}
<1>1. \A b \in AppCh : Head(s.tbuf[b]).len \in Nat
  <2> SUFFICES ASSUME NEW b \in AppCh PROVE Head(s.tbuf[b]).len \in Nat
    OBVIOUS
  <2>1. Head(s.tbuf[b]) \in AppBlocks(b)
    BY DEF AppInv, AppTyped
  <2> QED BY <2>1, AppFileIs DEF AppBlocks
<1>2. 1 \in AppCh
  BY AppAssumption DEF AppCh
<1>3. T \in SUBSET Nat /\ T # {}
  BY <1>1, <1>2
<1>4. \E n \in T : \A y \in T : n <= y
  <2> HIDE DEF T
  <2> QED BY <1>3, LeastElement
<1>5. \E n \in T : \A b \in AppCh : n <= Head(s.tbuf[b]).len
  BY <1>4
<1>6. AppLen(s) \in T /\ \A b \in AppCh : AppLen(s) <= Head(s.tbuf[b]).len
  BY <1>5 DEF AppLen
<1> QED BY <1>1, <1>6

\* It is that of every channel, unless it is the last.
LEMMA AppLenAll ==
    ASSUME NEW s, AppInv(s), \A b \in AppCh : s.tbuf[b] # <<>> /\ AppLined(s, b) /\ ~Head(s.tbuf[b]).last,
           ~AppSeveral(s), NEW b \in AppCh
    PROVE  AppLen(s) = Head(s.tbuf[b]).len
<1>1. PICK c \in AppCh : AppLen(s) = Head(s.tbuf[c]).len
  BY AppLenIs
<1>2. CASE ~s.opt.cycle
  <2>1. ASSUME NEW d \in AppCh PROVE Head(s.tbuf[d]).len = AppBlk
    <3>1. Head(s.tbuf[d]) = s.tbuf[d][1] /\ 1 \in 1..Len(s.tbuf[d])
      BY DEF AppInv, AppTyped
    <3>2. AppBlockOk(s, d, 1)
      BY <3>1 DEF AppLined
    <3> QED BY <1>2, <3>1, <3>2 DEF AppBlockOk
  <2> QED BY <1>1, <2>1
<1>3. CASE s.opt.cycle
  <2>1. AppChans \in Nat \ {0} /\ ~(AppChans > 1)
    BY <1>3, AppAssumption DEF AppSeveral
  <2>2. b = c
    BY <2>1 DEF AppCh
  <2> QED BY <1>1, <2>2
<1> QED BY <1>2, <1>3

\* The blocks behind the first.
LEMMA AppTailed ==
    ASSUME NEW B, NEW q \in Seq(B), q # <<>>, NEW w, w = Tail(q)
    PROVE  /\ w \in Seq(B) /\ Len(q) \in Nat \ {0} /\ Len(w) = Len(q) - 1 /\ q[1] = Head(q) /\ Head(q) \in B
           /\ \A k \in 1..Len(w) : w[k] = q[k + 1]
           /\ w = <<>> <=> Len(q) = 1
<1>1. Head(q) \in B /\ w \in Seq(B) /\ Len(w) = Len(q) - 1 /\ \A k \in 1..Len(w) : w[k] = q[k + 1]
  BY HeadTailProperties
<1>2. Len(q) \in Nat \ {0} /\ q[1] = Head(q)
  OBVIOUS
<1>3. w = <<>> <=> Len(w) = 0
  BY <1>1, SMTT(30)
<1>4. Len(w) = 0 <=> Len(q) = 1
  BY <1>1, <1>2
<1> QED BY <1>1, <1>2, <1>3, <1>4

LEMMA AppLinedNext ==
    ASSUME NEW s, AppInv(s), NEW b \in AppCh, s.tbuf[b] # <<>>, AppLined(s, b), NEW n, n = Head(s.tbuf[b]).len,
           NEW t, t.tbuf[b] = Tail(s.tbuf[b]), t.at[b] = (s.at[b] + n) % AppFile[b], t.fp = s.fp,
           t.thr.tx = s.thr.tx, t.opt = s.opt
    PROVE  AppLined(t, b)
<1> DEFINE q == s.tbuf[b]
           w == Tail(q)
           F == AppFile[b]
           a == s.at[b]
<1>0. q \in Seq(AppBlocks(b)) /\ q # <<>> /\ F \in Nat \ {0} /\ AppBlk \in Nat
  BY AppFileIs DEF AppInv, AppTyped
<1>1. /\ a \in 0..(F - 1)
      /\ \A k \in 1..Len(q) : AppBlockOk(s, b, k)
      /\ q[1].at % F = a
      /\ \A k \in 1..(Len(q) - 1) : ~q[k].last /\ q[k + 1].at % F = (q[k].at + q[k].len) % F
      /\ s.thr.tx[b] # "end" => ~q[Len(q)].last /\ s.fp[b] % F = (q[Len(q)].at + q[Len(q)].len) % F
  BY <1>0 DEF AppLined
<1>2. t.tbuf[b] = w /\ t.at[b] = (a + n) % F /\ n = Head(q).len
  OBVIOUS
<1> HIDE DEF q, F, a
<1>3. /\ w \in Seq(AppBlocks(b)) /\ Len(q) \in Nat \ {0} /\ Len(w) = Len(q) - 1 /\ q[1] = Head(q) /\ Head(q) \in AppBlocks(b)
      /\ \A k \in 1..Len(w) : w[k] = q[k + 1]
      /\ w = <<>> <=> Len(q) = 1
  BY <1>0, AppTailed, ZenonT(30)
<1> HIDE DEF w
<1>4. q[1].at \in Nat /\ n \in Nat /\ n = q[1].len
  BY <1>0, <1>2, <1>3 DEF AppBlocks, F
<1>5. t.at[b] = (q[1].at + q[1].len) % F /\ t.at[b] \in 0..(F - 1)
  <2> DEFINE x == q[1].at
  <2>1. x \in Nat /\ n \in Nat /\ x % F = a
    BY <1>1, <1>4
  <2> HIDE DEF x
  <2>r. x + n \in Nat
    BY <2>1
  <2>2. ((x % F) + n) % F = (x + n) % F
    BY <1>0, <2>1, ModAdd
  <2>3. (x + n) % F \in 0..(F - 1)
    BY <1>0, <2>r
  <2> QED BY <1>2, <1>4, <2>1, <2>2, <2>3 DEF x
<1>6. \A k \in 1..Len(w) : k + 1 \in 1..Len(q) /\ w[k] = q[k + 1]
  BY <1>3
<1>7. \A k \in 1..Len(w) : AppBlockOk(t, b, k)
  BY <1>1, <1>2, <1>6 DEF AppBlockOk, q
<1>8. w # <<>> => w[1].at % F = t.at[b]
  <2> HAVE w # <<>>
  <2>1. 1 \in 1..Len(w) /\ 1 \in 1..(Len(q) - 1) /\ 1 + 1 = 2
    BY <1>3
  <2> QED BY <1>1, <1>3, <1>5, <2>1
<1>9. ASSUME NEW k \in 1..(Len(w) - 1) PROVE ~w[k].last /\ w[k + 1].at % F = (w[k].at + w[k].len) % F
  <2>1. k \in 1..Len(w) /\ k + 1 \in 1..Len(w) /\ k + 1 \in 1..(Len(q) - 1)
    BY <1>3
  <2> QED BY <1>1, <1>3, <2>1
<1>10. t.thr.tx[b] # "end" =>
          IF w = <<>> THEN t.fp[b] % F = t.at[b]
          ELSE ~w[Len(w)].last /\ t.fp[b] % F = (w[Len(w)].at + w[Len(w)].len) % F
  <2> HAVE t.thr.tx[b] # "end"
  <2>0. ~q[Len(q)].last /\ t.fp[b] % F = (q[Len(q)].at + q[Len(q)].len) % F
    BY <1>1
  <2>1. CASE w = <<>>
    BY <1>3, <1>5, <2>0, <2>1
  <2>2. CASE w # <<>>
    <3>1. Len(w) \in 1..Len(w) /\ Len(w) + 1 = Len(q)
      BY <1>3, <2>2
    <3>2. w[Len(w)] = q[Len(q)]
      BY <1>3, <3>1
    <3> QED BY <2>0, <2>2, <3>2
  <2> QED BY <2>1, <2>2
<1> QED BY <1>2, <1>5, <1>7, <1>8, <1>9, <1>10 DEF AppLined, F

\* What do_transmit leaves when the block is sent.
AppSentState(s) ==
    LET n == AppLen(s)
    IN  [s EXCEPT !.stm = s.stm + n, !.sent = s.sent + n,
                  !.torn = s.torn \/ (n > 0 /\ \E b \in AppCh : Head(s.tbuf[b]).at # s.at[b] \/ Head(s.tbuf[b]).len < n),
                  !.at = [b \in AppCh |-> (s.at[b] + n) % AppFile[b]],
                  !.tbuf = [b \in AppCh |-> Tail(s.tbuf[b])]]

LEMMA AppTransmits ==
    ASSUME NEW s, AppShape(s), NEW o \in do_transmit(s)
    PROVE  \/ ~o.ok /\ AppKeep(s, o.s)
           \/ o.s = AppSentState(s) /\ (o.ok => \A b \in AppCh : ~Head(s.tbuf[b]).last)
<1> DEFINE n == AppLen(s)
           t == AppSentState(s)
           L == \E b \in AppCh : Head(s.tbuf[b]).last
           G(u) == IF L THEN Fail([t EXCEPT !.faults = u.faults]) ELSE Ok([t EXCEPT !.faults = u.faults])
           C == IF n = 0 THEN Ok(s) ELSE Io(s, s)
<1>1. t = [s EXCEPT !.stm = @ + n, !.sent = @ + n,
                    !.torn = @ \/ (n > 0 /\ \E b \in AppCh : Head(s.tbuf[b]).at # s.at[b] \/ Head(s.tbuf[b]).len < n),
                    !.at = [b \in AppCh |-> (@[b] + n) % AppFile[b]],
                    !.tbuf = [b \in AppCh |-> Tail(@[b])]]
  BY DEF AppSentState, AppShape
<1>2. do_transmit(s) = UNION {IF u.ok THEN G(u.s) ELSE {u} : u \in C}
  <2> DEFINE T == [s EXCEPT !.stm = @ + n, !.sent = @ + n,
                    !.torn = @ \/ (n > 0 /\ \E b \in AppCh : Head(s.tbuf[b]).at # s.at[b] \/ Head(s.tbuf[b]).len < n),
                    !.at = [b \in AppCh |-> (@[b] + n) % AppFile[b]],
                    !.tbuf = [b \in AppCh |-> Tail(@[b])]]
             K(u) == IF L THEN Fail([T EXCEPT !.faults = u.faults]) ELSE Ok([T EXCEPT !.faults = u.faults])
  <2>1. do_transmit(s) = UNION {IF u.ok THEN K(u.s) ELSE {u} : u \in C}
    BY Zenon DEF do_transmit, Then
  <2>2. T = t
    BY <1>1
  <2> HIDE DEF T, t, C
  <2> QED BY <2>1, <2>2
<1>3. [t EXCEPT !.faults = s.faults] = t
  BY DEF AppSentState, AppShape
<1> HIDE DEF t, n
<1>4. PICK u \in C : o \in IF u.ok THEN G(u.s) ELSE {u}
  BY <1>2
<1>5. u \in Ok(s) \/ u \in Faulty(s)
  BY <1>4 DEF Io
<1>6. CASE u \in Ok(s)
  <2>1. u.ok = TRUE /\ u.s = s
    BY <1>6 DEF Ok
  <2>2. o \in IF L THEN Fail(t) ELSE Ok(t)
    BY <1>3, <1>4, <2>1
  <2> HIDE DEF L
  <2>3. o.s = t /\ (o.ok => ~L)
    BY <2>2 DEF Ok, Fail
  <2> QED BY <2>3 DEF t, L
<1>7. CASE u \in Faulty(s)
  <2>1. u.ok = FALSE
    BY <1>7 DEF Faulty, Fail
  <2>2. o = u
    BY <1>4, <2>1
  <2> QED BY <1>7, <2>1, <2>2, AppFault
<1> QED BY <1>5, <1>6, <1>7

\* The first block of a ring is where its file is sent next, unless it is empty.
LEMMA AppHeadAt ==
    ASSUME NEW s, AppInv(s), NEW b \in AppCh, s.tbuf[b] # <<>>, AppLined(s, b), Head(s.tbuf[b]).len # 0
    PROVE  Head(s.tbuf[b]).at = s.at[b]
<1> DEFINE q == s.tbuf[b]
           F == AppFile[b]
<1>0. q \in Seq(AppBlocks(b)) /\ q # <<>> /\ F \in Nat \ {0}
  BY AppFileIs DEF AppInv, AppTyped
<1>1. AppBlockOk(s, b, 1) /\ q[1].at % F = s.at[b]
  BY <1>0 DEF AppLined
<1>2. q[1].at = F => q[1].len = 0
  BY <1>1 DEF AppBlockOk
<1> HIDE DEF q, F
<1>3. Head(q) = q[1] /\ q[1] \in AppBlocks(b)
  BY <1>0
<1>4. q[1].at \in 0..F /\ q[1].at # F
  BY <1>2, <1>3 DEF AppBlocks, q, F
<1>5. q[1].at % F = q[1].at
  <2>1. q[1].at \in 0..(F - 1)
    BY <1>0, <1>4
  <2> QED BY <1>0, <2>1, NoWrap
<1> QED BY <1>1, <1>3, <1>5 DEF q

LEMMA AppSentOk ==
    ASSUME NEW s, AppInv(s), s.pc = "send", \A b \in AppCh : s.tbuf[b] # <<>>, NEW q \in {"recv", "stoprx"},
           q = "recv" => \A b \in AppCh : ~Head(s.tbuf[b]).last,
           NEW t, t = [AppSentState(s) EXCEPT !.pc = q]
    PROVE  AppInv(t)
<1> DEFINE n == AppLen(s)
           X == n > 0 /\ \E b \in AppCh : Head(s.tbuf[b]).at # s.at[b] \/ Head(s.tbuf[b]).len < n
           A == [b \in AppCh |-> (s.at[b] + n) % AppFile[b]]
           Q == [b \in AppCh |-> Tail(s.tbuf[b])]
<1>0. AppShape(s) /\ s.sent \in Nat /\ s.stm = AppBlk + s.sent /\ AppBlk \in Nat
  BY AppAssumption DEF AppInv
<1>1. n \in Nat /\ \A b \in AppCh : n <= Head(s.tbuf[b]).len
  BY AppLenIs
<1>2. t = [s EXCEPT !.stm = s.stm + n, !.sent = s.sent + n, !.torn = s.torn \/ X, !.at = A, !.tbuf = Q, !.pc = q]
  BY <1>0 DEF AppSentState, AppShape
<1>3. Q = [b \in AppCh |-> Q[b]] /\ \A b \in AppCh : Q[b] = Tail(s.tbuf[b]) /\ A[b] = (s.at[b] + n) % AppFile[b]
  OBVIOUS
<1> HIDE DEF A, Q, n, X
<1>4. /\ t.opt = s.opt /\ t.pc = q /\ t.rbuf = s.rbuf /\ t.at = A /\ t.tbuf = Q /\ t.fp = s.fp
      /\ t.torn = (s.torn \/ X) /\ t.stm = s.stm + n /\ t.sent = s.sent + n /\ t.got = s.got /\ t.out = s.out
      /\ t.gap = s.gap /\ t.stale = s.stale /\ t.thr = s.thr
  BY <1>0, <1>2, ZenonT(30) DEF AppShape
<1>5. AppShape(t)
  <2> DEFINE Y == s.torn \/ X
  <2>1. t = [s EXCEPT !.stm = s.stm + n, !.sent = s.sent + n, !.torn = Y, !.at = A, !.tbuf = Q, !.pc = q]
    BY <1>2
  <2> HIDE DEF Y
  <2>2. t = [opt |-> t.opt, faults |-> t.faults, pc |-> t.pc, dev |-> t.dev, st |-> t.st, strms |-> t.strms,
             thr |-> t.thr, tbuf |-> t.tbuf, rbuf |-> t.rbuf, fp |-> t.fp, at |-> t.at, torn |-> t.torn,
             stale |-> t.stale, stm |-> t.stm, sent |-> t.sent, got |-> t.got, out |-> t.out, gap |-> t.gap,
             i |-> t.i, tstop |-> t.tstop, stop |-> t.stop, sig |-> t.sig]
    BY <1>0, <2>1 DEF AppShape
  <2> QED BY <1>0, <1>3, <1>4, <2>2 DEF AppShape
<1>6. \A b \in AppCh : AppQueued(t, b) /\ AppTyped(t, b)
  <2>1. ASSUME NEW b \in AppCh PROVE AppTyped(t, b)
    <3>1. AppTyped(s, b) /\ s.tbuf[b] \in Seq(AppBlocks(b)) /\ s.tbuf[b] # <<>>
      BY DEF AppInv, AppTyped
    <3>2. Tail(s.tbuf[b]) \in Seq(AppBlocks(b))
      BY <3>1, AppTailed
    <3> QED BY <1>3, <1>4, <3>1, <3>2 DEF AppTyped
  <2>2. \A b \in AppCh : AppQueued(s, b) => AppQueued(t, b)
    BY <1>4 DEF AppQueued
  <2> QED BY <2>1, <2>2 DEF AppInv
<1>7. s.stale \/ AppSeveral(s) \/ \A b \in AppCh : AppLined(s, b)
  BY DEF AppInv, AppLate
<1>8. t.torn => t.stale \/ AppSeveral(t)
  <2>1. ASSUME \A b \in AppCh : AppLined(s, b) PROVE ~X
    <3> SUFFICES ASSUME n > 0, NEW b \in AppCh PROVE Head(s.tbuf[b]).at = s.at[b] /\ ~(Head(s.tbuf[b]).len < n)
      BY DEF X
    <3>1. Head(s.tbuf[b]) \in AppBlocks(b)
      BY AppTailed DEF AppInv, AppTyped
    <3>2. Head(s.tbuf[b]).len \in Nat /\ n <= Head(s.tbuf[b]).len
      BY <1>0, <1>1, <3>1 DEF AppBlocks
    <3>3. Head(s.tbuf[b]).len # 0 /\ ~(Head(s.tbuf[b]).len < n)
      BY <1>1, <3>2
    <3> QED BY <2>1, <3>3, AppHeadAt
  <2>2. s.torn => s.stale \/ AppSeveral(s)
    BY DEF AppInv
  <2> QED BY <1>4, <1>7, <2>1, <2>2 DEF AppSeveral
<1>9. t.stale \/ AppSeveral(t) \/ t.pc \in AppLate \/ \A b \in AppCh : AppLined(t, b)
  <2>1. CASE q = "recv" /\ ~AppSeveral(s) /\ \A b \in AppCh : AppLined(s, b)
    <3> SUFFICES ASSUME NEW b \in AppCh PROVE AppLined(t, b)
      OBVIOUS
    <3>1. n = Head(s.tbuf[b]).len
      BY <2>1, AppLenAll DEF n
    <3>2. /\ t.tbuf[b] = Tail(s.tbuf[b]) /\ t.at[b] = (s.at[b] + n) % AppFile[b]
          /\ t.fp = s.fp /\ t.thr.tx = s.thr.tx /\ t.opt = s.opt
      BY <1>3, <1>4
    <3>3. AppLined(s, b) /\ s.tbuf[b] # <<>>
      BY <2>1
    <3> QED BY <3>1, <3>2, <3>3, AppLinedNext
  <2>2. q = "stoprx" => t.pc \in AppLate
    BY <1>4 DEF AppLate
  <2> QED BY <1>4, <1>7, <2>1, <2>2 DEF AppSeveral
<1>10. t.pc \notin AppEarly /\ t.got \in Nat /\ ~t.gap /\ t.opt \in AppOpts
  BY <1>4 DEF AppEarly, AppInv
<1>11. t.sent \in Nat /\ t.stm = AppBlk + t.sent
  BY <1>0, <1>1, <1>4
<1> QED BY <1>5, <1>6, <1>8, <1>9, <1>10, <1>11 DEF AppInv

\* A round of the loop.
LEMMA AppStaleOk ==
    ASSUME NEW s, AppInv(s), NEW pc, s.pc \notin AppLate, pc \notin AppEarly, NEW x \in AppStale(s, pc)
    PROVE  AppInv(x.s)
<1>0. AppShape(s)
  BY DEF AppInv
<1>1. PICK o \in Io(s, s) : x \in AppGo([o.s EXCEPT !.stale = TRUE], pc)
  BY DEF AppStale
<1> DEFINE u == [o.s EXCEPT !.stale = TRUE]
<1>2. AppKeep(s, o.s) /\ AppShape(o.s)
  BY <1>0, AppIoSelf, AppKeepShape
<1>3. AppKeep(o.s, u)
  BY <1>2, AppPlain
<1> HIDE DEF u
<1>4. AppKeep(s, u)
  BY <1>2, <1>3, AppKeepTrans
<1>5. AppInv(u) /\ u.pc = s.pc
  BY <1>4, AppKept DEF AppKeep, AppSame
<1>6. x \in AppGo(u, pc)
  BY <1>1 DEF u
<1> QED BY <1>5, <1>6, AppWent

LEMMA AppSendOk ==
    ASSUME NEW s, AppInv(s), s.pc = "send", NEW x \in AppSend(s)
    PROVE  AppInv(x.s)
<1>0. AppShape(s) /\ s.pc \notin AppLate /\ "recv" \notin AppEarly /\ "stoprx" \notin AppEarly
  BY DEF AppInv, AppLate, AppEarly
<1>1. CASE ~s.opt.tx
  BY <1>0, <1>1, AppWent DEF AppSend
<1>2. CASE s.opt.tx /\ ~AppReady(s, "tx")
  BY <1>0, <1>2, AppStaleOk DEF AppSend
<1>3. CASE s.opt.tx /\ AppReady(s, "tx")
  <2>1. PICK o \in do_transmit(s) : x \in AppGo(o.s, IF o.ok THEN "recv" ELSE "stoprx")
    BY <1>3 DEF AppSend
  <2> DEFINE q == IF o.ok THEN "recv" ELSE "stoprx"
  <2>2. q \in {"recv", "stoprx"} /\ (q = "recv" => o.ok) /\ x \in AppGo(o.s, q)
    BY <2>1
  <2>3. x.s = [o.s EXCEPT !.pc = q]
    BY <2>2 DEF AppGo, Ok
  <2> HIDE DEF q
  <2>4. CASE AppKeep(s, o.s)
    <3>1. AppInv(o.s) /\ o.s.pc = s.pc
      BY <2>4, AppKept DEF AppKeep, AppSame
    <3>2. q \notin AppEarly /\ o.s.pc \notin AppLate
      BY <1>0, <2>2, <3>1
    <3> QED BY <2>2, <3>1, <3>2, AppWent
  <2>5. CASE o.s = AppSentState(s) /\ (o.ok => \A b \in AppCh : ~Head(s.tbuf[b]).last)
    <3>1. \A b \in AppCh : s.tbuf[b] # <<>>
      BY <1>3 DEF AppReady
    <3>2. q = "recv" => \A b \in AppCh : ~Head(s.tbuf[b]).last
      BY <2>2, <2>5
    <3>3. x.s = [AppSentState(s) EXCEPT !.pc = q]
      BY <2>3, <2>5
    <3> QED BY <2>2, <3>1, <3>2, <3>3, AppSentOk
  <2> QED BY <1>0, <2>4, <2>5, AppTransmits
<1> QED BY <1>1, <1>2, <1>3

LEMMA AppRecvOk ==
    ASSUME NEW s, AppInv(s), s.pc = "recv", NEW x \in AppRecv(s)
    PROVE  AppInv(x.s)
<1> DEFINE t == [s EXCEPT !.i = @ + 1]
<1>0. AppShape(s) /\ s.pc \notin AppLate /\ "loop" \notin AppEarly /\ "stoprx" \notin AppEarly
  BY DEF AppInv, AppLate, AppEarly
<1>1. AppKeep(s, t)
  BY <1>0, AppPlain
<1>2. x \in IF ~s.opt.rx THEN AppGo(t, "loop")
            ELSE IF AppReady(s, "rx") THEN UNION {AppGo(o.s, IF o.ok THEN "loop" ELSE "stoprx") : o \in do_receive(t)}
            ELSE AppStale(t, "loop")
  BY DEF AppRecv
<1> HIDE DEF t
<1>3. AppInv(t) /\ t.pc = s.pc /\ AppShape(t)
  BY <1>1, AppKept DEF AppKeep, AppSame
<1>4. CASE x \in AppGo(t, "loop")
  BY <1>0, <1>3, <1>4, AppWent
<1>5. CASE x \in AppStale(t, "loop")
  BY <1>0, <1>3, <1>5, AppStaleOk
<1>6. CASE x \in UNION {AppGo(o.s, IF o.ok THEN "loop" ELSE "stoprx") : o \in do_receive(t)}
  <2>1. PICK o \in do_receive(t), q \in {"loop", "stoprx"} : x \in AppGo(o.s, q)
    BY <1>6
  <2> DEFINE u == [t EXCEPT !.got = @ + 1, !.rbuf = [b \in AppCh |-> Append(@[b], t.got + 1)]]
  <2>2. o.s = u \/ o \in Faulty(t)
    BY DEF do_receive, Io, Ok
  <2>3. AppInv(u)
    BY <1>3, AppReceived
  <2>4. u.pc = t.pc
    BY <1>3 DEF AppShape
  <2> HIDE DEF u
  <2>5. AppInv(o.s) /\ o.s.pc = t.pc
    <3>1. CASE o \in Faulty(t)
      <4>1. AppKeep(t, o.s)
        BY <1>3, <3>1, AppFault
      <4> QED BY <1>3, <4>1, AppKept DEF AppKeep, AppSame
    <3> QED BY <2>2, <2>3, <2>4, <3>1
  <2>6. q \notin AppEarly /\ o.s.pc \notin AppLate
    BY <1>0, <1>3, <2>1, <2>5
  <2> QED BY <2>1, <2>5, <2>6, AppWent
<1> QED BY <1>2, <1>4, <1>5, <1>6
-----------------------------------------------------------------------------
(* The steps of the threads.                                               *)
LEMMA AppThreadSet ==
    ASSUME NEW s, AppInv(s), NEW d \in {"rx", "tx"}, NEW b \in AppCh, NEW v, s.thr[d][b] \in {"top", "wait"},
           NEW t, t = [s EXCEPT !.thr[d][b] = v]
    PROVE  AppInv(t)
<1>0. AppShape(s) /\ (s.pc \in AppEarly => \A c \in AppCh : s.thr.tx[c] = "no")
  BY DEF AppInv
<1>1. CASE d = "rx"
  <2> DEFINE T == [s.thr.rx EXCEPT ![b] = v]
  <2>1. T = [c \in AppCh |-> T[c]]
    BY <1>0 DEF AppShape
  <2>2. t = [s EXCEPT !.thr = [s.thr EXCEPT !.rx = T]]
    BY <1>1
  <2> HIDE DEF T
  <2>3. AppSame(s, t) /\ t = [t EXCEPT !.pc = s.pc] /\ t.thr.tx = s.thr.tx
    <3>1. /\ t.opt = s.opt /\ t.pc = s.pc /\ t.tbuf = s.tbuf /\ t.rbuf = s.rbuf /\ t.fp = s.fp /\ t.at = s.at
          /\ t.torn = s.torn /\ t.stm = s.stm /\ t.sent = s.sent /\ t.got = s.got /\ t.out = s.out
          /\ t.gap = s.gap /\ t.stale = s.stale /\ t.thr = [s.thr EXCEPT !.rx = T]
          /\ t = [t EXCEPT !.pc = s.pc]
      BY <1>0, <2>2, ZenonT(30) DEF AppShape
    <3>r. t = [opt |-> t.opt, faults |-> t.faults, pc |-> t.pc, dev |-> t.dev, st |-> t.st, strms |-> t.strms,
               thr |-> t.thr, tbuf |-> t.tbuf, rbuf |-> t.rbuf, fp |-> t.fp, at |-> t.at, torn |-> t.torn,
               stale |-> t.stale, stm |-> t.stm, sent |-> t.sent, got |-> t.got, out |-> t.out, gap |-> t.gap,
               i |-> t.i, tstop |-> t.tstop, stop |-> t.stop, sig |-> t.sig]
      BY <1>0, <2>2 DEF AppShape
    <3>s. t.thr.rx = T /\ t.thr.tx = s.thr.tx /\ t.thr = [rx |-> t.thr.rx, tx |-> t.thr.tx]
      BY <1>0, <3>1 DEF AppShape
    <3>2. AppShape(t)
      BY <1>0, <2>1, <3>1, <3>r, <3>s DEF AppShape
    <3>3. t.thr.rx = T /\ t.thr.tx = s.thr.tx
      BY <1>0, <3>1 DEF AppShape
    <3> QED BY <2>1, <3>1, <3>2, <3>3 DEF AppSame
  <2> QED BY <2>3, AppMoved DEF AppMove
<1>2. CASE d = "tx"
  <2> DEFINE T == [s.thr.tx EXCEPT ![b] = v]
  <2>1. T = [c \in AppCh |-> T[c]] /\ \A c \in AppCh : T[c] # "end" => s.thr.tx[c] # "end"
    BY <1>0, <1>2 DEF AppShape
  <2>2. t = [s EXCEPT !.thr = [s.thr EXCEPT !.tx = T]]
    BY <1>2
  <2> HIDE DEF T
  <2>3. AppSame(s, t) /\ t = [t EXCEPT !.pc = s.pc]
    <3>1. /\ t.opt = s.opt /\ t.pc = s.pc /\ t.tbuf = s.tbuf /\ t.rbuf = s.rbuf /\ t.fp = s.fp /\ t.at = s.at
          /\ t.torn = s.torn /\ t.stm = s.stm /\ t.sent = s.sent /\ t.got = s.got /\ t.out = s.out
          /\ t.gap = s.gap /\ t.stale = s.stale /\ t.thr = [s.thr EXCEPT !.tx = T]
          /\ t = [t EXCEPT !.pc = s.pc]
      BY <1>0, <2>2, ZenonT(30) DEF AppShape
    <3>2. AppShape(t)
      BY <1>0, <2>1, <2>2, SMTT(30) DEF AppShape
    <3>3. t.thr.tx = T /\ t.thr.rx = s.thr.rx
      BY <1>0, <3>1 DEF AppShape
    <3> QED BY <2>1, <3>1, <3>2, <3>3 DEF AppSame
  <2>4. s.pc \notin AppEarly
    BY <1>0, <1>2
  <2> QED BY <2>3, <2>4, AppMoved DEF AppMove
<1> QED BY <1>1, <1>2

LEMMA AppThreadOk ==
    ASSUME AppInv(app), NEW d \in {"rx", "tx"}, NEW b \in AppCh, AppThread(d, b)
    PROVE  AppInv(app')
<1>1. CASE AppLook(d, b)
  <2>1. PICK v : app' = [app EXCEPT !.thr[d][b] = v]
    BY <1>1 DEF AppLook
  <2> QED BY <1>1, <2>1, AppThreadSet DEF AppLook
<1>2. CASE AppWaitTimedOut(d, b)
  <2>1. app' = [app EXCEPT !.thr[d][b] = "top"] /\ app.thr[d][b] = "wait"
    BY <1>2 DEF AppWaitTimedOut
  <2> QED BY <2>1, AppThreadSet
<1>3. CASE AppRead(b)
  BY <1>3, AppReadOk DEF AppRead
<1>4. CASE AppWrite(b)
  BY <1>4, AppWritten DEF AppWrite
<1> QED BY <1>1, <1>2, <1>3, <1>4 DEF AppThread

LEMMA AppMainOk ==
    ASSUME AppInv(app), AppMain
    PROVE  AppInv(app')
<1>0. AppShape(app)
  BY DEF AppInv
<1>1. ASSUME NEW S, AppDo(S), \A x \in S : \E q : AppMove(app, x.s, q) PROVE AppInv(app')
  BY <1>1, AppMoved DEF AppDo
<1>2. CASE AppPc("open") /\ AppDo(AppOpen(app))
  BY <1>0, <1>1, <1>2, AppOpenMoves DEF AppPc
<1>3. CASE AppPc("rate") /\ AppDo(AppRate(app))
  BY <1>0, <1>1, <1>3, AppRateMoves DEF AppPc
<1>4. CASE AppPc("openrx") /\ AppDo(AppOpenRx(app))
  <2>1. app.pc \in AppEarly /\ "opentx" \in AppEarly
    BY <1>4 DEF AppPc, AppEarly
  <2> QED BY <1>0, <1>1, <1>4, <2>1, AppOpenStreamMoves DEF AppOpenRx
<1>5. CASE AppPc("opentx") /\ AppDo(AppOpenTx(app))
  <2>1. app.pc \in AppEarly /\ "threadtx" \in AppEarly
    BY <1>5 DEF AppPc, AppEarly
  <2> QED BY <1>0, <1>1, <1>5, <2>1, AppOpenStreamMoves DEF AppOpenTx
<1>6. CASE AppPc("threadtx") /\ AppDo(AppTxThreads(app))
  BY <1>1, <1>6, AppThreadsMove DEF AppPc, AppTxThreads
<1>7. CASE AppPc("threadrx") /\ AppDo(AppRxThreads(app))
  BY <1>1, <1>7, AppThreadsMove DEF AppPc, AppRxThreads
<1>8. CASE \/ AppPc("off") /\ AppDo(AppSyncOff(app))
           \/ AppPc("sync") /\ AppDo(AppSync(app))
           \/ AppPc("params") /\ AppDo(AppParams(app))
           \/ AppPc("tstop") /\ AppDo(AppStopThreads(app))
  BY <1>0, <1>1, <1>8, AppSyncMoves DEF AppPc
<1>9. CASE \/ AppPc("startrx") /\ AppDo(AppStartRx(app))
           \/ AppPc("starttx") /\ AppDo(AppStartTx(app))
  <2>1. app.pc \in {"startrx", "starttx"} /\ app.pc \notin AppLate /\ "starttx" \notin AppEarly /\ "sync" \notin AppEarly
    BY <1>9 DEF AppPc, AppLate, AppEarly
  <2> QED BY <1>0, <1>1, <1>9, <2>1, AppStartMoves DEF AppStartRx, AppStartTx
<1>10. CASE \/ AppPc("stoprx") /\ AppDo(AppStop(app, "rx", "stoptx"))
            \/ AppPc("stoptx") /\ AppDo(AppStop(app, "tx", "tstop"))
  <2>1. /\ app.pc \in {"stoprx", "stoptx"} /\ "stoptx" \in AppLate /\ "tstop" \in AppLate
        /\ "stoptx" \notin AppEarly /\ "tstop" \notin AppEarly
    BY <1>10 DEF AppPc, AppLate, AppEarly
  <2> QED BY <1>0, <1>1, <1>10, <2>1, AppStartMoves
<1>11. CASE \/ AppPc("loop") /\ AppDo(AppLoop(app))
            \/ AppPc("join") /\ AppDo(AppGo(app, "close"))
            \/ AppPc("close") /\ AppDo(AppClose(app))
  BY <1>0, <1>1, <1>11, AppEndMoves DEF AppPc
<1>12. CASE AppPc("send") /\ AppDo(AppSend(app))
  BY <1>12, AppSendOk DEF AppPc, AppDo
<1>13. CASE AppPc("recv") /\ AppDo(AppRecv(app))
  BY <1>13, AppRecvOk DEF AppPc, AppDo
<1> QED BY <1>2, <1>3, <1>4, <1>5, <1>6, <1>7, <1>8, <1>9, <1>10, <1>11, <1>12, <1>13 DEF AppMain

LEMMA AppStarts ==
    ASSUME NEW o \in AppOpts
    PROVE  AppInv(AppFresh(o))
<1> DEFINE s == AppFresh(o)
<1>1. /\ s.opt = o /\ s.pc = "open" /\ s.sent = 0 /\ s.stm = AppBlk /\ s.torn = FALSE /\ s.gap = FALSE /\ s.got = 0
      /\ \A b \in AppCh : /\ s.out[b] = 0 /\ s.rbuf[b] = <<>> /\ s.tbuf[b] = <<>> /\ s.fp[b] = 0 /\ s.at[b] = 0
                          /\ s.thr.tx[b] = "no"
  BY DEF AppFresh
<1>2. AppShape(s)
  <2> DEFINE N == [b \in AppCh |-> "no"]
  <2>1. s.thr = [rx |-> s.thr.rx, tx |-> s.thr.tx] /\ s.thr.rx = N /\ s.thr.tx = N
    BY DEF AppFresh
  <2>2. /\ s.tbuf = [b \in AppCh |-> s.tbuf[b]] /\ s.rbuf = [b \in AppCh |-> s.rbuf[b]]
        /\ s.fp = [b \in AppCh |-> s.fp[b]] /\ s.out = [b \in AppCh |-> s.out[b]]
    BY DEF AppFresh
  <2>3. s = [opt |-> s.opt, faults |-> s.faults, pc |-> s.pc, dev |-> s.dev, st |-> s.st, strms |-> s.strms,
            thr |-> s.thr, tbuf |-> s.tbuf, rbuf |-> s.rbuf, fp |-> s.fp, at |-> s.at, torn |-> s.torn,
            stale |-> s.stale, stm |-> s.stm, sent |-> s.sent, got |-> s.got, out |-> s.out, gap |-> s.gap,
            i |-> s.i, tstop |-> s.tstop, stop |-> s.stop, sig |-> s.sig]
    BY DEF AppFresh
  <2> QED BY <2>1, <2>2, <2>3 DEF AppShape
<1>3. AppBlk \in Nat
  BY AppAssumption
<1> HIDE DEF s
<1>4. ASSUME NEW b \in AppCh PROVE AppQueued(s, b) /\ AppTyped(s, b) /\ AppLined(s, b)
  <2>1. AppFile[b] \in Nat \ {0} /\ 0 % AppFile[b] = 0
    BY AppFileIs
  <2>r. Len(<<>>) = 0 /\ <<>> \in Seq(Nat) /\ <<>> \in Seq(AppBlocks(b)) /\ 1..0 = {} /\ 0 + 0 = 0 /\ 0 \in Nat
    OBVIOUS
  <2>2. AppQueued(s, b)
    BY <1>1, <2>r DEF AppQueued
  <2>3. AppTyped(s, b)
    <3>1. 0 \in 0..AppFile[b] /\ 0 # AppFile[b]
      BY <2>1
    <3> QED BY <1>1, <2>r, <3>1 DEF AppTyped
  <2>4. AppLined(s, b)
    BY <1>1, <2>1 DEF AppLined
  <2> QED BY <2>2, <2>3, <2>4
<1>5. 0 \in Nat /\ AppBlk = AppBlk + 0
  BY <1>3
<1> QED BY <1>1, <1>2, <1>4, <1>5 DEF AppInv, s

(* usdr_dm_create sends the file of every channel from the start, without  *)
(* a hole or a repetition and at its time, and writes what it received in  *)
(* order, whatever the lengths of the files, the size of the rings and the *)
(* order in which the threads run, unless files of several channels are    *)
(* cycled through or a wait timed out.                                     *)
THEOREM AppDataSafe == AppSpec => []AppData
<1>1. AppInit => AppInv(app)
  BY AppStarts DEF AppInit
<1>2. AppInv(app) /\ [AppNext]_app => AppInv(app)'
  <2> SUFFICES ASSUME AppInv(app), [AppNext]_app PROVE AppInv(app')
    OBVIOUS
  <2>1. CASE AppMain
    BY <2>1, AppMainOk
  <2>2. CASE on_stop
    <3>1. AppShape(app) /\ app' = [app EXCEPT !.stop = TRUE]
      BY <2>2 DEF on_stop, AppInv
    <3>2. AppKeep(app, app')
      BY <3>1, AppPlain
    <3> QED BY <3>2, AppKept
  <2>3. CASE \E d \in {"rx", "tx"}, b \in AppCh : AppThread(d, b)
    BY <2>3, AppThreadOk
  <2>4. CASE UNCHANGED app
    BY <2>4
  <2> QED BY <2>1, <2>2, <2>3, <2>4 DEF AppNext
<1>3. AppInv(app) => AppData
  <2> SUFFICES ASSUME AppInv(app) PROVE AppData
    OBVIOUS
  <2>1. AppSendsFile
    BY DEF AppInv, AppSendsFile, AppSeveral
  <2>2. AppWritesReceived
    BY DEF AppInv, AppQueued, AppWritesReceived
  <2> QED BY <2>1, <2>2 DEF AppData
<1> QED BY <1>1, <1>2, <1>3, PTL DEF AppSpec
-----------------------------------------------------------------------------
(* The SoapySDR plug-in: its states, and where a stream stands.            *)
SoapyStream == [setup : BOOLEAN, active : BOOLEAN, strm : BOOLEAN, jit : Nat, w : Nat, r : Nat, next : Nat]
SoapyObj == [h : Nat, rate : Nat, set : [SoapySettings -> Nat], st : [SoapyDirs -> SoapyStream]]
SoapyDev == [up : BOOLEAN, open : SUBSET SoapyDirs, n : Nat, rate : Nat, acc : [SoapySettings -> SUBSET Nat]]
SoapyState == [faults : Nat, calls : Int, reg : Nat, again : BOOLEAN, big : BOOLEAN, bad : BOOLEAN,
               obj : [SoapyObjs -> SoapyObj], dev : Seq(SoapyDev)]

\* Where the next read of a stream that is set up goes on: with the next
\* packet, or in the jitter buffer, which holds what was received.
SoapyNextAt(st, n) ==
    IF st.jit = 0 THEN st.next = n ELSE st.next = st.r /\ st.w = n /\ st.w - st.r <= st.jit

\* An object o and the device v behind its handle agree.
SoapyAgree(o, v, big) ==
    /\ v.up /\ SoapyReports(o.set, v.acc)
    /\ \A d \in SoapyDirs : /\ o.st[d].setup => o.st[d].strm
                            /\ o.st[d].strm => d \in v.open
                            /\ ~o.st[d].setup => o.st[d].jit = 0
    /\ o.st["rx"].setup /\ ~big => SoapyNextAt(o.st["rx"], v.n)

\* Objects of one device hold different streams.
SoapyApart(s) ==
    \A i, j \in SoapyObjs : i # j /\ s.obj[i].h = s.obj[j].h =>
        \A d \in SoapyDirs : ~(s.obj[i].st[d].strm /\ s.obj[j].st[d].strm)

\* The table of handles.
SoapyTable(s) ==
    /\ s.reg \in 0..Len(s.dev) /\ (s.again => s.reg # 0)
    /\ \A h \in 1..Len(s.dev) : \A k \in SoapySettings : 0 \in s.dev[h].acc[k]
    /\ \A i \in SoapyObjs : /\ s.obj[i].h \in 0..Len(s.dev)
                            /\ s.reg = 0 => s.obj[i].h = 0
                            /\ ~s.again => s.obj[i].h \in {0, s.reg}

\* The inductive invariant.
SoapyInv(s) ==
    /\ s \in SoapyState /\ SoapyTable(s) /\ SoapyApart(s) /\ (~s.big => ~s.bad)
    /\ \A i \in SoapyObjs : IF s.obj[i].h = 0 THEN s.obj[i] = SoapyNoObj
                            ELSE SoapyAgree(s.obj[i], s.dev[s.obj[i].h], s.big)

\* A value the device accepted stands for itself in the report of every
\* setting but an AFE79XX's frequency; 0 does for all of them.
LEMMA SoapyStandsZero ==
    ASSUME NEW k PROVE SoapyStands(k, 0, 0)
<1>1. SoapyFreqWord(0, 0) = 0
  BY SoapyAssumption DEF SoapyFreqWord
<1>2. 0 \in SoapyChans
  BY DEF SoapyChans
<1> QED BY <1>1, <1>2 DEF SoapyStands

LEMMA SoapyReportsMore ==
    ASSUME NEW set, NEW a, NEW b, SoapyReports(set, a), \A k \in SoapySettings : a[k] \subseteq b[k]
    PROVE  SoapyReports(set, b)
BY DEF SoapyReports
-----------------------------------------------------------------------------
(* A call changes its object and the device behind it.                     *)
SoapyPut(s, i, o, v) == [s EXCEPT !.obj = [s.obj EXCEPT ![i] = o], !.dev = [s.dev EXCEPT ![s.obj[i].h] = v]]

LEMMA SoapySet1 ==
    ASSUME NEW B, NEW q \in Seq(B), NEW k \in 1..Len(q), NEW v \in B
    PROVE  /\ [q EXCEPT ![k] = v] \in Seq(B) /\ Len([q EXCEPT ![k] = v]) = Len(q)
           /\ [q EXCEPT ![k] = v][k] = v
           /\ \A j \in 1..Len(q) : j # k => [q EXCEPT ![k] = v][j] = q[j]
OBVIOUS

LEMMA SoapyPutIs ==
    ASSUME NEW s \in SoapyState, NEW i \in SoapyObjs, s.obj[i].h \in 1..Len(s.dev), NEW o \in SoapyObj, NEW v \in SoapyDev,
           NEW t, t = SoapyPut(s, i, o, v)
    PROVE  /\ t \in SoapyState /\ t.reg = s.reg /\ t.again = s.again /\ t.calls = s.calls
           /\ t.faults = s.faults /\ t.big = s.big /\ t.bad = s.bad
           /\ Len(t.dev) = Len(s.dev) /\ t.dev[s.obj[i].h] = v
           /\ \A k \in 1..Len(s.dev) : k # s.obj[i].h => t.dev[k] = s.dev[k]
           /\ t.obj[i] = o /\ \A j \in SoapyObjs : j # i => t.obj[j] = s.obj[j]
<1> DEFINE D == [s.dev EXCEPT ![s.obj[i].h] = v]
           O == [s.obj EXCEPT ![i] = o]
<1>1. s.dev \in Seq(SoapyDev) /\ s.obj \in [SoapyObjs -> SoapyObj]
  BY DEF SoapyState
<1>2. /\ D \in Seq(SoapyDev) /\ Len(D) = Len(s.dev) /\ D[s.obj[i].h] = v
      /\ \A j \in 1..Len(s.dev) : j # s.obj[i].h => D[j] = s.dev[j]
  BY <1>1, SoapySet1
<1>3. O \in [SoapyObjs -> SoapyObj] /\ O[i] = o /\ \A j \in SoapyObjs : j # i => O[j] = s.obj[j]
  BY <1>1
<1>4. t = [s EXCEPT !.obj = O, !.dev = D]
  BY DEF SoapyPut
<1> HIDE DEF D, O
<1>5. t \in SoapyState
  BY <1>2, <1>3, <1>4 DEF SoapyState
<1>6. /\ t.obj = O /\ t.dev = D /\ t.faults = s.faults /\ t.big = s.big /\ t.bad = s.bad /\ t.reg = s.reg /\ t.again = s.again
      /\ t.calls = s.calls
  BY <1>4 DEF SoapyState
<1> QED BY <1>2, <1>3, <1>5, <1>6

\* An object and its device may become o and v: the two agree, and nothing
\* another object relies on is gone.
SoapyFits(s, i, o, v) ==
    LET h == s.obj[i].h
    IN  /\ o \in SoapyObj /\ v \in SoapyDev /\ o.h = h /\ SoapyAgree(o, v, s.big)
        /\ \A k \in SoapySettings : s.dev[h].acc[k] \subseteq v.acc[k]
        /\ \A d \in SoapyDirs : o.st[d].strm /\ ~s.obj[i].st[d].strm => d \notin s.dev[h].open
        /\ \A d \in SoapyDirs : d \in s.dev[h].open /\ d \notin v.open => s.obj[i].st[d].strm
        /\ v.n # s.dev[h].n => s.obj[i].st["rx"].strm

LEMMA SoapyLocal ==
    ASSUME NEW s, SoapyInv(s), NEW i \in SoapyObjs, s.obj[i].h # 0, NEW o, NEW v, SoapyFits(s, i, o, v),
           NEW t, t = SoapyPut(s, i, o, v)
    PROVE  /\ SoapyInv(t) /\ t.obj[i] = o /\ t.dev[s.obj[i].h] = v
           /\ t.obj[i].h = s.obj[i].h
<1> DEFINE h == s.obj[i].h
<1>0. s \in SoapyState /\ h \in 1..Len(s.dev)
  BY DEF SoapyInv, SoapyTable
<1>f. /\ o \in SoapyObj /\ v \in SoapyDev /\ o.h = h /\ SoapyAgree(o, v, s.big)
      /\ \A k \in SoapySettings : s.dev[h].acc[k] \subseteq v.acc[k]
      /\ \A d \in SoapyDirs : o.st[d].strm /\ ~s.obj[i].st[d].strm => d \notin s.dev[h].open
      /\ \A d \in SoapyDirs : d \in s.dev[h].open /\ d \notin v.open => s.obj[i].st[d].strm
      /\ v.n # s.dev[h].n => s.obj[i].st["rx"].strm
  BY DEF SoapyFits
<1>1. /\ t \in SoapyState /\ t.reg = s.reg /\ t.again = s.again /\ t.big = s.big /\ t.bad = s.bad
      /\ Len(t.dev) = Len(s.dev) /\ t.dev[h] = v
      /\ \A k \in 1..Len(s.dev) : k # h => t.dev[k] = s.dev[k]
      /\ t.obj[i] = o /\ \A j \in SoapyObjs : j # i => t.obj[j] = s.obj[j]
  BY <1>0, <1>f, SoapyPutIs
<1>2. SoapyTable(t)
  <2>1. \A j \in SoapyObjs : t.obj[j].h = s.obj[j].h
    BY <1>1, <1>f
  <2>2. \A k \in 1..Len(s.dev) : \A c \in SoapySettings : 0 \in t.dev[k].acc[c]
    BY <1>1, <1>f, SMTT(30) DEF SoapyInv, SoapyTable
  <2> QED BY <1>1, <2>1, <2>2 DEF SoapyInv, SoapyTable
<1>3. ASSUME NEW j \in SoapyObjs, j # i, s.obj[j].h = h, NEW d \in SoapyDirs PROVE ~(o.st[d].strm /\ s.obj[j].st[d].strm)
  <2>1. CASE s.obj[i].st[d].strm
    BY <1>3, <2>1 DEF SoapyInv, SoapyApart
  <2>2. CASE ~s.obj[i].st[d].strm
    <3>1. s.obj[j].st[d].strm => d \in s.dev[h].open
      BY <1>3 DEF SoapyInv, SoapyAgree
    <3> QED BY <1>f, <2>2, <3>1
  <2> QED BY <2>1, <2>2
<1>4. SoapyApart(t)
  <2> SUFFICES ASSUME NEW j \in SoapyObjs, NEW k \in SoapyObjs, j # k, t.obj[j].h = t.obj[k].h, NEW d \in SoapyDirs
               PROVE  ~(t.obj[j].st[d].strm /\ t.obj[k].st[d].strm)
    BY DEF SoapyApart
  <2>1. CASE j # i /\ k # i
    BY <1>1, <2>1 DEF SoapyInv, SoapyApart
  <2>2. CASE j = i
    BY <1>1, <1>3, <1>f, <2>2, SMTT(30)
  <2>3. CASE k = i
    BY <1>1, <1>3, <1>f, <2>3, SMTT(30)
  <2> QED BY <2>1, <2>2, <2>3
<1>5. ASSUME NEW j \in SoapyObjs
      PROVE  IF t.obj[j].h = 0 THEN t.obj[j] = SoapyNoObj ELSE SoapyAgree(t.obj[j], t.dev[t.obj[j].h], t.big)
  <2>1. CASE j = i
    BY <1>1, <1>f, <2>1
  <2>2. CASE j # i
    <3>0. t.obj[j] = s.obj[j] /\ (s.obj[j].h = 0 => s.obj[j] = SoapyNoObj)
      BY <1>1, <2>2 DEF SoapyInv
    <3>1. CASE s.obj[j].h # 0 /\ s.obj[j].h # h
      <4>1. SoapyAgree(s.obj[j], s.dev[s.obj[j].h], s.big)
        BY <3>1 DEF SoapyInv
      <4>3. t.dev[s.obj[j].h] = s.dev[s.obj[j].h]
        BY <1>1, <3>1 DEF SoapyInv, SoapyTable
      <4> QED BY <1>1, <3>0, <3>1, <4>1, <4>3
    <3>2. CASE s.obj[j].h = h
      <4>1. SoapyAgree(s.obj[j], s.dev[h], s.big)
        BY <3>2 DEF SoapyInv
      <4>2. ASSUME NEW d \in SoapyDirs, s.obj[j].st[d].strm PROVE ~s.obj[i].st[d].strm /\ d \in v.open
        <5>1. ~s.obj[i].st[d].strm
          BY <2>2, <3>2, <4>2 DEF SoapyInv, SoapyApart
        <5>2. d \in s.dev[h].open
          BY <4>1, <4>2, SMTT(30) DEF SoapyAgree
        <5> QED BY <1>f, <5>1, <5>2
      <4>3. s.obj[j].st["rx"].setup => v.n = s.dev[h].n
        BY <1>f, <4>1, <4>2 DEF SoapyAgree, SoapyDirs
      <4>4. v.up
        BY <1>f DEF SoapyAgree
      <4>6. SoapyReports(s.obj[j].set, v.acc)
        BY <1>f, <4>1, SoapyReportsMore DEF SoapyAgree
      <4>5. SoapyAgree(s.obj[j], v, s.big)
        BY <4>1, <4>2, <4>3, <4>4, <4>6 DEF SoapyAgree
      <4> QED BY <1>1, <3>0, <3>2, <4>5
    <3> QED BY <3>0, <3>1, <3>2
  <2> QED BY <2>1, <2>2
<1> QED BY <1>1, <1>2, <1>4, <1>5, <1>f DEF SoapyInv

\* Bounds of the model apart, nothing changes.
LEMMA SoapyBounds ==
    ASSUME NEW s, SoapyInv(s), NEW n \in Nat, NEW t \in {[s EXCEPT !.faults = n], [s EXCEPT !.calls = n]}
    PROVE  SoapyInv(t) /\ t.obj = s.obj /\ t.dev = s.dev /\ t.big = s.big /\ t.bad = s.bad
<1>1. s \in SoapyState
  BY DEF SoapyInv
<1>2. t \in SoapyState /\ t.obj = s.obj /\ t.dev = s.dev /\ t.big = s.big /\ t.bad = s.bad /\ t.reg = s.reg /\ t.again = s.again
  BY <1>1 DEF SoapyState
<1>3. SoapyTable(t) /\ SoapyApart(t)
  BY <1>2 DEF SoapyInv, SoapyTable, SoapyApart
<1> QED BY <1>2, <1>3 DEF SoapyInv

LEMMA SoapyFault ==
    ASSUME NEW s, SoapyInv(s), NEW o \in Faulty(s)
    PROVE  SoapyInv(o.s) /\ o.s.obj = s.obj /\ o.s.dev = s.dev /\ o.ok = FALSE
<1>1. s.faults \in Nat /\ s.faults # 0 /\ o = [s |-> [s EXCEPT !.faults = s.faults - 1], ok |-> FALSE]
  BY DEF Faulty, Fail, SoapyInv, SoapyState
<1>2. s.faults - 1 \in Nat
  BY <1>1
<1> QED BY <1>1, <1>2, SoapyBounds

\* A call that has its effect or fails.
LEMMA SoapyIo ==
    ASSUME NEW s, SoapyInv(s), NEW t, SoapyInv(t), NEW o \in Io(s, t)
    PROVE  SoapyInv(o.s) /\ (o.ok => o.s = t) /\ (~o.ok => o.s.obj = s.obj /\ o.s.dev = s.dev)
<1>1. CASE o \in Ok(t)
  BY <1>1 DEF Ok
<1>2. CASE o \in Faulty(s)
  BY <1>2, SoapyFault
<1> QED BY <1>1, <1>2 DEF Io

\* What an object and its device are.
LEMMA SoapyOf ==
    ASSUME NEW s, SoapyInv(s), NEW i \in SoapyObjs
    PROVE  /\ s \in SoapyState /\ s.obj[i] \in SoapyObj /\ s.obj \in [SoapyObjs -> SoapyObj] /\ s.dev \in Seq(SoapyDev)
           /\ s.faults \in Nat /\ s.big \in BOOLEAN /\ s.bad \in BOOLEAN /\ (~s.big => ~s.bad)
           /\ s.obj[i].h # 0 => /\ s.obj[i].h \in 1..Len(s.dev) /\ s.dev[s.obj[i].h] \in SoapyDev
                                /\ SoapyAgree(s.obj[i], s.dev[s.obj[i].h], s.big)
<1>1. s \in SoapyState
  BY DEF SoapyInv
<1>2. s.obj \in [SoapyObjs -> SoapyObj] /\ s.dev \in Seq(SoapyDev) /\ s.faults \in Nat /\ s.big \in BOOLEAN /\ s.bad \in BOOLEAN
  BY <1>1 DEF SoapyState
<1>3. s.obj[i].h # 0 => s.obj[i].h \in 1..Len(s.dev)
  BY DEF SoapyInv, SoapyTable
<1>4. \A k \in 1..Len(s.dev) : s.dev[k] \in SoapyDev
  BY <1>2
<1> QED BY <1>1, <1>2, <1>3, <1>4 DEF SoapyInv

\* What is left alone by an update is put back as it is.
LEMMA SoapyPutSame ==
    ASSUME NEW s, SoapyInv(s), NEW i \in SoapyObjs, s.obj[i].h # 0, NEW o
    PROVE  [s EXCEPT !.obj = [s.obj EXCEPT ![i] = o]] = SoapyPut(s, i, o, s.dev[s.obj[i].h])
<1> DEFINE h == s.obj[i].h
<1>1. [s.dev EXCEPT ![h] = s.dev[h]] = s.dev
  <2>1. s.dev \in Seq(SoapyDev) /\ h \in 1..Len(s.dev)
    BY SoapyOf
  <2> HIDE DEF h
  <2> QED BY <2>1
<1>2. ASSUME NEW O PROVE [s EXCEPT !.obj = O] = [s EXCEPT !.obj = O, !.dev = s.dev]
  BY DEF SoapyInv, SoapyState
<1> QED BY <1>1, <1>2 DEF SoapyPut

LEMMA SoapyPutDev ==
    ASSUME NEW s, SoapyInv(s), NEW i \in SoapyObjs, s.obj[i].h # 0, NEW v
    PROVE  [s EXCEPT !.dev = [s.dev EXCEPT ![s.obj[i].h] = v]] = SoapyPut(s, i, s.obj[i], v)
<1>1. [s.obj EXCEPT ![i] = s.obj[i]] = s.obj
  <2>1. s.obj \in [SoapyObjs -> SoapyObj]
    BY SoapyOf
  <2> QED BY <2>1
<1>2. ASSUME NEW D PROVE [s EXCEPT !.dev = D] = [s EXCEPT !.obj = s.obj, !.dev = D]
  BY DEF SoapyInv, SoapyState
<1> QED BY <1>1, <1>2 DEF SoapyPut
-----------------------------------------------------------------------------
(* Settings.                                                               *)
LEMMA SoapyRateOk ==
    ASSUME NEW s, SoapyInv(s), NEW i \in SoapyObjs, s.obj[i].h # 0, NEW v \in Nat,
           NEW y \in SoapyUSDR_setSampleRate(s, i, v)
    PROVE  SoapyInv(y.s) /\ y.s.obj[i].h = s.obj[i].h /\ y.s.obj[i].st = s.obj[i].st
<1> DEFINE h == s.obj[i].h
           o == [s.obj[i] EXCEPT !.rate = v]
           t == [s EXCEPT !.obj[i].rate = v]
<1>0. s.obj[i] \in SoapyObj /\ s.dev[h] \in SoapyDev /\ SoapyAgree(s.obj[i], s.dev[h], s.big)
      /\ s.faults \in Nat /\ s.big \in BOOLEAN /\ s.bad \in BOOLEAN /\ (~s.big => ~s.bad)
  BY SoapyOf
<1>1. o \in SoapyObj /\ o.h = h /\ o.st = s.obj[i].st /\ o.set = s.obj[i].set
  BY <1>0 DEF SoapyObj
<1>2. t = SoapyPut(s, i, o, s.dev[h])
  <2>1. t = [s EXCEPT !.obj = [s.obj EXCEPT ![i] = o]]
    BY SMTT(30)
  <2> HIDE DEF o, t
  <2> QED BY <2>1, SoapyPutSame
<1> HIDE DEF o, t
<1>3. SoapyFits(s, i, o, s.dev[h])
  <2>1. SoapyAgree(o, s.dev[h], s.big)
    BY <1>0, <1>1 DEF SoapyAgree
  <2> HIDE DEF h
  <2>2. s.obj[i].h = h
    BY DEF h
  <2> QED BY <1>0, <1>1, <2>1, <2>2, ZenonT(60) DEF SoapyFits
<1>4. SoapyInv(t) /\ t.obj[i] = o /\ t.dev[h] = s.dev[h]
  BY <1>0, <1>2, <1>3, SoapyLocal, SMTT(30)
<1> DEFINE w == [t.dev[h] EXCEPT !.rate = v]
           u == [t EXCEPT !.dev[t.obj[i].h].rate = v]
<1>5. /\ w \in SoapyDev /\ w.up = t.dev[h].up /\ w.open = t.dev[h].open /\ w.n = t.dev[h].n /\ w.acc = t.dev[h].acc
  BY <1>0, <1>4 DEF SoapyDev
<1>6. u = SoapyPut(t, i, t.obj[i], w)
  <2>1. u = [t EXCEPT !.dev = [t.dev EXCEPT ![t.obj[i].h] = w]]
    BY <1>1, <1>4
  <2> HIDE DEF w, u
  <2>2. SoapyInv(t) /\ t.obj[i].h # 0
    BY <1>1, <1>4
  <2> QED BY <2>1, <2>2, SoapyPutDev
<1>7. t.obj[i] \in SoapyObj /\ SoapyAgree(t.obj[i], t.dev[h], t.big)
      /\ t.faults \in Nat /\ t.big \in BOOLEAN /\ t.bad \in BOOLEAN /\ (~t.big => ~t.bad) /\ t.obj[i].h = h
  BY <1>1, <1>4, SoapyOf, SMTT(30)
<1> HIDE DEF w, u
<1>8. SoapyFits(t, i, t.obj[i], w)
  BY <1>5, <1>7 DEF SoapyAgree, SoapyFits
<1>9. SoapyInv(u) /\ u.obj[i] = t.obj[i]
  BY <1>4, <1>6, <1>7, <1>8, SoapyLocal
<1>10. y \in Io(t, u)
  BY DEF SoapyUSDR_setSampleRate, SoapyH, t, u
<1> QED BY <1>1, <1>4, <1>9, <1>10, SoapyIo

LEMMA SoapySetOk ==
    ASSUME NEW s, SoapyInv(s), NEW i \in SoapyObjs, s.obj[i].h # 0, NEW k \in SoapySettings, NEW v \in Nat,
           NEW note \in Nat, SoapyStands(k, note, v), NEW y \in SoapyUSDR_setUint(s, i, k, v, note)
    PROVE  SoapyInv(y.s)
<1> DEFINE h == s.obj[i].h
           S == [s.obj[i].set EXCEPT ![k] = note]
           A == [s.dev[h].acc EXCEPT ![k] = s.dev[h].acc[k] \cup {v}]
           o == [s.obj[i] EXCEPT !.set = S]
           w == [s.dev[h] EXCEPT !.acc = A]
           t == [s EXCEPT !.dev[h].acc[k] = @ \cup {v}, !.obj[i].set[k] = note]
<1>0. s.obj[i] \in SoapyObj /\ s.dev[h] \in SoapyDev /\ SoapyAgree(s.obj[i], s.dev[h], s.big)
      /\ s.faults \in Nat /\ s.big \in BOOLEAN /\ s.bad \in BOOLEAN /\ (~s.big => ~s.bad)
  BY SoapyOf
<1>a. s.obj[i].set \in [SoapySettings -> Nat] /\ s.dev[h].acc \in [SoapySettings -> SUBSET Nat]
  BY <1>0 DEF SoapyObj, SoapyDev
<1>b. /\ S \in [SoapySettings -> Nat] /\ A \in [SoapySettings -> SUBSET Nat]
      /\ S[k] = note /\ A[k] = s.dev[h].acc[k] \cup {v}
      /\ \A c \in SoapySettings : c # k => S[c] = s.obj[i].set[c] /\ A[c] = s.dev[h].acc[c]
  BY <1>a
<1>3. t = SoapyPut(s, i, o, w)
  <2>1. t = [s EXCEPT !.obj = [s.obj EXCEPT ![i] = o], !.dev = [s.dev EXCEPT ![h] = w]]
    <3>1. t = [s EXCEPT !.dev = [s.dev EXCEPT ![h] = w], !.obj = [s.obj EXCEPT ![i] = o]]
      OBVIOUS
    <3>2. s \in SoapyState
      BY SoapyOf
    <3> HIDE DEF o, w, t
    <3> QED BY <3>1, <3>2 DEF SoapyState
  <2> HIDE DEF o, w, t, S, A, h
  <2>2. t = SoapyPut(s, i, o, w)
    BY <2>1 DEF h, SoapyPut
  <2> QED BY <2>2
<1> HIDE DEF S, A
<1>1. o \in SoapyObj /\ o.h = h /\ o.st = s.obj[i].st /\ o.set = S
  BY <1>0, <1>b, SMTT(30) DEF SoapyObj
<1>2. /\ w \in SoapyDev /\ w.up = s.dev[h].up /\ w.open = s.dev[h].open /\ w.n = s.dev[h].n
      /\ w.acc = A
  BY <1>0, <1>b, ZenonT(60) DEF SoapyDev
<1> HIDE DEF o, w, t
<1>4. (\A c \in SoapySettings : s.dev[h].acc[c] \subseteq w.acc[c]) /\ SoapyReports(o.set, w.acc)
  <2>1. SoapyReports(s.obj[i].set, s.dev[h].acc)
    BY <1>0 DEF SoapyAgree
  <2>2. ASSUME NEW c \in SoapySettings
        PROVE  s.dev[h].acc[c] \subseteq A[c] /\ \E a \in A[c] : SoapyStands(c, S[c], a)
    <3>1. CASE c = k
      BY <1>b, <3>1
    <3>2. CASE c # k
      <4>1. PICK a \in s.dev[h].acc[c] : SoapyStands(c, s.obj[i].set[c], a)
        BY <2>1 DEF SoapyReports
      <4> QED BY <1>b, <3>2, <4>1
    <3> QED BY <3>1, <3>2
  <2> QED BY <1>1, <1>2, <2>2 DEF SoapyReports
<1>5. SoapyFits(s, i, o, w)
  BY <1>0, <1>1, <1>2, <1>4 DEF SoapyAgree, SoapyFits
<1>6. SoapyInv(t)
  BY <1>0, <1>3, <1>5, SoapyLocal
<1>7. y \in Io(s, t)
  BY DEF SoapyUSDR_setUint, SoapyH, t
<1> QED BY <1>6, <1>7, SoapyIo
-----------------------------------------------------------------------------
(* Streams.                                                                *)
SoapySetSt(s, i, d, y) == [s.obj[i] EXCEPT !.st = [s.obj[i].st EXCEPT ![d] = y]]

\* What is needed of a stream that changes, and of the device.
SoapyStOk(s, i, d, y, v) ==
    LET st == s.obj[i].st[d]
        w == s.dev[s.obj[i].h]
    IN  /\ y \in SoapyStream /\ v \in SoapyDev /\ v.up = w.up /\ v.acc = w.acc
        /\ y.setup => y.strm
        /\ y.strm => d \in v.open /\ (st.strm \/ d \notin w.open)
        /\ ~y.setup => y.jit = 0
        /\ \A e \in SoapyDirs : e # d => (e \in v.open <=> e \in w.open)
        /\ d \in w.open /\ d \notin v.open => st.strm
        /\ d = "rx" /\ y.setup /\ ~s.big => SoapyNextAt(y, v.n)
        /\ v.n # w.n => d = "rx" /\ st.strm

LEMMA SoapyStFits ==
    ASSUME NEW s, SoapyInv(s), NEW i \in SoapyObjs, s.obj[i].h # 0, NEW d \in SoapyDirs, NEW y, NEW v,
           SoapyStOk(s, i, d, y, v)
    PROVE  /\ SoapyFits(s, i, SoapySetSt(s, i, d, y), v)
           /\ SoapySetSt(s, i, d, y).st[d] = y
<1> DEFINE h == s.obj[i].h
           o == SoapySetSt(s, i, d, y)
           w == s.dev[h]
           S == [s.obj[i].st EXCEPT ![d] = y]
<1>0. s.obj[i] \in SoapyObj /\ w \in SoapyDev /\ SoapyAgree(s.obj[i], w, s.big)
  BY SoapyOf
<1>1. s.obj[i].st \in [SoapyDirs -> SoapyStream] /\ y \in SoapyStream
  BY <1>0 DEF SoapyObj, SoapyStOk
<1>2. S \in [SoapyDirs -> SoapyStream] /\ S[d] = y /\ \A e \in SoapyDirs : e # d => S[e] = s.obj[i].st[e]
  BY <1>1
<1> HIDE DEF S
<1>3. o \in SoapyObj /\ o.h = h /\ o.set = s.obj[i].set /\ o.st = S
  BY <1>0, <1>2 DEF SoapyObj, SoapySetSt, S
<1> HIDE DEF o, w
<1>4. /\ v \in SoapyDev /\ v.up = w.up /\ v.acc = w.acc
      /\ y.setup => y.strm
      /\ y.strm => d \in v.open /\ (s.obj[i].st[d].strm \/ d \notin w.open)
      /\ ~y.setup => y.jit = 0
      /\ \A e \in SoapyDirs : e # d => (e \in v.open <=> e \in w.open)
      /\ d \in w.open /\ d \notin v.open => s.obj[i].st[d].strm
      /\ d = "rx" /\ y.setup /\ ~s.big => SoapyNextAt(y, v.n)
      /\ v.n # w.n => d = "rx" /\ s.obj[i].st[d].strm
  BY DEF SoapyStOk, w, h
<1>5. /\ w.up /\ SoapyReports(s.obj[i].set, w.acc)
      /\ \A e \in SoapyDirs : /\ s.obj[i].st[e].setup => s.obj[i].st[e].strm
                              /\ s.obj[i].st[e].strm => e \in w.open
                              /\ ~s.obj[i].st[e].setup => s.obj[i].st[e].jit = 0
      /\ s.obj[i].st["rx"].setup /\ ~s.big => SoapyNextAt(s.obj[i].st["rx"], w.n)
  BY <1>0 DEF SoapyAgree
<1>6. "rx" \in SoapyDirs
  BY DEF SoapyDirs
<1>7. ASSUME NEW e \in SoapyDirs
      PROVE  /\ o.st[e].setup => o.st[e].strm
             /\ o.st[e].strm => e \in v.open
             /\ ~o.st[e].setup => o.st[e].jit = 0
             /\ o.st[e].strm /\ ~s.obj[i].st[e].strm => e \notin w.open
             /\ e \in w.open /\ e \notin v.open => s.obj[i].st[e].strm
  BY <1>2, <1>3, <1>4, <1>5
<1>8. o.st["rx"].setup /\ ~s.big => SoapyNextAt(o.st["rx"], v.n)
  <2>1. CASE d = "rx"
    BY <1>2, <1>3, <1>4, <2>1
  <2>2. CASE d # "rx"
    BY <1>2, <1>3, <1>4, <1>5, <1>6, <2>2
  <2> QED BY <2>1, <2>2
<1>9. SoapyAgree(o, v, s.big)
  BY <1>3, <1>4, <1>5, <1>7, <1>8, SMTT(30) DEF SoapyAgree
<1>10. SoapyFits(s, i, o, v)
  BY <1>3, <1>4, <1>7, <1>9 DEF SoapyFits, w, h
<1> QED BY <1>2, <1>3, <1>10 DEF o

\* A stream and its device are changed.
LEMMA SoapyStSet ==
    ASSUME NEW s, SoapyInv(s), NEW i \in SoapyObjs, s.obj[i].h # 0, NEW d \in SoapyDirs, NEW y, NEW v,
           SoapyStOk(s, i, d, y, v),
           NEW t, t = SoapyPut(s, i, SoapySetSt(s, i, d, y), v)
    PROVE  SoapyInv(t) /\ t.obj[i].h = s.obj[i].h /\ t.obj[i].st[d] = y /\ t.dev[s.obj[i].h] = v
<1>1. SoapyFits(s, i, SoapySetSt(s, i, d, y), v) /\ SoapySetSt(s, i, d, y).st[d] = y
  BY SoapyStFits
<1>2. PICK o : o = SoapySetSt(s, i, d, y)
  OBVIOUS
<1>3. SoapyFits(s, i, o, v) /\ o.st[d] = y /\ t = SoapyPut(s, i, o, v)
  BY <1>1, <1>2
<1>4. SoapyInv(t) /\ t.obj[i] = o /\ t.dev[s.obj[i].h] = v /\ t.obj[i].h = s.obj[i].h
  BY <1>3, SoapyLocal
<1> QED BY <1>3, <1>4

LEMMA SoapyCreateOk ==
    ASSUME NEW s, SoapyInv(s), NEW i \in SoapyObjs, s.obj[i].h # 0, NEW d \in SoapyDirs, NEW z \in usdr_dms_create_ex(s, i, d)
    PROVE  /\ SoapyInv(z.s)
           /\ z.ok => z.s.obj[i].h # 0 /\ z.s.obj[i].st[d].strm /\ z.s.obj[i].st[d].jit = 0
<1> DEFINE h == s.obj[i].h
           st == s.obj[i].st[d]
           v == [s.dev[h] EXCEPT !.open = s.dev[h].open \cup {d}]
           y == [st EXCEPT !.strm = TRUE]
           t == [s EXCEPT !.dev[h].open = @ \cup {d}, !.obj[i].st[d].strm = TRUE]
<1>1. CASE d \in s.dev[h].open
  BY <1>1 DEF usdr_dms_create_ex, Fail, SoapyH
<1>2. CASE d \notin s.dev[h].open
  <2>0. s \in SoapyState /\ s.obj[i] \in SoapyObj /\ s.dev[h] \in SoapyDev /\ SoapyAgree(s.obj[i], s.dev[h], s.big) /\ s.big \in BOOLEAN
    BY SoapyOf
  <2>1. st \in SoapyStream /\ ~st.strm /\ ~st.setup /\ st.jit = 0
    BY <1>2, <2>0 DEF SoapyAgree, SoapyObj
  <2>2. t = [s EXCEPT !.obj = [s.obj EXCEPT ![i] = SoapySetSt(s, i, d, y)], !.dev = [s.dev EXCEPT ![h] = v]]
    <3>1. t = [s EXCEPT !.dev = [s.dev EXCEPT ![h] = v], !.obj = [s.obj EXCEPT ![i] = SoapySetSt(s, i, d, y)]]
      BY DEF SoapySetSt
    <3> HIDE DEF t, v, y
    <3> QED BY <2>0, <3>1 DEF SoapyState
  <2>3. /\ y \in SoapyStream /\ y.strm = TRUE /\ ~y.setup /\ y.jit = 0
        /\ v \in SoapyDev /\ v.up = s.dev[h].up /\ v.acc = s.dev[h].acc /\ v.n = s.dev[h].n /\ v.open = s.dev[h].open \cup {d}
    <3> HIDE DEF st
    <3> QED BY <2>0, <2>1, ZenonT(60) DEF SoapyStream, SoapyDev
  <2> HIDE DEF t, v, y
  <2>4. SoapyStOk(s, i, d, y, v)
    BY <1>2, <2>0, <2>3 DEF SoapyStOk
  <2>5. SoapyInv(t) /\ t.obj[i].h = h /\ t.obj[i].st[d] = y
    <3>1. t = SoapyPut(s, i, SoapySetSt(s, i, d, y), v)
      BY <2>2 DEF SoapyPut
    <3> QED BY <2>4, <3>1, SoapyStSet
  <2>6. z \in Io(s, t)
    BY <1>2 DEF usdr_dms_create_ex, SoapyH, t
  <2> QED BY <2>3, <2>5, <2>6, SoapyIo, SMTT(30)
<1> QED BY <1>1, <1>2


\* A stream is changed.
SoapyWith(s, i, d, y) == [s EXCEPT !.obj = [s.obj EXCEPT ![i] = SoapySetSt(s, i, d, y)]]

LEMMA SoapyWithIs ==
    ASSUME NEW s \in SoapyState, NEW i \in SoapyObjs, NEW d \in SoapyDirs, NEW y, NEW t, t = SoapyWith(s, i, d, y)
    PROVE  /\ t.obj[i].st[d] = y /\ t.dev = s.dev /\ t.obj[i].h = s.obj[i].h
           /\ \A z : SoapyWith(t, i, d, z) = SoapyWith(s, i, d, z)
<1> DEFINE o == SoapySetSt(s, i, d, y)
           O == [s.obj EXCEPT ![i] = o]
<1>0. /\ s.obj \in [SoapyObjs -> SoapyObj] /\ s.obj[i] \in SoapyObj /\ s.obj[i].st \in [SoapyDirs -> SoapyStream]
      /\ t = [s EXCEPT !.obj = O]
  BY DEF SoapyState, SoapyObj, SoapyWith
<1>1. o.st = [s.obj[i].st EXCEPT ![d] = y] /\ o.st[d] = y /\ o.h = s.obj[i].h
  BY <1>0 DEF SoapySetSt, SoapyObj
<1>2. ASSUME NEW z PROVE [o EXCEPT !.st = [o.st EXCEPT ![d] = z]] = SoapySetSt(s, i, d, z)
  <2>1. [o.st EXCEPT ![d] = z] = [s.obj[i].st EXCEPT ![d] = z]
    BY <1>0, <1>1
  <2> DEFINE P == [s.obj[i].st EXCEPT ![d] = z]
             Q == [s.obj[i].st EXCEPT ![d] = y]
  <2> HIDE DEF P, Q
  <2>2. [[s.obj[i] EXCEPT !.st = Q] EXCEPT !.st = P] = [s.obj[i] EXCEPT !.st = P]
    BY <1>0 DEF SoapyObj
  <2> QED BY <2>1, <2>2 DEF P, Q, SoapySetSt
<1> HIDE DEF o
<1>3. O[i] = o /\ \A z : [O EXCEPT ![i] = z] = [s.obj EXCEPT ![i] = z]
  BY <1>0
<1> HIDE DEF O
<1>4. t.obj = O /\ t.dev = s.dev /\ \A P : [t EXCEPT !.obj = P] = [s EXCEPT !.obj = P]
  BY <1>0 DEF SoapyState
<1>5. ASSUME NEW z PROVE SoapyWith(t, i, d, z) = SoapyWith(s, i, d, z)
  <2>1. SoapySetSt(t, i, d, z) = SoapySetSt(s, i, d, z)
    BY <1>2, <1>3, <1>4 DEF SoapySetSt
  <2> QED BY <1>3, <1>4, <2>1, ZenonT(30) DEF SoapyWith
<1> QED BY <1>1, <1>3, <1>4, <1>5

\* Closing a stream.
SoapyShut(st) == [[[st EXCEPT !.strm = FALSE] EXCEPT !.jit = 0] EXCEPT !.setup = FALSE]

\* A second write of a stream.
LEMMA SoapyWithOver ==
    ASSUME NEW s \in SoapyState, NEW i \in SoapyObjs, NEW d \in SoapyDirs, NEW y, NEW a, a = SoapyWith(s, i, d, y), NEW z
    PROVE  SoapyWith(a, i, d, z) = SoapyWith(s, i, d, z)
BY SoapyWithIs

LEMMA SoapyShuts ==
    ASSUME NEW s \in SoapyState, NEW i \in SoapyObjs, NEW d \in SoapyDirs
    PROVE  [s EXCEPT !.obj[i].st[d].strm = FALSE, !.obj[i].st[d].jit = 0, !.obj[i].st[d].setup = FALSE] =
             SoapyWith(s, i, d, SoapyShut(s.obj[i].st[d]))
<1>1. PICK a : a = [s EXCEPT !.obj[i].st[d].strm = FALSE]
  OBVIOUS
<1>2. PICK b : b = [a EXCEPT !.obj[i].st[d].jit = 0]
  OBVIOUS
<1>3. PICK c : c = [b EXCEPT !.obj[i].st[d].setup = FALSE]
  OBVIOUS
<1>4. [s EXCEPT !.obj[i].st[d].strm = FALSE, !.obj[i].st[d].jit = 0, !.obj[i].st[d].setup = FALSE] = c
  BY <1>1, <1>2, <1>3
<1>5. PICK y : y = [s.obj[i].st[d] EXCEPT !.strm = FALSE]
  OBVIOUS
<1>6. PICK z : z = [y EXCEPT !.jit = 0]
  OBVIOUS
<1>7. a = SoapyWith(s, i, d, y)
  BY <1>1, <1>5 DEF SoapyWith, SoapySetSt
<1>8. a.obj[i].st[d] = y
  BY <1>7, SoapyWithIs
<1>9. b = SoapyWith(a, i, d, z)
  <2>1. b = SoapyWith(a, i, d, [a.obj[i].st[d] EXCEPT !.jit = 0])
    BY <1>2 DEF SoapyWith, SoapySetSt
  <2> QED BY <1>6, <1>8, <2>1
<1>10. b = SoapyWith(s, i, d, z)
  BY <1>7, <1>9, SoapyWithOver
<1>11. b.obj[i].st[d] = z
  BY <1>10, SoapyWithIs
<1>12. c = SoapyWith(b, i, d, [z EXCEPT !.setup = FALSE])
  <2>1. c = SoapyWith(b, i, d, [b.obj[i].st[d] EXCEPT !.setup = FALSE])
    BY <1>3 DEF SoapyWith, SoapySetSt
  <2> QED BY <1>11, <2>1
<1>13. c = SoapyWith(s, i, d, [z EXCEPT !.setup = FALSE])
  BY <1>10, <1>12, SoapyWithOver
<1> QED BY <1>4, <1>5, <1>6, <1>13 DEF SoapyShut

\* A stream is changed, its device stays as it is.
LEMMA SoapyStOnly ==
    ASSUME NEW s, SoapyInv(s), NEW i \in SoapyObjs, s.obj[i].h # 0, NEW d \in SoapyDirs, NEW y,
           SoapyStOk(s, i, d, y, s.dev[s.obj[i].h]),
           NEW t, t = SoapyWith(s, i, d, y)
    PROVE  SoapyInv(t) /\ t.obj[i].h = s.obj[i].h /\ t.obj[i].st[d] = y /\ t.dev = s.dev
<1>0. t = [s EXCEPT !.obj = [s.obj EXCEPT ![i] = SoapySetSt(s, i, d, y)]] /\ s \in SoapyState
  BY SoapyOf DEF SoapyWith
<1>1. t = SoapyPut(s, i, SoapySetSt(s, i, d, y), s.dev[s.obj[i].h])
  BY <1>0, SoapyPutSame
<1>2. t.dev = s.dev
  BY <1>0, SoapyWithIs
<1>3. PICK v : v = s.dev[s.obj[i].h]
  OBVIOUS
<1>4. SoapyStOk(s, i, d, y, v) /\ t = SoapyPut(s, i, SoapySetSt(s, i, d, y), v)
  BY <1>1, <1>3
<1>5. SoapyInv(t) /\ t.obj[i].h = s.obj[i].h /\ t.obj[i].st[d] = y
  BY <1>4, SoapyStSet
<1> QED BY <1>2, <1>5

LEMMA SoapyCloseOk ==
    ASSUME NEW s, SoapyInv(s), NEW i \in SoapyObjs, s.obj[i].h # 0, NEW d \in SoapyDirs
    PROVE  SoapyInv(SoapyUSDR_closeStream(s, i, d)) /\ SoapyUSDR_closeStream(s, i, d).obj[i].h = s.obj[i].h
<1> DEFINE h == s.obj[i].h
           st == s.obj[i].st[d]
           u == IF st.strm THEN [s.dev[h] EXCEPT !.open = s.dev[h].open \ {d}] ELSE s.dev[h]
           y == [st EXCEPT !.strm = FALSE, !.jit = 0, !.setup = FALSE]
           t == SoapyUSDR_closeStream(s, i, d)
<1>0. s \in SoapyState /\ s.obj[i] \in SoapyObj /\ s.dev[h] \in SoapyDev /\ SoapyAgree(s.obj[i], s.dev[h], s.big) /\ s.big \in BOOLEAN
      /\ s.dev \in Seq(SoapyDev) /\ h \in 1..Len(s.dev)
  BY SoapyOf
<1>1. st \in SoapyStream
  BY <1>0 DEF SoapyObj
<1>2. t = [s EXCEPT !.obj = [s.obj EXCEPT ![i] = SoapySetSt(s, i, d, y)], !.dev = [s.dev EXCEPT ![h] = u]]
  <2>1. PICK q : q = IF st.strm THEN [s EXCEPT !.dev = [s.dev EXCEPT ![h] = u]] ELSE s
    OBVIOUS
  <2>2. t = [q EXCEPT !.obj[i].st[d].strm = FALSE, !.obj[i].st[d].jit = 0, !.obj[i].st[d].setup = FALSE]
    BY <2>1 DEF SoapyUSDR_closeStream, usdr_dms_destroy, SoapySt, SoapyH
  <2>3. q = [s EXCEPT !.dev = [s.dev EXCEPT ![h] = u]]
    <3>1. CASE st.strm
      BY <2>1, <3>1
    <3>2. CASE ~st.strm
      <4>1. u = s.dev[h]
        BY <3>2
      <4> HIDE DEF u, h
      <4>2. [s.dev EXCEPT ![h] = u] = s.dev
        BY <1>0, <4>1
      <4> QED BY <1>0, <2>1, <3>2, <4>2 DEF SoapyState
    <3> QED BY <3>1, <3>2
  <2>4. q \in SoapyState /\ q.obj = s.obj
    <3>1. [s.dev EXCEPT ![h] = u] \in Seq(SoapyDev)
      <4>1. u \in SoapyDev
        BY <1>0 DEF SoapyDev
      <4> HIDE DEF u, h
      <4> QED BY <1>0, <4>1, SoapySet1
    <3> HIDE DEF u
    <3> QED BY <1>0, <2>3, <3>1 DEF SoapyState
  <2> HIDE DEF t
  <2>5. t = SoapyWith(q, i, d, SoapyShut(q.obj[i].st[d]))
    BY <2>2, <2>4, SoapyShuts, ZenonT(60)
  <2>6. SoapyShut(q.obj[i].st[d]) = y
    BY <2>4 DEF SoapyShut
  <2> HIDE DEF y, u
  <2>7. t = [q EXCEPT !.obj = [s.obj EXCEPT ![i] = SoapySetSt(s, i, d, y)]]
    BY <2>4, <2>5, <2>6 DEF SoapyWith, SoapySetSt
  <2> QED BY <1>0, <2>3, <2>7 DEF SoapyState
<1>3. /\ y \in SoapyStream /\ y.strm = FALSE /\ y.setup = FALSE /\ y.jit = 0
      /\ u \in SoapyDev /\ u.up = s.dev[h].up /\ u.acc = s.dev[h].acc /\ u.n = s.dev[h].n
      /\ u.open = IF st.strm THEN s.dev[h].open \ {d} ELSE s.dev[h].open
  <2> HIDE DEF st
  <2> QED BY <1>0, <1>1 DEF SoapyStream, SoapyDev
<1> HIDE DEF t, u, y
<1>4. SoapyStOk(s, i, d, y, u)
  BY <1>0, <1>3 DEF SoapyStOk
<1>5. t = SoapyPut(s, i, SoapySetSt(s, i, d, y), u)
  BY <1>2 DEF SoapyPut
<1>6. SoapyInv(t) /\ t.obj[i].h = h
  BY <1>4, <1>5, SoapyStSet
<1> QED BY <1>6 DEF t

LEMMA SoapyCallOk ==
    ASSUME NEW s, SoapyInv(s), NEW o \in usdr_dms_call(s)
    PROVE  SoapyInv(o.s) /\ o.s.obj = s.obj /\ o.s.dev = s.dev
<1>1. o \in Io(s, s)
  BY DEF usdr_dms_call
<1> QED BY <1>1, SoapyIo

\* The last step of a set-up.
LEMMA SoapyReadyOk ==
    ASSUME NEW s, SoapyInv(s), NEW i \in SoapyObjs, s.obj[i].h # 0, NEW d \in SoapyDirs,
           s.obj[i].st[d].strm, s.obj[i].st[d].jit = 0
    PROVE  SoapyInv([s EXCEPT !.obj[i].st[d].setup = TRUE, !.obj[i].st[d].next = s.dev[SoapyH(s, i)].n])
<1> DEFINE h == s.obj[i].h
           st == s.obj[i].st[d]
           v == s.dev[h]
           y == [st EXCEPT !.setup = TRUE, !.next = v.n]
           t == [s EXCEPT !.obj[i].st[d].setup = TRUE, !.obj[i].st[d].next = s.dev[SoapyH(s, i)].n]
<1>0. s \in SoapyState /\ s.obj[i] \in SoapyObj /\ v \in SoapyDev /\ SoapyAgree(s.obj[i], v, s.big) /\ s.big \in BOOLEAN
  BY SoapyOf
<1>1. st \in SoapyStream /\ v.n \in Nat /\ d \in v.open
  BY <1>0 DEF SoapyObj, SoapyDev, SoapyAgree
<1>2. t = SoapyWith(s, i, d, y)
  <2>1. PICK a : a = [s EXCEPT !.obj[i].st[d].setup = TRUE]
    OBVIOUS
  <2>2. PICK z : z = [st EXCEPT !.setup = TRUE]
    OBVIOUS
  <2>3. t = [a EXCEPT !.obj[i].st[d].next = v.n]
    BY <2>1 DEF SoapyH
  <2>4. a = SoapyWith(s, i, d, z)
    BY <2>1, <2>2 DEF SoapyWith, SoapySetSt
  <2>5. a.obj[i].st[d] = z
    BY <1>0, <2>4, SoapyWithIs
  <2> HIDE DEF t
  <2>6. t = SoapyWith(a, i, d, [z EXCEPT !.next = v.n])
    <3>1. t = SoapyWith(a, i, d, [a.obj[i].st[d] EXCEPT !.next = v.n])
      BY <2>3 DEF SoapyWith, SoapySetSt
    <3> QED BY <2>5, <3>1
  <2>7. [z EXCEPT !.next = v.n] = y
    BY <2>2
  <2> HIDE DEF y
  <2> QED BY <1>0, <2>4, <2>6, <2>7, SoapyWithOver
<1>3. y \in SoapyStream /\ y.strm = st.strm /\ y.setup = TRUE /\ y.jit = st.jit /\ y.next = v.n
  <2> HIDE DEF st, v
  <2> QED BY <1>0, <1>1 DEF SoapyStream
<1> HIDE DEF t, y, v
<1>4. SoapyStOk(s, i, d, y, v)
  BY <1>0, <1>1, <1>3 DEF SoapyStOk, SoapyNextAt, v
<1>5. SoapyInv(t)
  BY <1>2, <1>4, SoapyStOnly DEF v
<1> QED BY <1>5 DEF t

\* A stream with its device open, as the steps of a set-up leave it.
SoapyGot(s, i, d) == SoapyInv(s) /\ s.obj[i].h # 0 /\ s.obj[i].st[d].strm /\ s.obj[i].st[d].jit = 0

LEMMA SoapySetupOk ==
    ASSUME NEW s, SoapyInv(s), NEW i \in SoapyObjs, s.obj[i].h # 0, NEW d \in SoapyDirs,
           NEW z \in SoapyUSDR_setupStream(s, i, d)
    PROVE  SoapyInv(z.s)
<1> DEFINE st == s.obj[i].st[d]
           c == IF st.setup THEN SoapyUSDR_closeStream(s, i, d) ELSE s
           E5(x) == Ok([x EXCEPT !.obj[i].st[d].setup = TRUE, !.obj[i].st[d].next = x.dev[SoapyH(x, i)].n])
           E4(w) == UNION {IF o.ok THEN E5(o.s) ELSE {o} : o \in Ignore(usdr_dms_call(w))}
           E3(v) == UNION {IF o.ok THEN E4(o.s) ELSE {o} : o \in usdr_dms_call(v)}
           R(u) == IF u.obj[i].rate = 0 THEN SoapyUSDR_setSampleRate(u, i, 1) ELSE Ok(u)
           E2(u) == UNION {IF o.ok THEN E3(o.s) ELSE {o} : o \in R(u)}
           E1(t) == UNION {IF o.ok THEN E2(o.s) ELSE {o} : o \in usdr_dms_call(t)}
           E0 == UNION {IF o.ok THEN E1(o.s) ELSE {o} : o \in usdr_dms_create_ex(c, i, d)}
<1>1. CASE st.setup /\ st.active
  BY <1>1, SMTT(30) DEF SoapyUSDR_setupStream, SoapySt, Fail
<1>2. CASE ~(st.setup /\ st.active)
  <2>1. z \in E0
    BY <1>2, Zenon DEF SoapyUSDR_setupStream, SoapySt, Then
  <2> HIDE DEF E0
  <2>2. SoapyInv(c) /\ c.obj[i].h # 0
    BY SoapyCloseOk
  <2> HIDE DEF c
  <2>3. PICK o \in usdr_dms_create_ex(c, i, d) : z \in IF o.ok THEN E1(o.s) ELSE {o}
    <3> HIDE DEF E1
    <3> QED BY <2>1 DEF E0
  <2>4. SoapyInv(o.s) /\ (o.ok => SoapyGot(o.s, i, d))
    BY <2>2, SoapyCreateOk, SMTT(30) DEF SoapyGot
  <2> SUFFICES ASSUME o.ok PROVE SoapyInv(z.s)
    BY <2>3, <2>4
  <2>5. PICK p \in usdr_dms_call(o.s) : z \in IF p.ok THEN E2(p.s) ELSE {p}
    <3> HIDE DEF E2
    <3> QED BY <2>3
  <2> HIDE DEF E1
  <2>6. SoapyGot(p.s, i, d)
    BY <2>4, SoapyCallOk, SMTT(30) DEF SoapyGot
  <2> SUFFICES ASSUME p.ok PROVE SoapyInv(z.s)
    BY <2>5, <2>6 DEF SoapyGot
  <2>7. PICK q \in R(p.s) : z \in IF q.ok THEN E3(q.s) ELSE {q}
    <3> HIDE DEF E3, R
    <3> QED BY <2>5
  <2> HIDE DEF E2
  <2>8. SoapyGot(q.s, i, d)
    <3>1. CASE p.s.obj[i].rate = 0
      <4>1. q \in SoapyUSDR_setSampleRate(p.s, i, 1)
        BY <2>7, <3>1
      <4>2. SoapyInv(q.s) /\ q.s.obj[i].h = p.s.obj[i].h /\ q.s.obj[i].st = p.s.obj[i].st
        BY <2>6, <4>1, SoapyRateOk DEF SoapyGot
      <4> QED BY <2>6, <4>2, SMTT(30) DEF SoapyGot
    <3>2. CASE p.s.obj[i].rate # 0
      <4>0. q \in Ok(p.s)
        BY <2>7, <3>2
      <4> HIDE DEF R, E3
      <4>1. q.s = p.s
        BY <4>0, SMTT(30) DEF Ok
      <4> QED BY <2>6, <4>1, SMTT(30)
    <3> QED BY <3>1, <3>2
  <2> SUFFICES ASSUME q.ok PROVE SoapyInv(z.s)
    BY <2>7, <2>8 DEF SoapyGot
  <2>9. PICK x \in usdr_dms_call(q.s) : z \in IF x.ok THEN E4(x.s) ELSE {x}
    <3> HIDE DEF E4
    <3> QED BY <2>7
  <2> HIDE DEF E3
  <2>10. SoapyGot(x.s, i, d)
    BY <2>8, SoapyCallOk, SMTT(30) DEF SoapyGot
  <2> SUFFICES ASSUME x.ok PROVE SoapyInv(z.s)
    BY <2>9, <2>10 DEF SoapyGot
  <2>11. PICK g \in Ignore(usdr_dms_call(x.s)) : z \in IF g.ok THEN E5(g.s) ELSE {g}
    <3> HIDE DEF E5
    <3> QED BY <2>9
  <2> HIDE DEF E4
  <2>12. SoapyGot(g.s, i, d)
    <3>1. PICK k \in usdr_dms_call(x.s) : g = [k EXCEPT !.ok = TRUE]
      BY <2>11 DEF Ignore
    <3>2. g.s = k.s
      <4>1. k \in Io(x.s, x.s)
        BY <3>1 DEF usdr_dms_call
      <4>2. \E t, e : k = [s |-> t, ok |-> e]
        BY <4>1 DEF Io, Ok, Faulty, Fail
      <4> QED BY <3>1, <4>2
    <3> QED BY <2>10, <3>1, <3>2, SoapyCallOk DEF SoapyGot
  <2> SUFFICES ASSUME g.ok PROVE SoapyInv(z.s)
    BY <2>11, <2>12, SMTT(30) DEF SoapyGot
  <2>13. SoapyInv([g.s EXCEPT !.obj[i].st[d].setup = TRUE, !.obj[i].st[d].next = g.s.dev[SoapyH(g.s, i)].n])
    BY <2>12, SoapyReadyOk DEF SoapyGot
  <2>14. z.s = [g.s EXCEPT !.obj[i].st[d].setup = TRUE, !.obj[i].st[d].next = g.s.dev[SoapyH(g.s, i)].n]
    BY <2>11 DEF Ok
  <2> QED BY <2>13, <2>14
<1> QED BY <1>1, <1>2

\* Whether a stream is active is for its caller only.
LEMMA SoapyActiveOk ==
    ASSUME NEW s, SoapyInv(s), NEW i \in SoapyObjs, s.obj[i].h # 0, NEW d \in SoapyDirs, NEW e \in BOOLEAN
    PROVE  SoapyInv([s EXCEPT !.obj[i].st[d].active = e])
<1> DEFINE st == s.obj[i].st[d]
           v == s.dev[s.obj[i].h]
           y == [st EXCEPT !.active = e]
           t == [s EXCEPT !.obj[i].st[d].active = e]
<1>0. s \in SoapyState /\ s.obj[i] \in SoapyObj /\ v \in SoapyDev /\ SoapyAgree(s.obj[i], v, s.big) /\ s.big \in BOOLEAN
  BY SoapyOf
<1>1. st \in SoapyStream
  BY <1>0 DEF SoapyObj
<1>2. t = SoapyWith(s, i, d, y)
  BY DEF SoapyWith, SoapySetSt
<1>3. /\ y \in SoapyStream /\ y.strm = st.strm /\ y.setup = st.setup /\ y.jit = st.jit /\ y.next = st.next
      /\ y.w = st.w /\ y.r = st.r
  <2> HIDE DEF st
  <2> QED BY <1>1, SMTT(30) DEF SoapyStream
<1> HIDE DEF t, y, v
<1>4. SoapyStOk(s, i, d, y, v)
  BY <1>0, <1>3 DEF SoapyStOk, SoapyNextAt, SoapyAgree, v
<1>5. SoapyInv(t)
  BY <1>2, <1>4, SoapyStOnly DEF v
<1> QED BY <1>5 DEF t

LEMMA SoapyActivateOk ==
    ASSUME NEW s, SoapyInv(s), NEW i \in SoapyObjs, s.obj[i].h # 0, NEW d \in SoapyDirs,
           NEW z \in SoapyUSDR_activateStream(s, i, d) \cup SoapyUSDR_deactivateStream(s, i, d)
    PROVE  SoapyInv(z.s)
<1>1. CASE z \in SoapyUSDR_activateStream(s, i, d)
  <2>1. PICK o \in usdr_dms_call(s) : z \in IF o.ok THEN Ok([o.s EXCEPT !.obj[i].st[d].active = TRUE]) ELSE {o}
    BY <1>1, Zenon DEF SoapyUSDR_activateStream, Then
  <2>2. SoapyInv(o.s) /\ o.s.obj[i].h # 0
    BY SoapyCallOk
  <2>3. SoapyInv([o.s EXCEPT !.obj[i].st[d].active = TRUE])
    BY <2>2, SoapyActiveOk
  <2>4. CASE o.ok
    <3>1. z.s = [o.s EXCEPT !.obj[i].st[d].active = TRUE]
      BY <2>1, <2>4 DEF Ok
    <3> QED BY <2>3, <3>1
  <2>5. CASE ~o.ok
    BY <2>1, <2>2, <2>5
  <2> QED BY <2>4, <2>5
<1>2. CASE z \in SoapyUSDR_deactivateStream(s, i, d)
  <2>1. z.s = [s EXCEPT !.obj[i].st[d].active = FALSE]
    BY <1>2 DEF SoapyUSDR_deactivateStream, Ok
  <2>2. SoapyInv([s EXCEPT !.obj[i].st[d].active = FALSE])
    BY SoapyActiveOk
  <2> QED BY <2>1, <2>2
<1> QED BY <1>1, <1>2
-----------------------------------------------------------------------------
(* Receiving.                                                              *)

\* The size of a jitter buffer.
LEMMA SoapyBlkPos ==
    ASSUME NEW n \in Nat
    PROVE  SoapyBlk(n) \in Nat \ {0}
<1> DEFINE P == Nat \ {0}
           B(x) == IF x < 2 * n THEN 2 * x ELSE x
           a == SoapyPkt * SoapyJitter
           Eq(f) == f = [k \in 0..n |-> IF k = 0 THEN a ELSE B(f[k - 1])]
           G == [k \in 1..n |-> [x \in P |-> B(x)]]
           W == [k \in 0..n |-> P]
           sz == CHOOSE f : Eq(f)
<1>1. SoapyBlk(n) = sz[n]
  BY DEF SoapyBlk
<1>2. a \in P
  <2>1. SoapyPkt \in Nat \ {0} /\ SoapyJitter \in Nat \ {0}
    BY SoapyAssumption
  <2>2. ASSUME NEW p \in Nat \ {0}, NEW q \in Nat \ {0} PROVE p * q \in Nat \ {0}
    <3>1. p * q = (p - 1) * q + q /\ p - 1 \in Nat /\ (p - 1) * q \in Nat
      BY <2>2
    <3> QED BY <2>2, <3>1
  <2> QED BY <2>1, <2>2
<1>3. \A x \in P : B(x) \in P
  OBVIOUS
<1> HIDE DEF B, P, a
<1>4. \A k \in 1..n : \A x \in P : G[k][x] = B(x)
  OBVIOUS
<1>5. 0 \in 0..n /\ n \in 0..n /\ (\A k \in 0..n : W[k] = P) /\ \A k \in 1..n : k \in 0..n /\ k - 1 \in 0..n
  OBVIOUS
<1> HIDE DEF G, W
<1>6. a \in W[0] /\ \A k \in 1..n : \A x \in W[k - 1] : G[k][x] \in W[k]
  BY <1>2, <1>3, <1>4, <1>5
<1>7. PICK f : RecIs(f, n, a, W, G)
  BY <1>6, RecDefined
<1>8. f = [k \in 0..n |-> IF k = 0 THEN a ELSE G[k][f[k - 1]]] /\ \A k \in 0..n : f[k] \in P
  BY <1>5, <1>7 DEF RecIs
<1>9. Eq(f)
  <2>1. ASSUME NEW k \in 0..n
        PROVE  (IF k = 0 THEN a ELSE G[k][f[k - 1]]) = (IF k = 0 THEN a ELSE B(f[k - 1]))
    <3>1. CASE k # 0
      <4>1. k \in 1..n /\ k - 1 \in 0..n
        BY <3>1
      <4> QED BY <1>4, <1>8, <4>1
    <3> QED BY <3>1
  <2>2. [k \in 0..n |-> IF k = 0 THEN a ELSE G[k][f[k - 1]]] = [k \in 0..n |-> IF k = 0 THEN a ELSE B(f[k - 1])]
    BY <2>1
  <2> QED BY <1>8, <2>2
<1> HIDE DEF Eq
<1>10. Eq(sz)
  BY <1>9
<1> HIDE DEF sz
<1>11. sz[0] = a /\ \A k \in 1..n : sz[k] = B(sz[k - 1])
  <2>1. sz = [k \in 0..n |-> IF k = 0 THEN a ELSE B(sz[k - 1])]
    BY <1>10 DEF Eq
  <2>2. \A k \in 1..n : k \in 0..n /\ k # 0
    OBVIOUS
  <2> QED BY <1>5, <2>1, <2>2, Zenon
<1> DEFINE Q == {k \in 0..n : sz[k] \in P}
<1>12. 0 \in Q /\ \A k \in 1..n : k - 1 \in Q => k \in Q
  BY <1>2, <1>3, <1>5, <1>11
<1> HIDE DEF Q
<1>13. n \in Q
  BY <1>5, <1>12, UpTo
<1> QED BY <1>1, <1>13 DEF Q, P

\* The flag of reads that do not fit may be raised at any time.
LEMMA SoapyBig ==
    ASSUME NEW s, SoapyInv(s), NEW t, t = [s EXCEPT !.big = TRUE]
    PROVE  SoapyInv(t) /\ t.obj = s.obj /\ t.big
<1>1. s \in SoapyState
  BY DEF SoapyInv
<1>2. /\ t \in SoapyState /\ t.obj = s.obj /\ t.dev = s.dev /\ t.big = TRUE /\ t.bad = s.bad /\ t.reg = s.reg
      /\ t.again = s.again
  BY <1>1 DEF SoapyState
<1>3. SoapyTable(t) /\ SoapyApart(t)
  BY <1>2 DEF SoapyInv, SoapyTable, SoapyApart
<1>4. ASSUME NEW j \in SoapyObjs, t.obj[j].h # 0 PROVE SoapyAgree(t.obj[j], t.dev[t.obj[j].h], t.big)
  <2>1. SoapyAgree(s.obj[j], s.dev[s.obj[j].h], s.big)
    BY <1>2, <1>4 DEF SoapyInv
  <2> QED BY <1>2, <2>1 DEF SoapyAgree
<1>5. \A j \in SoapyObjs : t.obj[j].h = 0 => t.obj[j] = SoapyNoObj
  BY <1>2, SMTT(30) DEF SoapyInv
<1> QED BY <1>2, <1>3, <1>4, <1>5 DEF SoapyInv

\* A stream that is received on, and the buffer it is read through.
SoapyBuf(s, i, n) ==
    /\ SoapyInv(s) /\ s.obj[i].h # 0 /\ s.obj[i].st["rx"].setup /\ s.obj[i].st["rx"].jit # 0
    /\ ~s.big => n + SoapyPkt <= s.obj[i].st["rx"].jit + 1

SoapyBuffer(s, i, J, at) == [s EXCEPT !.obj[i].st.rx.jit = J, !.obj[i].st.rx.w = at, !.obj[i].st.rx.r = at]

\* A stream that is read through a buffer of the size J (0: without one).
SoapyReads(s, i, J) == SoapyInv(s) /\ s.obj[i].h # 0 /\ s.obj[i].st["rx"].setup /\ s.obj[i].st["rx"].jit = J

LEMMA SoapyBufMade ==
    ASSUME NEW s, NEW i \in SoapyObjs, SoapyReads(s, i, 0),
           NEW J \in Nat \ {0}, NEW t, t = SoapyBuffer(s, i, J, s.dev[s.obj[i].h].n)
    PROVE  SoapyReads(t, i, J)
<1> DEFINE st == s.obj[i].st["rx"]
           v == s.dev[s.obj[i].h]
           at == s.dev[s.obj[i].h].n
           y1 == [st EXCEPT !.jit = J]
           y2 == [y1 EXCEPT !.w = at]
           y3 == [y2 EXCEPT !.r = at]
<1>0. s \in SoapyState /\ s.obj[i] \in SoapyObj /\ v \in SoapyDev /\ SoapyAgree(s.obj[i], v, s.big) /\ s.big \in BOOLEAN
      /\ "rx" \in SoapyDirs /\ SoapyInv(s) /\ s.obj[i].h # 0 /\ st.setup /\ st.jit = 0
  BY SoapyOf, SMTT(30) DEF SoapyDirs, SoapyReads
<1>1. st \in SoapyStream /\ at \in Nat
  BY <1>0 DEF SoapyObj, SoapyDev
<1>at. at = s.dev[s.obj[i].h].n /\ t = SoapyBuffer(s, i, J, at)
  OBVIOUS
<1> HIDE DEF at
<1>2. PICK a : a = [s EXCEPT !.obj[i].st.rx.jit = J]
  OBVIOUS
<1>3. PICK b : b = [a EXCEPT !.obj[i].st.rx.w = at]
  OBVIOUS
<1>4. t = [b EXCEPT !.obj[i].st.rx.r = at]
  BY <1>2, <1>3, <1>at DEF SoapyBuffer
<1>5. a = SoapyWith(s, i, "rx", y1)
  BY <1>2 DEF SoapyWith, SoapySetSt
<1>6. y1 \in SoapyStream /\ y2 \in SoapyStream /\ y3 \in SoapyStream
      /\ y3.strm = st.strm /\ y3.setup = st.setup /\ y3.jit = J /\ y3.next = st.next /\ y3.w = at /\ y3.r = at
  <2> HIDE DEF st
  <2> QED BY <1>1 DEF SoapyStream
<1> HIDE DEF y1, y2, y3, v
<1>7. a.obj[i].st["rx"] = y1
  BY <1>0, <1>5, SoapyWithIs
<1>8. b = SoapyWith(a, i, "rx", y2)
  <2>1. b = SoapyWith(a, i, "rx", [a.obj[i].st["rx"] EXCEPT !.w = at])
    BY <1>3 DEF SoapyWith, SoapySetSt
  <2> QED BY <1>7, <2>1 DEF y2
<1>9. b = SoapyWith(s, i, "rx", y2)
  BY <1>0, <1>5, <1>8, SoapyWithOver
<1>10. b.obj[i].st["rx"] = y2
  BY <1>0, <1>9, SoapyWithIs
<1>11. t = SoapyWith(b, i, "rx", y3)
  <2>1. t = SoapyWith(b, i, "rx", [b.obj[i].st["rx"] EXCEPT !.r = at])
    BY <1>4 DEF SoapyWith, SoapySetSt
  <2> QED BY <1>10, <2>1 DEF y3
<1>12. t = SoapyWith(s, i, "rx", y3)
  BY <1>0, <1>9, <1>11, SoapyWithOver, SMTT(30)
<1>13. SoapyStOk(s, i, "rx", y3, v)
  <2>1. (~s.big => st.next = v.n) /\ st.strm /\ "rx" \in v.open
    BY <1>0 DEF SoapyNextAt, SoapyAgree
  <2>0. v.n = at
    BY <1>at DEF v
  <2>2. ~s.big => SoapyNextAt(y3, v.n)
    BY <1>1, <1>6, <2>0, <2>1 DEF SoapyNextAt
  <2>3. v = s.dev[s.obj[i].h]
    BY DEF v
  <2> QED BY <1>0, <1>6, <2>1, <2>2, <2>3 DEF SoapyStOk
<1>14. SoapyInv(t) /\ t.obj[i].h = s.obj[i].h /\ t.obj[i].st["rx"] = y3
  BY <1>0, <1>12, <1>13, SoapyStOnly DEF v
<1> QED BY <1>0, <1>6, <1>14 DEF SoapyReads

LEMMA SoapyDo ==
    ASSUME NEW s \in SoapyState, NEW i \in SoapyObjs, NEW d \in SoapyDirs, NEW y, NEW v,
           NEW q, q = [s EXCEPT !.dev = [s.dev EXCEPT ![s.obj[i].h] = v]], NEW t, t = SoapyWith(q, i, d, y)
    PROVE  t = SoapyPut(s, i, SoapySetSt(s, i, d, y), v)
<1> DEFINE D == [s.dev EXCEPT ![s.obj[i].h] = v]
           O == [s.obj EXCEPT ![i] = SoapySetSt(s, i, d, y)]
<1>1. q.obj = s.obj
  <2> HIDE DEF D
  <2> QED BY DEF SoapyState
<1>2. t = [q EXCEPT !.obj = O]
  BY <1>1 DEF SoapyWith, SoapySetSt
<1>3. t = [[s EXCEPT !.dev = D] EXCEPT !.obj = O]
  BY <1>2
<1>4. SoapyPut(s, i, SoapySetSt(s, i, d, y), v) = [s EXCEPT !.obj = O, !.dev = D]
  BY DEF SoapyPut
<1> HIDE DEF D, O
<1>5. [[s EXCEPT !.dev = D] EXCEPT !.obj = O] = [s EXCEPT !.obj = O, !.dev = D]
  BY DEF SoapyState
<1> QED BY <1>3, <1>4, <1>5

\* A packet behind those of the buffer.
SoapyPacket(s, i) == [s EXCEPT !.dev[SoapyH(s, i)].n = @ + SoapyPkt]
SoapyFed(s, i) == [SoapyPacket(s, i) EXCEPT !.obj[i].st.rx.w = @ + SoapyPkt]

\* q is s with the device of object i replaced by v, which is a packet on.
SoapyOn(s, i, q, v) ==
    /\ v.n = s.dev[s.obj[i].h].n + SoapyPkt /\ v.up = s.dev[s.obj[i].h].up
    /\ v.open = s.dev[s.obj[i].h].open /\ v.acc = s.dev[s.obj[i].h].acc
    /\ q = [s EXCEPT !.dev = [s.dev EXCEPT ![s.obj[i].h] = v]]
    /\ q \in SoapyState /\ q.obj = s.obj /\ q.bad = s.bad /\ q.big = s.big

LEMMA SoapyPacketIs ==
    ASSUME NEW s, SoapyInv(s), NEW i \in SoapyObjs, s.obj[i].h # 0
    PROVE  \E v \in SoapyDev : SoapyOn(s, i, SoapyPacket(s, i), v)
<1>0. s \in SoapyState /\ s.dev[s.obj[i].h] \in SoapyDev /\ s.dev \in Seq(SoapyDev) /\ s.obj[i].h \in 1..Len(s.dev)
  BY SoapyOf
<1> DEFINE w == s.dev[s.obj[i].h]
           v == [w EXCEPT !.n = w.n + SoapyPkt]
           D == [s.dev EXCEPT ![s.obj[i].h] = v]
           q == SoapyPacket(s, i)
<1>1. SoapyPkt \in Nat
  BY SoapyAssumption
<1>2. v \in SoapyDev /\ v.n = w.n + SoapyPkt /\ v.up = w.up /\ v.open = w.open /\ v.acc = w.acc
  <2>1. w \in SoapyDev
    BY <1>0
  <2> HIDE DEF w
  <2> QED BY <1>1, <2>1 DEF SoapyDev
<1>3. q = [s EXCEPT !.dev = D]
  BY DEF SoapyPacket, SoapyH
<1> HIDE DEF v, q
<1>4. D \in Seq(SoapyDev)
  BY <1>0, <1>2, SoapySet1
<1>5. q \in SoapyState /\ q.obj = s.obj /\ q.bad = s.bad /\ q.big = s.big
  <2> HIDE DEF D
  <2> QED BY <1>0, <1>3, <1>4 DEF SoapyState
<1>6. SoapyOn(s, i, q, v)
  BY <1>2, <1>3, <1>5 DEF SoapyOn
<1> QED BY <1>2, <1>6 DEF q

LEMMA SoapyFedOk ==
    ASSUME NEW s, NEW i \in SoapyObjs, NEW n \in Nat, SoapyBuf(s, i, n),
           s.obj[i].st["rx"].w - s.obj[i].st["rx"].r < n, NEW t, t = SoapyFed(s, i)
    PROVE  SoapyBuf(t, i, n)
<1> DEFINE st == s.obj[i].st["rx"]
           h == s.obj[i].h
           y == [st EXCEPT !.w = st.w + SoapyPkt]
<1>0. /\ SoapyInv(s) /\ h # 0 /\ st.setup /\ st.jit # 0 /\ (~s.big => n + SoapyPkt <= st.jit + 1)
      /\ s \in SoapyState /\ s.obj[i] \in SoapyObj /\ s.dev[h] \in SoapyDev /\ SoapyAgree(s.obj[i], s.dev[h], s.big)
      /\ s.big \in BOOLEAN /\ s.bad \in BOOLEAN /\ (~s.big => ~s.bad) /\ "rx" \in SoapyDirs /\ SoapyPkt \in Nat
  BY SoapyOf, SoapyAssumption DEF SoapyBuf, SoapyDirs
<1>1. st \in SoapyStream /\ s.dev[h].n \in Nat /\ st.w \in Nat /\ st.r \in Nat /\ st.jit \in Nat
  BY <1>0 DEF SoapyObj, SoapyDev, SoapyStream
<1>2. PICK q : q = SoapyPacket(s, i)
  OBVIOUS
<1>3. PICK v \in SoapyDev :
        /\ v.n = s.dev[h].n + SoapyPkt /\ v.up = s.dev[h].up /\ v.open = s.dev[h].open /\ v.acc = s.dev[h].acc
        /\ q = [s EXCEPT !.dev = [s.dev EXCEPT ![h] = v]]
        /\ q \in SoapyState /\ q.obj = s.obj /\ q.bad = s.bad /\ q.big = s.big
  <2>1. PICK v \in SoapyDev : SoapyOn(s, i, q, v)
    BY <1>0, <1>2, SoapyPacketIs
  <2> QED BY <2>1, Zenon DEF SoapyOn
<1>4. /\ y \in SoapyStream /\ y.strm = st.strm /\ y.setup = st.setup /\ y.jit = st.jit /\ y.next = st.next
      /\ y.w = st.w + SoapyPkt /\ y.r = st.r
  <2>1. st \in SoapyStream /\ st.w + SoapyPkt \in Nat
    BY <1>0, <1>1, SMTT(30)
  <2> HIDE DEF st
  <2> QED BY <2>1 DEF SoapyStream
<1>5. t = SoapyWith(q, i, "rx", y)
  BY <1>2, <1>3 DEF SoapyFed, SoapyWith, SoapySetSt
<1> HIDE DEF y
<1>7. t = SoapyPut(s, i, SoapySetSt(s, i, "rx", y), v)
  <2>1. s \in SoapyState /\ "rx" \in SoapyDirs
    BY <1>0, SMTT(30)
  <2> QED BY <1>3, <1>5, <2>1, SoapyDo
<1>8. SoapyStOk(s, i, "rx", y, v)
  <2>1. st.strm /\ "rx" \in s.dev[h].open /\ (~s.big => SoapyNextAt(st, s.dev[h].n))
    BY <1>0, SMTT(30) DEF SoapyAgree
  <2>2. ~s.big => SoapyNextAt(y, v.n)
    BY <1>0, <1>1, <1>3, <1>4, <2>1, SMTT(30) DEF SoapyNextAt
  <2> QED BY <1>0, <1>3, <1>4, <2>1, <2>2 DEF SoapyStOk
<1>9. SoapyInv(t) /\ t.obj[i].h = h /\ t.obj[i].st["rx"] = y
  BY <1>0, <1>7, <1>8, SoapyStSet
<1>10. t.big = s.big
  BY <1>0, <1>7 DEF SoapyPut, SoapyState
<1> QED BY <1>0, <1>4, <1>9, <1>10 DEF SoapyBuf

\* The flag of reads out of order, as long as they fit.
LEMMA SoapyBad ==
    ASSUME NEW s, SoapyInv(s), NEW x \in BOOLEAN, s.big \/ x = FALSE, NEW t, t = [s EXCEPT !.bad = x]
    PROVE  SoapyInv(t)
<1>1. s \in SoapyState
  BY DEF SoapyInv
<1>2. /\ t \in SoapyState /\ t.obj = s.obj /\ t.dev = s.dev /\ t.big = s.big /\ t.reg = s.reg
      /\ t.again = s.again /\ (~t.big => ~t.bad)
  BY <1>1 DEF SoapyState
<1>3. SoapyTable(t) /\ SoapyApart(t)
  BY <1>2, SMTT(30) DEF SoapyInv, SoapyTable, SoapyApart
<1> QED BY <1>2, <1>3 DEF SoapyInv

\* What a read hands over: t is w with the flag up if the sample at is not the next one.
SoapyGives(t, w, s, i, at) ==
    \E x \in BOOLEAN : /\ t = [w EXCEPT !.bad = x]
                       /\ ~s.bad /\ at = s.obj[i].st["rx"].next => x = FALSE

LEMMA SoapyGiveIs ==
    ASSUME NEW s \in SoapyState, NEW i \in SoapyObjs, NEW at, NEW n,
           NEW y, y = [s.obj[i].st["rx"] EXCEPT !.next = at + n], NEW t, t = SoapyGive(s, i, at, n)
    PROVE  SoapyGives(t, SoapyWith(s, i, "rx", y), s, i, at)
<1> DEFINE x == s.bad \/ at # s.obj[i].st["rx"].next
           O == [s.obj EXCEPT ![i] = SoapySetSt(s, i, "rx", y)]
<1>1. x \in BOOLEAN /\ (~s.bad /\ at = s.obj[i].st["rx"].next => x = FALSE)
  BY DEF SoapyState
<1>2. t = [s EXCEPT !.bad = x, !.obj = O]
  BY DEF SoapyGive, SoapySt, SoapySetSt
<1>3. SoapyWith(s, i, "rx", y) = [s EXCEPT !.obj = O]
  BY DEF SoapyWith
<1>4. PICK z \in BOOLEAN : z = x
  BY <1>1
<1> HIDE DEF O
<1>5. [s EXCEPT !.bad = z, !.obj = O] = [[s EXCEPT !.obj = O] EXCEPT !.bad = z]
  BY DEF SoapyState
<1> HIDE DEF x
<1>6. t = [SoapyWith(s, i, "rx", y) EXCEPT !.bad = z] /\ (~s.bad /\ at = s.obj[i].st["rx"].next => z = FALSE)
  BY <1>1, <1>2, <1>3, <1>4, <1>5
<1> QED BY <1>6 DEF SoapyGives

\* A read that finds its samples in the buffer.
SoapyTaken(s, i, n) ==
    LET st == SoapySt(s, i, "rx")
    IN  [SoapyGive(s, i, IF st.w - st.r > st.jit THEN st.w - st.jit ELSE st.r, n) EXCEPT !.obj[i].st.rx.r = st.r + n]

LEMMA SoapyTakenOk ==
    ASSUME NEW s, NEW i \in SoapyObjs, NEW n \in Nat, SoapyBuf(s, i, n), NEW t, t = SoapyTaken(s, i, n)
    PROVE  SoapyInv(t)
<1> DEFINE st == s.obj[i].st["rx"]
           h == s.obj[i].h
           at == IF st.w - st.r > st.jit THEN st.w - st.jit ELSE st.r
           y == [st EXCEPT !.next = at + n]
           z == [y EXCEPT !.r = st.r + n]
           v == s.dev[h]
<1>0. /\ SoapyInv(s) /\ h # 0 /\ st.setup /\ st.jit # 0
      /\ s \in SoapyState /\ s.obj[i] \in SoapyObj /\ v \in SoapyDev /\ SoapyAgree(s.obj[i], v, s.big)
      /\ s.big \in BOOLEAN /\ s.bad \in BOOLEAN /\ (~s.big => ~s.bad) /\ "rx" \in SoapyDirs
  BY SoapyOf DEF SoapyBuf, SoapyDirs
<1>1. st \in SoapyStream /\ st.w \in Nat /\ st.r \in Nat /\ st.jit \in Nat
  BY <1>0 DEF SoapyObj, SoapyStream
<1>2. at \in Nat /\ (st.w - st.r <= st.jit => at = st.r)
  BY <1>1
<1>3. st.strm /\ "rx" \in v.open /\ (~s.big => st.next = st.r /\ st.w = v.n /\ st.w - st.r <= st.jit)
  BY <1>0 DEF SoapyAgree, SoapyNextAt
<1>4. PICK g : g = SoapyGive(s, i, at, n)
  BY SMTT(30)
<1>5. t = [g EXCEPT !.obj[i].st.rx.r = st.r + n]
  BY <1>4 DEF SoapyTaken, SoapySt
<1> HIDE DEF at
<1>6. /\ z \in SoapyStream /\ z.strm = st.strm /\ z.setup = st.setup /\ z.jit = st.jit /\ z.next = at + n
      /\ z.w = st.w /\ z.r = st.r + n
  <2>1. st.r + n \in Nat /\ at + n \in Nat
    BY <1>1, <1>2
  <2> HIDE DEF st
  <2> QED BY <1>1, <2>1 DEF SoapyStream
<1> DEFINE W == SoapyWith(s, i, "rx", y)
<1>7. PICK x \in BOOLEAN : g = [W EXCEPT !.bad = x] /\ (~s.bad /\ at = st.next => x = FALSE)
  <2>1. y = [s.obj[i].st["rx"] EXCEPT !.next = at + n]
    OBVIOUS
  <2> HIDE DEF y
  <2>2. SoapyGives(g, SoapyWith(s, i, "rx", y), s, i, at)
    BY <1>0, <1>4, <2>1, SoapyGiveIs
  <2> QED BY <2>2 DEF SoapyGives
<1>8. z = [y EXCEPT !.r = st.r + n]
  OBVIOUS
<1> HIDE DEF y, z, v, st
<1>9. PICK u : u = SoapyWith(s, i, "rx", z)
  OBVIOUS
<1>10. W.obj[i].st["rx"] = y /\ u = SoapyWith(W, i, "rx", z)
  BY <1>0, <1>9, SoapyWithIs, SoapyWithOver
<1> HIDE DEF W
<1>11. t = [u EXCEPT !.bad = x]
  <2>1. W = [s EXCEPT !.obj = [s.obj EXCEPT ![i] = SoapySetSt(s, i, "rx", y)]]
    BY DEF W, SoapyWith
  <2>2. g.obj = W.obj
    BY <1>0, <1>7, <2>1 DEF SoapyState
  <2>3. t = [g EXCEPT !.obj = [g.obj EXCEPT ![i] = SoapySetSt(g, i, "rx", [g.obj[i].st["rx"] EXCEPT !.r = st.r + n])]]
    BY <1>5 DEF SoapySetSt
  <2>4. [g.obj EXCEPT ![i] = SoapySetSt(g, i, "rx", [g.obj[i].st["rx"] EXCEPT !.r = st.r + n])] =
          [W.obj EXCEPT ![i] = SoapySetSt(W, i, "rx", z)]
    BY <1>8, <1>10, <2>2 DEF SoapySetSt
  <2> DEFINE P == [W.obj EXCEPT ![i] = SoapySetSt(W, i, "rx", z)]
             Q == [s.obj EXCEPT ![i] = SoapySetSt(s, i, "rx", y)]
  <2>5. u = [W EXCEPT !.obj = P]
    BY <1>10 DEF SoapyWith
  <2>6. t = [[[s EXCEPT !.obj = Q] EXCEPT !.bad = x] EXCEPT !.obj = P]
    BY <1>7, <2>1, <2>3, <2>4
  <2>7. [u EXCEPT !.bad = x] = [[[s EXCEPT !.obj = Q] EXCEPT !.obj = P] EXCEPT !.bad = x]
    BY <2>1, <2>5
  <2> HIDE DEF P, Q
  <2>8. [[[s EXCEPT !.obj = Q] EXCEPT !.bad = x] EXCEPT !.obj = P] = [[[s EXCEPT !.obj = Q] EXCEPT !.obj = P] EXCEPT !.bad = x]
    BY <1>0 DEF SoapyState
  <2> QED BY <2>6, <2>7, <2>8
<1>12. SoapyStOk(s, i, "rx", z, v)
  <2>1. ~s.big => SoapyNextAt(z, v.n)
    BY <1>0, <1>1, <1>2, <1>3, <1>6 DEF SoapyNextAt
  <2> QED BY <1>0, <1>3, <1>6, <2>1 DEF SoapyStOk, v, st
<1>13. SoapyInv(u)
  BY <1>0, <1>9, <1>12, SoapyStOnly DEF v
<1>14. u.big = s.big
  BY <1>0, <1>9 DEF SoapyWith, SoapyState
<1>15. u.big \/ x = FALSE
  BY <1>0, <1>1, <1>2, <1>3, <1>7, <1>14
<1> QED BY <1>11, <1>13, <1>15, SoapyBad

\* A read of one packet without a buffer.
LEMMA SoapyDirectOk ==
    ASSUME NEW s, SoapyInv(s), NEW i \in SoapyObjs, s.obj[i].h # 0, s.obj[i].st["rx"].setup, s.obj[i].st["rx"].jit = 0,
           NEW t, t = SoapyGive(SoapyPacket(s, i), i, s.dev[s.obj[i].h].n, SoapyPkt)
    PROVE  SoapyInv(t)
<1> DEFINE st == s.obj[i].st["rx"]
           h == s.obj[i].h
           at == s.dev[h].n
           y == [st EXCEPT !.next = at + SoapyPkt]
<1>0. /\ s \in SoapyState /\ s.obj[i] \in SoapyObj /\ s.dev[h] \in SoapyDev /\ SoapyAgree(s.obj[i], s.dev[h], s.big)
      /\ s.big \in BOOLEAN /\ s.bad \in BOOLEAN /\ (~s.big => ~s.bad) /\ "rx" \in SoapyDirs /\ SoapyPkt \in Nat
  BY SoapyOf, SoapyAssumption DEF SoapyDirs
<1>1. st \in SoapyStream /\ at \in Nat
  BY <1>0, SMTT(30) DEF SoapyObj, SoapyDev
<1>2. st.strm /\ "rx" \in s.dev[h].open /\ (~s.big => st.next = at)
  BY <1>0 DEF SoapyAgree, SoapyNextAt
<1>3. PICK q : q = SoapyPacket(s, i)
  OBVIOUS
<1>4. PICK v \in SoapyDev :
        /\ v.n = at + SoapyPkt /\ v.up = s.dev[h].up /\ v.open = s.dev[h].open /\ v.acc = s.dev[h].acc
        /\ q = [s EXCEPT !.dev = [s.dev EXCEPT ![h] = v]]
        /\ q \in SoapyState /\ q.obj = s.obj /\ q.bad = s.bad /\ q.big = s.big
  <2>1. PICK v \in SoapyDev : SoapyOn(s, i, q, v)
    BY <1>3, SoapyPacketIs
  <2> QED BY <2>1, Zenon DEF SoapyOn
<1> HIDE DEF at
<1>5. /\ y \in SoapyStream /\ y.strm = st.strm /\ y.setup = st.setup /\ y.jit = st.jit /\ y.next = at + SoapyPkt
  <2>1. at + SoapyPkt \in Nat
    BY <1>0, <1>1, SMTT(30)
  <2> HIDE DEF st
  <2> QED BY <1>1, <2>1 DEF SoapyStream
<1>6. PICK x \in BOOLEAN : t = [SoapyWith(q, i, "rx", y) EXCEPT !.bad = x] /\ (~q.bad /\ at = st.next => x = FALSE)
  <2>1. y = [q.obj[i].st["rx"] EXCEPT !.next = at + SoapyPkt] /\ t = SoapyGive(q, i, at, SoapyPkt) /\ q \in SoapyState
    BY <1>3, <1>4 DEF at
  <2> HIDE DEF y
  <2>2. SoapyGives(t, SoapyWith(q, i, "rx", y), q, i, at)
    BY <2>1, SoapyGiveIs
  <2> QED BY <1>4, <2>2 DEF SoapyGives
<1> HIDE DEF y, st
<1>7. PICK u : u = SoapyWith(q, i, "rx", y)
  OBVIOUS
<1>8. u = SoapyPut(s, i, SoapySetSt(s, i, "rx", y), v)
  <2>1. s \in SoapyState /\ "rx" \in SoapyDirs
    BY <1>0, SMTT(30)
  <2> QED BY <1>4, <1>7, <2>1, SoapyDo, SMTT(30)
<1>9. SoapyStOk(s, i, "rx", y, v)
  <2>1. ~s.big => SoapyNextAt(y, v.n)
    BY <1>0, <1>1, <1>2, <1>4, <1>5 DEF SoapyNextAt, st
  <2> QED BY <1>0, <1>2, <1>4, <1>5, <2>1, SMTT(30) DEF SoapyStOk, st
<1>10. SoapyInv(u)
  BY <1>0, <1>8, <1>9, SoapyStSet, SMTT(30)
<1>11. u.big = s.big
  BY <1>0, <1>8 DEF SoapyPut, SoapyState
<1>12. u.big \/ x = FALSE
  BY <1>0, <1>2, <1>4, <1>6, <1>11
<1>13. t = [u EXCEPT !.bad = x]
  BY <1>6, <1>7
<1> QED BY <1>10, <1>12, <1>13, SoapyBad

\* One round of the loop that fills the buffer.
SoapyRound(t, i, n) ==
    IF ~(SoapySt(t, i, "rx").w - SoapySt(t, i, "rx").r < n) THEN Ok(t)
    ELSE UNION {IF o.ok THEN Ok([o.s EXCEPT !.obj[i].st.rx.w = @ + SoapyPkt]) ELSE {o} : o \in usdr_dms_recv(t, i)}

SoapyOuts(i, n) == {o \in [s : SoapyState, ok : BOOLEAN] : SoapyBuf(o.s, i, n)}

LEMMA SoapyRoundOk ==
    ASSUME NEW s, NEW i \in SoapyObjs, NEW n \in Nat, SoapyBuf(s, i, n), NEW z \in SoapyRound(s, i, n)
    PROVE  z \in SoapyOuts(i, n)
<1>0. SoapyInv(s) /\ s \in SoapyState
  BY DEF SoapyBuf, SoapyInv
<1>1. CASE ~(s.obj[i].st["rx"].w - s.obj[i].st["rx"].r < n)
  <2>1. z = [s |-> s, ok |-> TRUE]
    BY <1>1 DEF SoapyRound, SoapySt, Ok
  <2> QED BY <1>0, <2>1 DEF SoapyOuts
<1>2. CASE s.obj[i].st["rx"].w - s.obj[i].st["rx"].r < n
  <2>1. PICK o \in usdr_dms_recv(s, i) : z \in IF o.ok THEN Ok([o.s EXCEPT !.obj[i].st.rx.w = @ + SoapyPkt]) ELSE {o}
    BY <1>2 DEF SoapyRound, SoapySt
  <2>2. CASE o \in Ok(SoapyPacket(s, i))
    <3>1. o.ok /\ o.s = SoapyPacket(s, i)
      BY <2>2 DEF Ok
    <3>2. z = [s |-> SoapyFed(s, i), ok |-> TRUE]
      BY <2>1, <3>1 DEF Ok, SoapyFed
    <3>3. PICK t : t = SoapyFed(s, i)
      OBVIOUS
    <3>4. SoapyBuf(t, i, n)
      BY <1>2, <3>3, SoapyFedOk
    <3>5. t \in SoapyState
      BY <3>4 DEF SoapyBuf, SoapyInv
    <3>6. z = [s |-> t, ok |-> TRUE]
      BY <3>2, <3>3
    <3> QED BY <3>4, <3>5, <3>6 DEF SoapyOuts
  <2>3. CASE o \in Faulty(s)
    <3>1. s.faults \in Nat /\ s.faults # 0 /\ o = [s |-> [s EXCEPT !.faults = s.faults - 1], ok |-> FALSE]
      BY <1>0, <2>3 DEF Faulty, Fail, SoapyState
    <3>2. z = o
      BY <2>1, <3>1
    <3>3. PICK t : t = [s EXCEPT !.faults = s.faults - 1]
      OBVIOUS
    <3>4. SoapyInv(t) /\ t.obj = s.obj /\ t.big = s.big
      <4>1. s.faults - 1 \in Nat
        BY <3>1
      <4> QED BY <1>0, <3>3, <4>1, SoapyBounds
    <3>5. SoapyBuf(t, i, n) /\ t \in SoapyState
      BY <3>4 DEF SoapyBuf, SoapyInv
    <3>6. z = [s |-> t, ok |-> FALSE]
      BY <3>1, <3>2, <3>3
    <3> QED BY <3>5, <3>6 DEF SoapyOuts
  <2>4. o \in Io(s, SoapyPacket(s, i))
    BY DEF usdr_dms_recv, SoapyPacket
  <2> QED BY <2>2, <2>3, <2>4 DEF Io
<1> QED BY <1>1, <1>2

LEMMA SoapyBufferedOk ==
    ASSUME NEW s, NEW i \in SoapyObjs, NEW n \in Nat, SoapyBuf(s, i, n), NEW z \in SoapyBuffered(s, i, n)
    PROVE  SoapyInv(z.s)
<1> DEFINE R(X) == UNION {IF o.ok THEN SoapyRound(o.s, i, n) ELSE {o} : o \in X}
           Eq(f) == f = [k \in 0..n |-> IF k = 0 THEN Ok(s) ELSE R(f[k - 1])]
           U == SoapyOuts(i, n)
           V == [k \in 0..n |-> U]
           G == [k \in 1..n |-> [X \in SUBSET U |-> R(X)]]
           at == CHOOSE f : Eq(f)
<1>1. SoapyBuffered(s, i, n) = UNION {IF o.ok THEN Ok(SoapyTaken(o.s, i, n)) ELSE {o} : o \in at[n]}
  BY Zenon DEF SoapyBuffered, SoapyTaken, SoapyRound, Then
<1>2. SoapyInv(s) /\ s \in SoapyState
  BY DEF SoapyBuf, SoapyInv
<1>3. Ok(s) \subseteq U
  BY <1>2 DEF Ok, SoapyOuts
<1>4. ASSUME NEW X \in SUBSET U PROVE R(X) \in SUBSET U
  <2> SUFFICES ASSUME NEW x \in R(X) PROVE x \in U
    OBVIOUS
  <2>1. PICK o \in X : x \in IF o.ok THEN SoapyRound(o.s, i, n) ELSE {o}
    OBVIOUS
  <2>2. SoapyBuf(o.s, i, n)
    BY DEF SoapyOuts
  <2> HIDE DEF U
  <2> QED BY <2>1, <2>2, SoapyRoundOk DEF U
<1> HIDE DEF R, U
<1>5. /\ \A k \in 0..n : V[k] = U
      /\ \A k \in 1..n : \A X \in SUBSET U : G[k][X] = R(X)
      /\ 0 \in 0..n /\ n \in 0..n /\ \A k \in 1..n : k \in 0..n /\ k - 1 \in 0..n
  OBVIOUS
<1> HIDE DEF G, V
<1>6. PICK f : LoopIs(f, n, Ok(s), V, G)
  <2>1. Ok(s) \subseteq V[0]
    BY <1>3, <1>5
  <2>2. ASSUME NEW k \in 1..n, NEW X \in SUBSET V[k - 1] PROVE G[k][X] \in SUBSET V[k]
    <3>1. V[k] = U /\ V[k - 1] = U
      BY <1>5
    <3>2. X \in SUBSET U
      BY <3>1
    <3> QED BY <1>4, <1>5, <3>1, <3>2
  <2> QED BY <2>1, <2>2, LoopDefined, Zenon
<1>7. f = [k \in 0..n |-> IF k = 0 THEN Ok(s) ELSE G[k][f[k - 1]]] /\ \A k \in 0..n : f[k] \in SUBSET U
  BY <1>5, <1>6 DEF LoopIs
<1>8. Eq(f)
  <2>1. ASSUME NEW k \in 0..n
        PROVE  (IF k = 0 THEN Ok(s) ELSE G[k][f[k - 1]]) = (IF k = 0 THEN Ok(s) ELSE R(f[k - 1]))
    <3>1. CASE k # 0
      <4>1. k \in 1..n /\ k - 1 \in 0..n
        BY <3>1
      <4> QED BY <1>5, <1>7, <4>1
    <3> QED BY <3>1
  <2>2. [k \in 0..n |-> IF k = 0 THEN Ok(s) ELSE G[k][f[k - 1]]] = [k \in 0..n |-> IF k = 0 THEN Ok(s) ELSE R(f[k - 1])]
    BY <2>1
  <2> QED BY <1>7, <2>2
<1> HIDE DEF Eq
<1>9. Eq(at)
  BY <1>8
<1> HIDE DEF at
<1>10. at[0] = Ok(s) /\ \A k \in 1..n : at[k] = R(at[k - 1])
  <2>1. at = [k \in 0..n |-> IF k = 0 THEN Ok(s) ELSE R(at[k - 1])]
    BY <1>9 DEF Eq
  <2>2. \A k \in 1..n : k \in 0..n /\ k # 0
    OBVIOUS
  <2> QED BY <1>5, <2>1, <2>2, Zenon
<1> DEFINE Q == {k \in 0..n : at[k] \in SUBSET U}
<1>11. 0 \in Q /\ \A k \in 1..n : k - 1 \in Q => k \in Q
  BY <1>3, <1>4, <1>5, <1>10
<1> HIDE DEF Q
<1>12. n \in Q
  BY <1>5, <1>11, UpTo
<1>13. PICK o \in at[n] : z \in IF o.ok THEN Ok(SoapyTaken(o.s, i, n)) ELSE {o}
  BY <1>1
<1>14. o \in U
  BY <1>12, <1>13 DEF Q
<1>15. SoapyBuf(o.s, i, n)
  BY <1>14 DEF U, SoapyOuts
<1>16. CASE o.ok
  <2>1. PICK t : t = SoapyTaken(o.s, i, n)
    OBVIOUS
  <2>2. SoapyInv(t)
    BY <1>15, <2>1, SoapyTakenOk
  <2>3. z.s = t
    BY <1>13, <1>16, <2>1 DEF Ok
  <2> QED BY <2>2, <2>3
<1>17. CASE ~o.ok
  <2>1. z = o
    BY <1>13, <1>17
  <2> QED BY <1>15, <2>1 DEF SoapyBuf
<1> QED BY <1>16, <1>17

LEMMA SoapyReadOk ==
    ASSUME NEW s, SoapyInv(s), NEW i \in SoapyObjs, s.obj[i].h # 0, s.obj[i].st["rx"].setup, NEW n \in Nat,
           NEW z \in SoapyUSDR_readStream(s, i, n)
    PROVE  SoapyInv(z.s)
<1> DEFINE st == s.obj[i].st["rx"]
           at == s.dev[s.obj[i].h].n
           J == SoapyBlk(n)
           t == IF st.jit # 0 THEN s ELSE SoapyBuffer(s, i, J, at)
           u == [t EXCEPT !.big = t.big \/ n + SoapyPkt > t.obj[i].st["rx"].jit + 1]
<1>0. s \in SoapyState /\ s.obj[i] \in SoapyObj /\ "rx" \in SoapyDirs /\ SoapyPkt \in Nat
  BY SoapyOf, SoapyAssumption DEF SoapyDirs
<1>1. st.jit \in Nat
  BY <1>0 DEF SoapyObj, SoapyStream
<1>2. CASE st.jit = 0 /\ n = SoapyPkt
  <2>1. PICK o \in usdr_dms_recv(s, i) : z \in IF o.ok THEN Ok(SoapyGive(o.s, i, at, n)) ELSE {o}
    BY <1>2, Zenon DEF SoapyUSDR_readStream, SoapySt, SoapyH, Then
  <2>2. CASE o \in Ok(SoapyPacket(s, i))
    <3>1. o.ok /\ o.s = SoapyPacket(s, i)
      BY <2>2 DEF Ok
    <3>2. PICK g : g = SoapyGive(SoapyPacket(s, i), i, s.dev[s.obj[i].h].n, SoapyPkt)
      OBVIOUS
    <3>3. z.s = g
      BY <1>2, <2>1, <3>1, <3>2 DEF Ok
    <3>4. SoapyInv(g)
      BY <1>2, <3>2, SoapyDirectOk
    <3> QED BY <3>3, <3>4
  <2>3. CASE o \in Faulty(s)
    <3>1. SoapyInv(o.s) /\ o.ok = FALSE
      BY <2>3, SoapyFault
    <3> QED BY <2>1, <3>1
  <2>4. o \in Io(s, SoapyPacket(s, i))
    BY DEF usdr_dms_recv, SoapyPacket
  <2> QED BY <2>2, <2>3, <2>4 DEF Io
<1>3. CASE ~(st.jit = 0 /\ n = SoapyPkt)
  <2>1. z \in SoapyBuffered(u, i, n)
    BY <1>3, Zenon DEF SoapyUSDR_readStream, SoapySt, SoapyH, SoapyBuffer
  <2>2. J \in Nat \ {0}
    BY SoapyBlkPos
  <2> HIDE DEF J, at
  <2>3. SoapyInv(t) /\ t.obj[i].h # 0 /\ t.obj[i].st["rx"].setup /\ t.obj[i].st["rx"].jit # 0
    <3>1. CASE st.jit # 0
      BY <3>1
    <3>2. CASE st.jit = 0
      <4>1. PICK q : q = SoapyBuffer(s, i, J, at)
        OBVIOUS
      <4>2. PICK j \in Nat \ {0} : j = J
        BY <2>2
      <4>3. q = SoapyBuffer(s, i, j, s.dev[s.obj[i].h].n)
        BY <4>1, <4>2 DEF at
      <4>x. SoapyReads(s, i, 0)
        BY <3>2 DEF SoapyReads
      <4>4. SoapyReads(q, i, j)
        BY <4>3, <4>x, SoapyBufMade
      <4>5. t = q /\ j # 0
        BY <3>2, <4>1, <4>2
      <4> QED BY <4>4, <4>5 DEF SoapyReads
    <3> QED BY <3>1, <3>2
  <2> HIDE DEF t
  <2>4. PICK v : v = u
    OBVIOUS
  <2>5. t.obj[i].st["rx"].jit \in Nat /\ t \in SoapyState
    <3>1. t.obj[i] \in SoapyObj /\ t \in SoapyState
      BY <2>3, SoapyOf
    <3> QED BY <1>0, <3>1 DEF SoapyObj, SoapyStream
  <2>8. SoapyBuf(v, i, n)
    <3>1. CASE n + SoapyPkt > t.obj[i].st["rx"].jit + 1
      <4>1. v = [t EXCEPT !.big = TRUE]
        BY <2>4, <3>1
      <4>2. SoapyInv(v) /\ v.obj = t.obj /\ v.big
        BY <2>3, <4>1, SoapyBig
      <4> QED BY <2>3, <4>2 DEF SoapyBuf
    <3>2. CASE ~(n + SoapyPkt > t.obj[i].st["rx"].jit + 1)
      <4>1. v = [t EXCEPT !.big = t.big]
        <5>1. (t.big \/ n + SoapyPkt > t.obj[i].st["rx"].jit + 1) = t.big
          BY <2>5, <3>2 DEF SoapyState
        <5> QED BY <2>4, <5>1
      <4>2. v = t
        BY <2>5, <4>1 DEF SoapyState
      <4> QED BY <1>0, <2>3, <2>5, <3>2, <4>2 DEF SoapyBuf
    <3> QED BY <3>1, <3>2
  <2>9. z \in SoapyBuffered(v, i, n)
    BY <2>1, <2>4
  <2> QED BY <2>8, <2>9, SoapyBufferedOk
<1> QED BY <1>2, <1>3
-----------------------------------------------------------------------------
(* Handles.                                                                *)
LEMMA SoapyNoObjIs ==
    /\ SoapyNoObj \in SoapyObj /\ SoapyNoObj.h = 0 /\ (\A k \in SoapySettings : SoapyNoObj.set[k] = 0)
    /\ \A d \in SoapyDirs : ~SoapyNoObj.st[d].setup /\ ~SoapyNoObj.st[d].strm /\ SoapyNoObj.st[d].jit = 0
<1>1. SoapyNoStream \in SoapyStream
  BY DEF SoapyNoStream, SoapyStream
<1>2. [d \in SoapyDirs |-> SoapyNoStream] \in [SoapyDirs -> SoapyStream] /\ [k \in SoapySettings |-> 0] \in [SoapySettings -> Nat]
  BY <1>1
<1>3. SoapyNoObj \in SoapyObj
  BY <1>2 DEF SoapyNoObj, SoapyObj
<1>4. ~SoapyNoStream.setup /\ ~SoapyNoStream.strm /\ SoapyNoStream.jit = 0
  BY DEF SoapyNoStream
<1> QED BY <1>3, <1>4 DEF SoapyNoObj

\* An object that has got a handle.
SoapyNew(h) == [SoapyNoObj EXCEPT !.h = h]

LEMMA SoapyNewIs ==
    ASSUME NEW h \in Nat
    PROVE  /\ SoapyNew(h) \in SoapyObj /\ SoapyNew(h).h = h
           /\ \A d \in SoapyDirs : ~SoapyNew(h).st[d].strm
           /\ \A v, big : v.up /\ (\A k \in SoapySettings : 0 \in v.acc[k]) => SoapyAgree(SoapyNew(h), v, big)
<1>1. /\ SoapyNew(h) \in SoapyObj /\ SoapyNew(h).h = h
      /\ SoapyNew(h).set = SoapyNoObj.set /\ SoapyNew(h).st = SoapyNoObj.st
  BY SoapyNoObjIs DEF SoapyNew, SoapyObj
<1>2. "rx" \in SoapyDirs
  BY DEF SoapyDirs
<1>3. ASSUME NEW v, \A k \in SoapySettings : 0 \in v.acc[k] PROVE SoapyReports(SoapyNew(h).set, v.acc)
  BY <1>1, <1>3, SoapyNoObjIs, SoapyStandsZero DEF SoapyReports
<1> QED BY <1>1, <1>2, <1>3, SoapyNoObjIs DEF SoapyAgree

\* Objects stay apart when one of them has no streams.
LEMMA SoapyApartNew ==
    ASSUME NEW s, SoapyApart(s), NEW i \in SoapyObjs, NEW t, \A d \in SoapyDirs : ~t.obj[i].st[d].strm,
           \A j \in SoapyObjs : j # i => t.obj[j] = s.obj[j]
    PROVE  SoapyApart(t)
<1> SUFFICES ASSUME NEW j \in SoapyObjs, NEW k \in SoapyObjs, j # k, t.obj[j].h = t.obj[k].h, NEW d \in SoapyDirs
             PROVE  ~(t.obj[j].st[d].strm /\ t.obj[k].st[d].strm)
  BY DEF SoapyApart
<1>1. CASE j = i \/ k = i
  BY <1>1
<1>2. CASE j # i /\ k # i
  <2>1. t.obj[j] = s.obj[j] /\ t.obj[k] = s.obj[k]
    BY <1>2
  <2> QED BY <2>1 DEF SoapyApart
<1> QED BY <1>1, <1>2

\* The object joins the handle of others.
SoapyJoined(s, i) == [s EXCEPT !.obj[i].h = s.reg]

LEMMA SoapyJoinOk ==
    ASSUME NEW s, SoapyInv(s), NEW i \in SoapyObjs, s.obj[i].h = 0, s.reg # 0, NEW u \in SoapyObjs, s.obj[u].h = s.reg,
           NEW t, t = SoapyJoined(s, i)
    PROVE  SoapyInv(t)
<1> DEFINE n == SoapyNew(s.reg)
           O == [s.obj EXCEPT ![i] = n]
<1>0. s \in SoapyState /\ s.obj \in [SoapyObjs -> SoapyObj] /\ s.obj[i] = SoapyNoObj /\ s.reg \in 1..Len(s.dev) /\ s.reg \in Nat
  BY SoapyOf DEF SoapyInv, SoapyTable, SoapyState
<1>1. t = [s EXCEPT !.obj = O]
  BY <1>0 DEF SoapyNew, SoapyJoined
<1>2. n \in SoapyObj /\ n.h = s.reg /\ (\A d \in SoapyDirs : ~n.st[d].strm) /\ SoapyAgree(n, s.dev[s.reg], s.big)
  <2>1. SoapyAgree(s.obj[u], s.dev[s.reg], s.big)
    BY DEF SoapyInv
  <2>2. s.dev[s.reg].up /\ \A k \in SoapySettings : 0 \in s.dev[s.reg].acc[k]
    BY <1>0, <2>1 DEF SoapyAgree, SoapyInv, SoapyTable
  <2> QED BY <1>0, <2>2, SoapyNewIs
<1> HIDE DEF n
<1>3. O \in [SoapyObjs -> SoapyObj] /\ O[i] = n /\ \A j \in SoapyObjs : j # i => O[j] = s.obj[j]
  BY <1>0, <1>2
<1> HIDE DEF O
<1>4. /\ t \in SoapyState /\ t.obj = O /\ t.dev = s.dev /\ t.reg = s.reg /\ t.again = s.again /\ t.big = s.big /\ t.bad = s.bad
  BY <1>0, <1>1, <1>3 DEF SoapyState
<1>5. SoapyTable(t)
  <2>1. ASSUME NEW j \in SoapyObjs
        PROVE  t.obj[j].h \in 0..Len(t.dev) /\ (t.reg = 0 => t.obj[j].h = 0) /\ (~t.again => t.obj[j].h \in {0, t.reg})
    <3>1. CASE j = i
      BY <1>0, <1>2, <1>3, <1>4, <3>1
    <3>2. CASE j # i
      BY <1>3, <1>4, <3>2 DEF SoapyInv, SoapyTable
    <3> QED BY <3>1, <3>2
  <2> QED BY <1>4, <2>1 DEF SoapyInv, SoapyTable
<1>6. SoapyApart(t)
  <2>1. SoapyApart(s) /\ (\A d \in SoapyDirs : ~t.obj[i].st[d].strm) /\ \A j \in SoapyObjs : j # i => t.obj[j] = s.obj[j]
    BY <1>2, <1>3, <1>4 DEF SoapyInv
  <2> QED BY <2>1, SoapyApartNew
<1>7. ASSUME NEW j \in SoapyObjs
      PROVE  IF t.obj[j].h = 0 THEN t.obj[j] = SoapyNoObj ELSE SoapyAgree(t.obj[j], t.dev[t.obj[j].h], t.big)
  <2>1. CASE j = i
    BY <1>0, <1>2, <1>3, <1>4, <2>1
  <2>2. CASE j # i
    BY <1>3, <1>4, <2>2 DEF SoapyInv
  <2> QED BY <2>1, <2>2
<1> QED BY <1>4, <1>5, <1>6, <1>7 DEF SoapyInv

\* A handle that has just opened its device.
SoapyOpened == [up |-> TRUE, open |-> {}, n |-> 0, rate |-> 0, acc |-> [k \in SoapySettings |-> {0}]]

SoapyOpens(s, i) ==
    [s EXCEPT !.dev = Append(@, SoapyOpened), !.obj[i].h = Len(s.dev) + 1, !.again = s.reg # 0,
              !.reg = IF @ = 0 THEN Len(s.dev) + 1 ELSE @]

LEMMA SoapyOpenOk ==
    ASSUME NEW s, SoapyInv(s), NEW i \in SoapyObjs, s.obj[i].h = 0, NEW t, t = SoapyOpens(s, i)
    PROVE  SoapyInv(t)
<1> DEFINE h == Len(s.dev) + 1
           n == SoapyNew(h)
           O == [s.obj EXCEPT ![i] = n]
           D == Append(s.dev, SoapyOpened)
           R == IF s.reg = 0 THEN h ELSE s.reg
           A == s.reg # 0
<1>0. /\ s \in SoapyState /\ s.obj \in [SoapyObjs -> SoapyObj] /\ s.obj[i] = SoapyNoObj /\ s.dev \in Seq(SoapyDev)
      /\ s.reg \in 0..Len(s.dev) /\ h \in Nat /\ h = Len(s.dev) + 1 /\ h # 0 /\ Len(s.dev) \in Nat
  <2>1. s.dev \in Seq(SoapyDev) /\ s \in SoapyState /\ s.obj \in [SoapyObjs -> SoapyObj]
    BY SoapyOf
  <2>2. s.obj[i] = SoapyNoObj
    BY DEF SoapyInv
  <2>4. s.reg \in 0..Len(s.dev)
    <3>1. SoapyTable(s)
      BY DEF SoapyInv
    <3> QED BY <3>1 DEF SoapyTable
  <2>3. Len(s.dev) \in Nat
    BY <2>1
  <2> QED BY <2>1, <2>2, <2>3, <2>4
<1>1. t = [s EXCEPT !.dev = D, !.obj = O, !.again = A, !.reg = R]
  BY <1>0 DEF SoapyNew, SoapyOpens
<1>2. SoapyOpened \in SoapyDev /\ SoapyOpened.up /\ \A k \in SoapySettings : 0 \in SoapyOpened.acc[k]
  <2>1. [k \in SoapySettings |-> {0}] \in [SoapySettings -> SUBSET Nat]
    OBVIOUS
  <2> QED BY <2>1 DEF SoapyOpened, SoapyDev
<1>3. n \in SoapyObj /\ n.h = h /\ (\A d \in SoapyDirs : ~n.st[d].strm) /\ SoapyAgree(n, SoapyOpened, s.big)
  BY <1>0, <1>2, SoapyNewIs
<1> HIDE DEF n
<1>4. O \in [SoapyObjs -> SoapyObj] /\ O[i] = n /\ \A j \in SoapyObjs : j # i => O[j] = s.obj[j]
  BY <1>0, <1>3
<1>5. D \in Seq(SoapyDev) /\ Len(D) = h /\ D[h] = SoapyOpened /\ \A k \in 1..Len(s.dev) : D[k] = s.dev[k]
  BY <1>0, <1>2
<1>6. R \in 1..h /\ A \in BOOLEAN /\ (A => R = s.reg) /\ (~A => R = h /\ s.reg = 0)
  BY <1>0
<1> HIDE DEF O, D, R, A, h
<1>7. /\ t \in SoapyState /\ t.obj = O /\ t.dev = D /\ t.reg = R /\ t.again = A /\ t.big = s.big /\ t.bad = s.bad
  <2>1. R \in Nat
    BY <1>0, <1>6
  <2> QED BY <1>0, <1>1, <1>4, <1>5, <1>6, <2>1 DEF SoapyState
<1>8. \A j \in SoapyObjs : j # i => s.obj[j].h \in 0..Len(s.dev) /\ (s.reg = 0 => s.obj[j].h = 0)
  BY DEF SoapyInv, SoapyTable
<1>9. SoapyTable(t)
  <2>1. ASSUME NEW j \in SoapyObjs
        PROVE  t.obj[j].h \in 0..Len(t.dev) /\ (t.reg = 0 => t.obj[j].h = 0) /\ (~t.again => t.obj[j].h \in {0, t.reg})
    <3>1. CASE j = i
      BY <1>0, <1>3, <1>4, <1>5, <1>6, <1>7, <3>1
    <3>2. CASE j # i
      BY <1>0, <1>4, <1>5, <1>6, <1>7, <1>8, <3>2
    <3> QED BY <3>1, <3>2
  <2>2. ASSUME NEW k \in 1..Len(t.dev), NEW c \in SoapySettings PROVE 0 \in t.dev[k].acc[c]
    <3>1. CASE k = h
      BY <1>2, <1>5, <1>7, <3>1
    <3>2. CASE k # h
      <4>1. k \in 1..Len(s.dev)
        BY <1>0, <1>5, <1>7, <3>2
      <4> QED BY <1>5, <1>7, <4>1 DEF SoapyInv, SoapyTable
    <3> QED BY <3>1, <3>2
  <2>3. t.reg \in 0..Len(t.dev) /\ t.reg # 0
    BY <1>0, <1>5, <1>6, <1>7
  <2> QED BY <1>6, <1>7, <2>1, <2>2, <2>3 DEF SoapyTable
<1>10. SoapyApart(t)
  <2>1. SoapyApart(s) /\ (\A d \in SoapyDirs : ~t.obj[i].st[d].strm) /\ \A j \in SoapyObjs : j # i => t.obj[j] = s.obj[j]
    BY <1>3, <1>4, <1>7 DEF SoapyInv
  <2> QED BY <2>1, SoapyApartNew
<1>11. ASSUME NEW j \in SoapyObjs
       PROVE  IF t.obj[j].h = 0 THEN t.obj[j] = SoapyNoObj ELSE SoapyAgree(t.obj[j], t.dev[t.obj[j].h], t.big)
  <2>1. CASE j = i
    BY <1>0, <1>3, <1>4, <1>5, <1>7, <2>1
  <2>2. CASE j # i
    <3>1. t.obj[j] = s.obj[j]
      BY <1>4, <1>7, <2>2
    <3>2. CASE s.obj[j].h = 0
      BY <3>1, <3>2 DEF SoapyInv
    <3>3. CASE s.obj[j].h # 0
      <4>1. t.dev[s.obj[j].h] = s.dev[s.obj[j].h]
        BY <1>0, <1>5, <1>7, <1>8, <2>2, <3>3
      <4> QED BY <1>7, <3>1, <3>3, <4>1 DEF SoapyInv
    <3> QED BY <3>2, <3>3
  <2> QED BY <2>1, <2>2
<1>12. ~t.big => ~t.bad
  BY <1>7 DEF SoapyInv
<1> QED BY <1>7, <1>9, <1>10, <1>11, <1>12 DEF SoapyInv

LEMMA SoapyGetOk ==
    ASSUME NEW s, SoapyInv(s), NEW i \in SoapyObjs, s.obj[i].h = 0, NEW z \in usdr_handle_get(s, i)
    PROVE  SoapyInv(z.s)
<1>1. CASE s.reg # 0 /\ SoapyUsers(s, s.reg) # {}
  <2>1. PICK u \in SoapyObjs : s.obj[u].h = s.reg
    BY <1>1 DEF SoapyUsers
  <2>2. PICK t : t = SoapyJoined(s, i)
    OBVIOUS
  <2>3. SoapyInv(t)
    BY <1>1, <2>1, <2>2, SoapyJoinOk
  <2>4. z.s = t
    BY <1>1, <2>2 DEF usdr_handle_get, Ok, SoapyJoined
  <2> QED BY <2>3, <2>4
<1>2. CASE ~(s.reg # 0 /\ SoapyUsers(s, s.reg) # {})
  <2>1. PICK t : t = SoapyOpens(s, i)
    OBVIOUS
  <2>2. SoapyInv(t)
    BY <2>1, SoapyOpenOk
  <2>3. z \in Io(s, t)
    BY <1>2, <2>1 DEF usdr_handle_get, SoapyOpened, SoapyOpens
  <2> QED BY <2>2, <2>3, SoapyIo
<1> QED BY <1>1, <1>2

\* The object is gone, its device is closed (e) or not.
SoapyLeft(s, i, e) ==
    IF e THEN [[s EXCEPT !.obj[i] = SoapyNoObj] EXCEPT !.dev[s.obj[i].h].up = FALSE, !.dev[s.obj[i].h].open = {}]
    ELSE [s EXCEPT !.obj[i] = SoapyNoObj]

LEMMA SoapyLeftOk ==
    ASSUME NEW s, SoapyInv(s), NEW i \in SoapyObjs, s.obj[i].h # 0, NEW e \in BOOLEAN,
           e => \A j \in SoapyObjs : j # i => s.obj[j].h # s.obj[i].h, NEW t, t = SoapyLeft(s, i, e)
    PROVE  SoapyInv(t)
<1> DEFINE h == s.obj[i].h
           O == [s.obj EXCEPT ![i] = SoapyNoObj]
           v == s.dev[h]
           a == [v EXCEPT !.up = FALSE]
           b == [a EXCEPT !.open = {}]
           D == IF e THEN [s.dev EXCEPT ![h] = b] ELSE s.dev
<1>0. /\ s \in SoapyState /\ s.obj \in [SoapyObjs -> SoapyObj] /\ s.dev \in Seq(SoapyDev) /\ h \in 1..Len(s.dev) /\ v \in SoapyDev
  BY SoapyOf
<1>1. b \in SoapyDev /\ b.acc = v.acc
  <2> HIDE DEF v
  <2> QED BY <1>0 DEF SoapyDev
<1>2. t = [s EXCEPT !.obj = O, !.dev = D]
  <2>1. CASE ~e
    <3>1. t = [s EXCEPT !.obj = O] /\ D = s.dev
      BY <2>1 DEF SoapyLeft
    <3> HIDE DEF O, D
    <3> QED BY <1>0, <3>1 DEF SoapyState
  <2>2. CASE e
    <3>1. PICK q : q = [s EXCEPT !.obj = O]
      OBVIOUS
    <3>2. q.dev = s.dev
      <4> HIDE DEF O
      <4> QED BY <1>0, <3>1 DEF SoapyState
    <3>3. PICK p : p = [q EXCEPT !.dev[h].up = FALSE]
      OBVIOUS
    <3>4. t = [p EXCEPT !.dev[h].open = {}]
      BY <2>2, <3>1, <3>3 DEF SoapyLeft
    <3>5. p = [q EXCEPT !.dev = [s.dev EXCEPT ![h] = a]]
      BY <3>2, <3>3
    <3> DEFINE C == [s.dev EXCEPT ![h] = a]
    <3>6. C[h] = a /\ [C EXCEPT ![h] = b] = [s.dev EXCEPT ![h] = b]
      <4> HIDE DEF a, b, h
      <4> QED BY <1>0
    <3> HIDE DEF O, C
    <3>7. p.dev = C
      BY <1>0, <3>1, <3>5 DEF SoapyState, C
    <3>8. t = [p EXCEPT !.dev = [C EXCEPT ![h] = b]]
      <4>1. t = [p EXCEPT !.dev = [p.dev EXCEPT ![h] = [p.dev[h] EXCEPT !.open = {}]]]
        BY <3>4
      <4> QED BY <3>6, <3>7, <4>1
    <3>9. D = [s.dev EXCEPT ![h] = b]
      BY <2>2
    <3> HIDE DEF D, a, b, h
    <3>10. t = [[[s EXCEPT !.obj = O] EXCEPT !.dev = C] EXCEPT !.dev = D]
      BY <3>1, <3>5, <3>6, <3>8, <3>9 DEF C
    <3> QED BY <1>0, <3>10 DEF SoapyState
  <2> QED BY <2>1, <2>2
<1> HIDE DEF b
<1>3. /\ D \in Seq(SoapyDev) /\ Len(D) = Len(s.dev) /\ \A k \in 1..Len(s.dev) : D[k].acc = s.dev[k].acc
      /\ \A k \in 1..Len(s.dev) : D[k] = s.dev[k] \/ (e /\ k = h)
  <2>1. CASE e
    <3>1. /\ [s.dev EXCEPT ![h] = b] \in Seq(SoapyDev) /\ Len([s.dev EXCEPT ![h] = b]) = Len(s.dev)
          /\ [s.dev EXCEPT ![h] = b][h] = b /\ \A k \in 1..Len(s.dev) : k # h => [s.dev EXCEPT ![h] = b][k] = s.dev[k]
      BY <1>0, <1>1, SoapySet1
    <3>2. D = [s.dev EXCEPT ![h] = b]
      BY <2>1
    <3> HIDE DEF D
    <3> QED BY <1>1, <2>1, <3>1, <3>2
  <2>2. CASE ~e
    BY <1>0, <2>2
  <2> QED BY <2>1, <2>2
<1>4. O \in [SoapyObjs -> SoapyObj] /\ O[i] = SoapyNoObj /\ \A j \in SoapyObjs : j # i => O[j] = s.obj[j]
  BY <1>0, SoapyNoObjIs
<1> HIDE DEF O, D
<1>5. /\ t \in SoapyState /\ t.obj = O /\ t.dev = D /\ t.reg = s.reg /\ t.again = s.again /\ t.big = s.big /\ t.bad = s.bad
  BY <1>0, <1>2, <1>3, <1>4 DEF SoapyState
<1>6. SoapyTable(t)
  <2>1. ASSUME NEW j \in SoapyObjs
        PROVE  t.obj[j].h \in 0..Len(t.dev) /\ (t.reg = 0 => t.obj[j].h = 0) /\ (~t.again => t.obj[j].h \in {0, t.reg})
    <3>1. CASE j = i
      <4>1. t.obj[j].h = 0 /\ Len(t.dev) \in Nat
        BY <1>0, <1>3, <1>4, <1>5, <3>1, SoapyNoObjIs
      <4> QED BY <4>1
    <3>2. CASE j # i
      BY <1>3, <1>4, <1>5, <3>2 DEF SoapyInv, SoapyTable
    <3> QED BY <3>1, <3>2
  <2> QED BY <1>3, <1>5, <2>1 DEF SoapyInv, SoapyTable
<1>7. SoapyApart(t)
  <2>1. SoapyApart(s) /\ (\A d \in SoapyDirs : ~t.obj[i].st[d].strm) /\ \A j \in SoapyObjs : j # i => t.obj[j] = s.obj[j]
    BY <1>4, <1>5, SoapyNoObjIs DEF SoapyInv
  <2> QED BY <2>1, SoapyApartNew
<1>8. ASSUME NEW j \in SoapyObjs
      PROVE  IF t.obj[j].h = 0 THEN t.obj[j] = SoapyNoObj ELSE SoapyAgree(t.obj[j], t.dev[t.obj[j].h], t.big)
  <2>1. CASE j = i
    BY <1>4, <1>5, <2>1, SoapyNoObjIs
  <2>2. CASE j # i
    <3>1. t.obj[j] = s.obj[j] /\ (s.obj[j].h # 0 => s.obj[j].h \in 1..Len(s.dev))
      BY <1>4, <1>5, <2>2, SoapyOf
    <3>2. CASE s.obj[j].h = 0
      BY <3>1, <3>2 DEF SoapyInv
    <3>3. CASE s.obj[j].h # 0
      <4>1. t.dev[s.obj[j].h] = s.dev[s.obj[j].h]
        BY <1>3, <1>5, <2>2, <3>1, <3>3
      <4> QED BY <1>5, <3>1, <3>3, <4>1 DEF SoapyInv
    <3> QED BY <3>2, <3>3
  <2> QED BY <2>1, <2>2
<1>9. ~t.big => ~t.bad
  BY <1>5 DEF SoapyInv
<1> QED BY <1>5, <1>6, <1>7, <1>8, <1>9 DEF SoapyInv

LEMMA SoapyDestroyOk ==
    ASSUME NEW s, SoapyInv(s), NEW i \in SoapyObjs, s.obj[i].h # 0
    PROVE  SoapyInv(SoapyUSDR_destroy(s, i))
<1> DEFINE t == [s EXCEPT !.obj[i] = SoapyNoObj]
           h == s.obj[i].h
<1>1. s.obj \in [SoapyObjs -> SoapyObj] /\ s \in SoapyState
  BY SoapyOf
<1>2. \A j \in SoapyObjs : j # i => t.obj[j] = s.obj[j]
  BY <1>1 DEF SoapyState
<1>3. CASE SoapyUsers(t, h) # {}
  <2>1. PICK q : q = SoapyLeft(s, i, FALSE)
    OBVIOUS
  <2>2. SoapyInv(q)
    BY <2>1, SoapyLeftOk
  <2>3. SoapyUSDR_destroy(s, i) = q
    BY <1>3, <2>1 DEF SoapyUSDR_destroy, SoapyLeft, SoapyH
  <2> QED BY <2>2, <2>3
<1>4. CASE SoapyUsers(t, h) = {}
  <2>1. PICK q : q = SoapyLeft(s, i, TRUE)
    OBVIOUS
  <2>2. \A j \in SoapyObjs : j # i => s.obj[j].h # h
    BY <1>2, <1>4 DEF SoapyUsers
  <2>3. SoapyInv(q)
    BY <2>1, <2>2, SoapyLeftOk
  <2>4. SoapyUSDR_destroy(s, i) = q
    BY <1>4, <2>1 DEF SoapyUSDR_destroy, SoapyLeft, SoapyH
  <2> QED BY <2>3, <2>4
<1> QED BY <1>3, <1>4
-----------------------------------------------------------------------------
(* The plug-in.                                                            *)
LEMMA SoapyStart == SoapyInit => SoapyInv(soapy)
<1> SUFFICES ASSUME SoapyInit PROVE SoapyInv(soapy)
  OBVIOUS
<1> DEFINE O == [i \in SoapyObjs |-> SoapyNoObj]
<1>1. soapy = [faults |-> SoapyFaults, calls |-> SoapyCalls, reg |-> 0, again |-> FALSE, big |-> FALSE, bad |-> FALSE,
               obj |-> O, dev |-> << >>]
  BY DEF SoapyInit, SoapyFresh
<1>2. O \in [SoapyObjs -> SoapyObj] /\ \A i \in SoapyObjs : O[i] = SoapyNoObj
  BY SoapyNoObjIs
<1>3. << >> \in Seq(SoapyDev) /\ Len(<< >>) = 0
  OBVIOUS
<1> HIDE DEF O
<1>4. soapy \in SoapyState
  BY <1>1, <1>2, <1>3, SoapyAssumption DEF SoapyState
<1>5. soapy.obj = O /\ soapy.dev = << >> /\ soapy.reg = 0 /\ soapy.again = FALSE /\ soapy.bad = FALSE
  BY <1>1
<1>6. SoapyTable(soapy)
  BY <1>2, <1>3, <1>5, SoapyNoObjIs DEF SoapyTable
<1>7. SoapyApart(soapy)
  BY <1>2, <1>5, SoapyNoObjIs DEF SoapyApart
<1> QED BY <1>2, <1>4, <1>5, <1>6, <1>7, SoapyNoObjIs DEF SoapyInv

\* A call counts once.
LEMMA SoapyCount ==
    ASSUME NEW s, SoapyInv(s), NEW n \in Int
    PROVE  SoapyInv([s EXCEPT !.calls = n])
<1>1. s \in SoapyState
  BY DEF SoapyInv
<1> DEFINE t == [s EXCEPT !.calls = n]
<1>2. t \in SoapyState /\ t.obj = s.obj /\ t.dev = s.dev /\ t.big = s.big /\ t.bad = s.bad /\ t.reg = s.reg /\ t.again = s.again
  BY <1>1 DEF SoapyState
<1> HIDE DEF t
<1>3. SoapyTable(t) /\ SoapyApart(t)
  BY <1>2 DEF SoapyInv, SoapyTable, SoapyApart
<1>4. SoapyInv(t)
  BY <1>2, <1>3 DEF SoapyInv
<1> QED BY <1>4 DEF t

LEMMA SoapyCalled ==
    ASSUME NEW S, SoapyCall(S), \A o \in S : SoapyInv(o.s)
    PROVE  SoapyInv(soapy')
<1>1. PICK o \in S : soapy' = [o.s EXCEPT !.calls = o.s.calls - 1]
  BY DEF SoapyCall
<1>2. SoapyInv(o.s) /\ o.s.calls \in Int
  BY DEF SoapyInv, SoapyState
<1>3. o.s.calls - 1 \in Int
  BY <1>2
<1> QED BY <1>1, <1>2, <1>3, SoapyCount

\* An object with a stream that is set up has a handle.
LEMMA SoapyUp ==
    ASSUME NEW s, SoapyInv(s), NEW i \in SoapyObjs, NEW d \in SoapyDirs, SoapySt(s, i, d).setup
    PROVE  s.obj[i].h # 0
BY SoapyNoObjIs DEF SoapyInv, SoapySt

\* A setting is taken by the device before the object reports it.
LEMMA SoapySetStep ==
    ASSUME SoapyInv(soapy), NEW i \in SoapyObjs, SoapySet(i)
    PROVE  SoapyInv(soapy')
<1>0. soapy.obj[i].h # 0
  BY DEF SoapySet, SoapyMade, SoapyH
<1> DEFINE T(k, v, note) == SoapyUSDR_setUint(soapy, i, k, v, note)
<1>1. ASSUME NEW k \in SoapySettings, NEW v \in Nat, NEW note \in Nat, SoapyStands(k, note, v), SoapyCall(T(k, v, note))
      PROVE  SoapyInv(soapy')
  <2>1. \A o \in T(k, v, note) : SoapyInv(o.s)
    BY <1>0, <1>1, SoapySetOk
  <2> HIDE DEF T
  <2> QED BY <1>1, <2>1, SoapyCalled
<1>2. CASE SoapyCall(Ok(soapy))
  <2>1. \A o \in Ok(soapy) : SoapyInv(o.s)
    BY DEF Ok
  <2> QED BY <1>2, <2>1, SoapyCalled
<1>3. PICK v \in 1..2 :
          \/ SoapyCall(T("gain", v, v)) \/ SoapyCall(T("clk", v, v))
          \/ \E c \in 0..1, wide \in 0..1 : SoapyCall(SoapyUSDR_setFrequency(soapy, i, c, v + wide * SoapyWord))
          \/ SoapyCall(SoapyUSDR_setBandwidth(soapy, i, v - 1))
  BY DEF SoapySet, SoapyUSDR_setGain, SoapyUSDR_setClockSource
<1>4. /\ v \in Nat /\ v - 1 \in Nat /\ {"gain", "freq", "clk", "bw"} \subseteq SoapySettings
      /\ \A k \in {"gain", "clk", "bw"} : SoapyStands(k, v, v) /\ SoapyStands(k, v - 1, v - 1)
  BY DEF SoapySettings, SoapyStands
<1> HIDE DEF T
<1>5. CASE SoapyCall(T("gain", v, v)) \/ SoapyCall(T("clk", v, v))
  BY <1>1, <1>4, <1>5
<1>7. ASSUME NEW c \in 0..1, NEW wide \in 0..1, SoapyCall(SoapyUSDR_setFrequency(soapy, i, c, v + wide * SoapyWord))
      PROVE  SoapyInv(soapy')
  <2> DEFINE f == v + wide * SoapyWord
             w == SoapyFreqWord(c, f)
             x == IF SoapyAfe THEN f ELSE w
  <2>1. f \in Nat
    <3>1. wide = 0 \/ wide = 1
      OBVIOUS
    <3> QED BY <1>4, <3>1, SoapyAssumption
  <2> HIDE DEF f
  <2>2. w \in Nat
    <3>1. f % SoapyWord \in Nat
      BY <2>1, SoapyAssumption
    <3>2. c = 0 \/ c = 1
      OBVIOUS
    <3> QED BY <3>1, <3>2, SoapyAssumption DEF SoapyFreqWord
  <2>3. c \in SoapyChans
    BY DEF SoapyChans
  <2>4. SoapyStands("freq", w, x) /\ x \in Nat
    <3>1. CASE SoapyAfe
      BY <2>1, <2>3, <3>1 DEF SoapyStands
    <3>2. CASE ~SoapyAfe
      BY <2>2, <3>2 DEF SoapyStands
    <3> QED BY <3>1, <3>2
  <2>5. SoapyCall(T("freq", x, w))
    BY <1>7 DEF SoapyUSDR_setFrequency, T, f
  <2> HIDE DEF w, x
  <2> QED BY <1>1, <1>4, <2>2, <2>4, <2>5
<1>6. CASE SoapyCall(SoapyUSDR_setBandwidth(soapy, i, v - 1))
  <2>1. CASE v - 1 = 0
    <3>1. SoapyUSDR_setBandwidth(soapy, i, v - 1) = Ok(soapy)
      BY <2>1 DEF SoapyUSDR_setBandwidth
    <3> QED BY <1>2, <1>6, <3>1
  <2>2. CASE v - 1 # 0
    <3>1. SoapyUSDR_setBandwidth(soapy, i, v - 1) = T("bw", v - 1, v - 1)
      BY <2>2 DEF SoapyUSDR_setBandwidth, T
    <3> QED BY <1>1, <1>4, <1>6, <3>1
  <2> QED BY <2>1, <2>2
<1> QED BY <1>3, <1>5, <1>6, <1>7

\* The streams of an object.
LEMMA SoapyStreamStep ==
    ASSUME SoapyInv(soapy), NEW i \in SoapyObjs, NEW d \in SoapyDirs,
           SoapySetup(i, d) \/ SoapyClose(i, d) \/ SoapyActivate(i, d) \/ SoapyDeactivate(i, d)
    PROVE  SoapyInv(soapy')
<1>1. soapy.obj[i].h # 0
  BY SoapyUp DEF SoapySetup, SoapyClose, SoapyActivate, SoapyDeactivate, SoapyMade, SoapyH
<1>2. CASE SoapySetup(i, d)
  <2>1. \A o \in SoapyUSDR_setupStream(soapy, i, d) : SoapyInv(o.s)
    BY <1>1, SoapySetupOk
  <2> QED BY <1>2, <2>1, SoapyCalled DEF SoapySetup
<1>3. CASE SoapyClose(i, d)
  <2>1. \A o \in Ok(SoapyUSDR_closeStream(soapy, i, d)) : SoapyInv(o.s)
    BY <1>1, SoapyCloseOk DEF Ok
  <2> QED BY <1>3, <2>1, SoapyCalled DEF SoapyClose
<1>4. CASE SoapyActivate(i, d)
  <2>1. \A o \in SoapyUSDR_activateStream(soapy, i, d) : SoapyInv(o.s)
    BY <1>1, SoapyActivateOk
  <2> QED BY <1>4, <2>1, SoapyCalled DEF SoapyActivate
<1>5. CASE SoapyDeactivate(i, d)
  <2>1. \A o \in SoapyUSDR_deactivateStream(soapy, i, d) : SoapyInv(o.s)
    BY <1>1, SoapyActivateOk
  <2> QED BY <1>5, <2>1, SoapyCalled DEF SoapyDeactivate
<1> QED BY <1>2, <1>3, <1>4, <1>5

LEMMA SoapyKeeps == SoapyInv(soapy) /\ [SoapyNext]_soapy => SoapyInv(soapy')
<1> SUFFICES ASSUME SoapyInv(soapy), [SoapyNext]_soapy PROVE SoapyInv(soapy')
  OBVIOUS
<1>1. ASSUME NEW i \in SoapyObjs, SoapyMake(i) PROVE SoapyInv(soapy')
  <2>1. \A o \in usdr_handle_get(soapy, i) : SoapyInv(o.s)
    BY <1>1, SoapyGetOk DEF SoapyMake, SoapyMade, SoapyH
  <2> QED BY <1>1, <2>1, SoapyCalled DEF SoapyMake
<1>2. ASSUME NEW i \in SoapyObjs, SoapyUnmake(i) PROVE SoapyInv(soapy')
  <2>1. \A o \in Ok(SoapyUSDR_destroy(soapy, i)) : SoapyInv(o.s)
    BY <1>2, SoapyDestroyOk DEF Ok, SoapyUnmake, SoapyMade, SoapyH
  <2> QED BY <1>2, <2>1, SoapyCalled DEF SoapyUnmake
<1>3. ASSUME NEW i \in SoapyObjs, SoapyRate(i) PROVE SoapyInv(soapy')
  <2>1. soapy.obj[i].h # 0 /\ 2 \in Nat
    BY <1>3 DEF SoapyRate, SoapyMade, SoapyH
  <2>2. \A o \in SoapyUSDR_setSampleRate(soapy, i, 2) : SoapyInv(o.s)
    BY <2>1, SoapyRateOk
  <2> QED BY <1>3, <2>2, SoapyCalled DEF SoapyRate
<1>4. ASSUME NEW i \in SoapyObjs, SoapyRead(i) PROVE SoapyInv(soapy')
  <2>0. "rx" \in SoapyDirs /\ SoapySt(soapy, i, "rx").setup
    BY <1>4 DEF SoapyRead, SoapyDirs
  <2>1. soapy.obj[i].h # 0 /\ soapy.obj[i].st["rx"].setup
    BY <2>0, SoapyUp DEF SoapySt
  <2>2. PICK n \in SoapySizes : SoapyCall(SoapyUSDR_readStream(soapy, i, n))
    BY <1>4 DEF SoapyRead
  <2>3. n \in Nat
    BY SoapyAssumption
  <2>4. \A o \in SoapyUSDR_readStream(soapy, i, n) : SoapyInv(o.s)
    BY <2>1, <2>3, SoapyReadOk
  <2> QED BY <2>2, <2>4, SoapyCalled
<1>5. ASSUME NEW i \in SoapyObjs, SoapyWrite(i) PROVE SoapyInv(soapy')
  <2>1. \A o \in SoapyUSDR_writeStream(soapy, i) : SoapyInv(o.s)
    BY SoapyCallOk DEF SoapyUSDR_writeStream
  <2> QED BY <1>5, <2>1, SoapyCalled DEF SoapyWrite
<1>6. CASE soapy' = soapy
  BY <1>6
<1> QED BY <1>1, <1>2, <1>3, <1>4, <1>5, <1>6, SoapySetStep, SoapyStreamStep DEF SoapyNext

\* What the invariant says of the objects of the plug-in.
LEMMA SoapyInvSays == SoapyInv(soapy) => SoapyHandles /\ SoapyInOrder
<1> SUFFICES ASSUME SoapyInv(soapy) PROVE SoapyHandles /\ SoapyInOrder
  OBVIOUS
<1>1. SoapyInOrder
  BY DEF SoapyInv, SoapyInOrder
<1>2. ASSUME NEW i \in SoapyObjs, soapy.obj[i].h # 0
      PROVE  SoapyAgree(soapy.obj[i], soapy.dev[soapy.obj[i].h], soapy.big)
  BY <1>2 DEF SoapyInv
<1>3. SoapyStreamsLive
  <2> SUFFICES ASSUME NEW i \in SoapyObjs, soapy.obj[i].h # 0
      PROVE  /\ soapy.dev[soapy.obj[i].h].up
             /\ \A d \in SoapyDirs :
                  /\ soapy.obj[i].st[d].setup => soapy.obj[i].st[d].strm
                  /\ soapy.obj[i].st[d].strm =>
                       /\ d \in soapy.dev[soapy.obj[i].h].open
                       /\ \A j \in SoapyUsers(soapy, soapy.obj[i].h) \ {i} : ~soapy.obj[j].st[d].strm
    BY DEF SoapyStreamsLive, SoapyMade, SoapyH, SoapySt
  <2>1. ASSUME NEW d \in SoapyDirs, soapy.obj[i].st[d].strm, NEW j \in SoapyUsers(soapy, soapy.obj[i].h) \ {i}
        PROVE  ~soapy.obj[j].st[d].strm
    BY <2>1 DEF SoapyInv, SoapyApart, SoapyUsers
  <2> QED BY <1>2, <2>1 DEF SoapyAgree
<1>4. SoapyReportsTrue
  <2>1. \A i \in SoapyObjs : SoapyMade(i) => SoapyReports(soapy.obj[i].set, soapy.dev[SoapyH(soapy, i)].acc)
    BY <1>2 DEF SoapyAgree, SoapyMade, SoapyH
  <2>2. ~soapy.again => \A i, j \in SoapyObjs :
            SoapyMade(i) /\ SoapyMade(j) => SoapyH(soapy, i) = SoapyH(soapy, j)
    BY DEF SoapyInv, SoapyTable, SoapyMade, SoapyH
  <2> QED BY <2>1, <2>2 DEF SoapyReportsTrue
<1> QED BY <1>1, <1>3, <1>4 DEF SoapyHandles

(* The objects of the plug-in and the devices behind their handles agree:  *)
(* a stream an object has is open in an open device and no other object's, *)
(* and a setting it reports stands for one the device accepted (the calls  *)
(* of usdr_soapy.cpp, whichever of the library calls they make fails).     *)
THEOREM SoapyHandlesAgree == SoapySpec => []SoapyHandles
<1>1. SoapyInit => SoapyInv(soapy)
  BY SoapyStart
<1>2. SoapyInv(soapy) /\ [SoapyNext]_soapy => SoapyInv(soapy)'
  BY SoapyKeeps
<1>3. SoapyInv(soapy) => SoapyHandles
  BY SoapyInvSays
<1> QED BY <1>1, <1>2, <1>3, PTL DEF SoapySpec

(* Reads of a receive stream hand out the samples without a gap or a       *)
(* repetition, whatever the sizes of the reads, the packets and the jitter *)
(* buffer are, until a read larger than the buffer (readStream).           *)
THEOREM SoapyReadsInOrder == SoapySpec => []SoapyInOrder
<1>1. SoapyInit => SoapyInv(soapy)
  BY SoapyStart
<1>2. SoapyInv(soapy) /\ [SoapyNext]_soapy => SoapyInv(soapy)'
  BY SoapyKeeps
<1>3. SoapyInv(soapy) => SoapyInOrder
  BY SoapyInvSays
<1> QED BY <1>1, <1>2, <1>3, PTL DEF SoapySpec
=============================================================================
