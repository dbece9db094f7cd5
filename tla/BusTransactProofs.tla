------------------------- MODULE BusTransactProofs -------------------------
(***************************************************************************)
(* Proofs about the I2C slave table and the commands that use it, and      *)
(* about the answers of transactions, for any number of slots, slaves,     *)
(* threads and calls.                                                      *)
(***************************************************************************)
EXTENDS BusTransact, WellFoundedInduction, TLAPS

\* A non-empty set of natural numbers has a least element, and Min is it.
LEMMA MinIsLeast ==
    ASSUME NEW S \in SUBSET Nat, S # {}
    PROVE  Min(S) \in S /\ \A y \in S : Min(S) <= y
<1> DEFINE R == {p \in Nat \X Nat : p[1] < p[2]}
<1>1. IsWellFoundedOn(R, Nat)
  BY NatLessThanWellFounded, Zenon DEF OpToRel
<1>2. \E x \in S : \A y \in S : ~(<<y, x>> \in R)
  <2> HIDE DEF R
  <2> QED BY <1>1, WFMin, Zenon
<1>3. PICK x \in S : \A y \in S : ~(<<y, x>> \in R)
  BY <1>2
<1>4. ASSUME NEW y \in S PROVE x <= y
  <2>1. ~(<<y, x>> \in Nat \X Nat /\ <<y, x>>[1] < <<y, x>>[2])
    BY <1>3
  <2>2. <<y, x>> \in Nat \X Nat /\ <<y, x>>[1] = y /\ <<y, x>>[2] = x
    OBVIOUS
  <2> QED BY <2>1, <2>2
<1> QED BY <1>4 DEF Min

-----------------------------------------------------------------------------
(* The slave table *)

Caches == [Slots -> [slave : Slaves \cup {NoSlave}, lrui : Nat]]

\* What si2c_update_lut_idx keeps: ranks in use differ, a slot without rank has
\* no slave, and the last slot is used after all the others.
RankInv(cd) ==
    /\ \A s, u \in Slots : cd[s].lrui = cd[u].lrui /\ cd[s].lrui > 0 => s = u
    /\ \A s \in Slots : cd[s].lrui = 0 => cd[s].slave = NoSlave
    /\ cd[SlotCount - 1].lrui > 0 => \A s \in Slots : cd[s].lrui > 0

LEMMA SlotFacts ==
    /\ SlotCount \in Nat /\ SlotCount > 1
    /\ Slots \in SUBSET Nat
    /\ 0 \in Slots /\ SlotCount - 1 \in Slots
    /\ NoSlave \notin Slaves
    /\ \A slave \in Slaves : Usable(slave) \subseteq Slots /\ 0 \in Usable(slave)
    /\ \A slave \in Slaves, s \in Slots : s \notin Usable(slave) => s = SlotCount - 1
BY LutAssumption, BusAssumption DEF Slots, Usable, NoSlave

LEMMA EmptyCacheOK == EmptyCache \in Caches /\ RankInv(EmptyCache)
BY SlotFacts DEF EmptyCache, Caches, RankInv

\* A hit swaps two ranks.
LEMMA PromotedOK ==
    ASSUME NEW cd \in Caches, RankInv(cd), NEW i \in Slots, NEW above \in SUBSET Slots,
           above # {}, cd[i].lrui > 0, \A s \in above : cd[s].lrui = cd[i].lrui + 1
    PROVE  /\ Promoted(cd, i, above) \in Caches
           /\ RankInv(Promoted(cd, i, above))
           /\ \A s \in Slots : Promoted(cd, i, above)[s].slave = cd[s].slave
<1> DEFINE j == Min(above)
           r == Promoted(cd, i, above)
<1>1. j \in above
  <2>1. above \in SUBSET Nat
    BY SlotFacts
  <2> QED BY <2>1, MinIsLeast
<1> HIDE DEF j
<1>2. cd[i].lrui \in Nat
  BY DEF Caches
<1>3. j \in Slots /\ cd[j].lrui = cd[i].lrui + 1 /\ j # i
  BY <1>1, <1>2
<1>4. r = [cd EXCEPT ![i].lrui = @ + 1, ![j].lrui = cd[i].lrui]
  BY DEF Promoted, j
<1> HIDE DEF r
<1>5. /\ r[i] = [slave |-> cd[i].slave, lrui |-> cd[j].lrui]
      /\ r[j] = [slave |-> cd[j].slave, lrui |-> cd[i].lrui]
      /\ \A s \in Slots : s # i /\ s # j => r[s] = cd[s]
      /\ DOMAIN r = Slots
  BY <1>3, <1>4 DEF Caches
<1>6. r \in Caches
  BY <1>3, <1>4 DEF Caches
<1>7. \A s \in Slots : r[s].slave = cd[s].slave
  BY <1>3, <1>5
<1>8. RankInv(r)
  BY <1>2, <1>3, <1>5, SlotFacts DEF RankInv, Caches
<1> QED BY <1>6, <1>7, <1>8 DEF r

\* A slot that gets its first slave ranks 1, the slots before it move up.
LEMMA AgedOK ==
    ASSUME NEW cd \in Caches, RankInv(cd), NEW slave \in Slaves,
           NEW victim \in Usable(slave),
           \A s \in Usable(slave) : cd[victim].lrui <= cd[s].lrui,
           \A s \in Usable(slave) : cd[s].lrui = cd[victim].lrui => victim <= s
    PROVE  LET r == [Aged(cd, Usable(slave), victim) EXCEPT ![victim].slave = slave]
           IN  r \in Caches /\ RankInv(r) /\ r[victim].slave = slave
<1> DEFINE a == Aged(cd, Usable(slave), victim)
           r == [a EXCEPT ![victim].slave = slave]
<1> USE SlotFacts
<1>1. a \in Caches
  BY DEF Aged, Caches
<1>2. \A s \in Slots : a[s].slave = cd[s].slave
  BY DEF Aged, Caches
<1>3. victim \in Slots /\ \A s \in Slots : cd[s].lrui \in Nat
  BY DEF Caches
<1>4. CASE cd[victim].lrui > 0
  <2>1. a = cd
    BY <1>4 DEF Aged
  <2> HIDE DEF a
  <2>2. r \in Caches /\ \A s \in Slots : r[s].lrui = cd[s].lrui
    BY <1>1, <2>1 DEF Caches
  <2>3. r[victim].slave = slave /\ \A s \in Slots : s # victim => r[s].slave = cd[s].slave
    BY <1>1, <2>1 DEF Caches
  <2> HIDE DEF r
  <2>4. RankInv(r)
    <3>1. \A s, u \in Slots : r[s].lrui = r[u].lrui /\ r[s].lrui > 0 => s = u
      BY <2>2 DEF RankInv
    <3>2. \A s \in Slots : r[s].lrui = 0 => r[s].slave = NoSlave
      BY <1>3, <1>4, <2>2, <2>3 DEF RankInv
    <3>3. r[SlotCount - 1].lrui > 0 => \A s \in Slots : r[s].lrui > 0
      BY <2>2 DEF RankInv
    <3> QED BY <3>1, <3>2, <3>3 DEF RankInv
  <2> QED BY <2>2, <2>3, <2>4 DEF r, a
<1>5. CASE cd[victim].lrui = 0
  <2>1. \A s \in Slots : a[s].lrui =
            IF s = victim \/ (s \in Usable(slave) /\ cd[s].lrui > 0)
            THEN cd[s].lrui + 1 ELSE cd[s].lrui
    BY <1>5 DEF Aged, Caches
  <2>2. cd[SlotCount - 1].lrui = 0
    BY <1>3, <1>5 DEF RankInv
  <2>3. \A s \in Slots : cd[s].lrui > 0 => s \in Usable(slave)
    BY <2>2
  <2> HIDE DEF a
  <2>4. r \in Caches /\ \A s \in Slots : r[s].lrui = a[s].lrui
    BY <1>1 DEF Caches
  <2>5. r[victim].slave = slave /\ \A s \in Slots : s # victim => r[s].slave = cd[s].slave
    BY <1>1, <1>2 DEF Caches
  <2> HIDE DEF r
  <2>6. r[victim].lrui = 1 /\ \A s \in Slots : s # victim =>
            r[s].lrui = IF cd[s].lrui > 0 THEN cd[s].lrui + 1 ELSE 0
    BY <1>3, <1>5, <2>1, <2>3, <2>4
  <2>7. \A s, u \in Slots : r[s].lrui = r[u].lrui /\ r[s].lrui > 0 => s = u
    BY <1>3, <2>6 DEF RankInv
  <2>8. \A s \in Slots : r[s].lrui = 0 => r[s].slave = NoSlave
    BY <1>3, <2>5, <2>6 DEF RankInv
  <2>9. ASSUME r[SlotCount - 1].lrui > 0, NEW s \in Slots PROVE r[s].lrui > 0
    \* The last slot is the victim only if every slot before it has a rank.
    <3>1. victim = SlotCount - 1
      BY <2>2, <2>6, <2>9
    <3>2. s # victim => s < SlotCount - 1 /\ s \in Usable(slave)
      BY <3>1 DEF Slots
    <3>3. s # victim => cd[s].lrui > 0
      BY <1>3, <1>5, <3>1, <3>2
    <3>4. CASE s = victim
      BY <2>6, <3>4
    <3>5. CASE s # victim
      <4>1. cd[s].lrui \in Nat /\ cd[s].lrui > 0
        BY <1>3, <3>3, <3>5
      <4>2. r[s].lrui = cd[s].lrui + 1
        BY <2>6, <3>5, <4>1
      <4> QED BY <4>1, <4>2
    <3> QED BY <3>4, <3>5
  <2> QED BY <2>4, <2>5, <2>7, <2>8, <2>9 DEF RankInv, r, a
<1> QED BY <1>4, <1>5 DEF Caches

\* si2c_update_lut_idx returns a slot that stands for the slave.
LEMMA UpdateLutOK ==
    ASSUME NEW cd \in Caches, RankInv(cd), NEW slave \in Slaves
    PROVE  LET u == UpdateLut(cd, slave) IN
           /\ u.idx \in Slots
           /\ u.cache \in Caches /\ RankInv(u.cache)
           /\ u.cache[u.idx].slave = slave
<1> DEFINE slots == Usable(slave)
           hits == {s \in slots : cd[s].slave = slave}
           ranks == {cd[s].lrui : s \in slots}
           lowest == Min(ranks)
           worst == {s \in slots : cd[s].lrui = lowest}
           victim == Min(worst)
           above == {s \in slots : cd[s].lrui = cd[Min(hits)].lrui + 1}
           hit == [idx |-> Min(hits),
                   cache |-> IF above = {} THEN cd ELSE Promoted(cd, Min(hits), above)]
           miss == [idx |-> victim,
                    cache |-> [Aged(cd, slots, victim) EXCEPT ![victim].slave = slave]]
<1>1. UpdateLut(cd, slave) = IF hits # {} THEN hit ELSE miss
  BY DEF UpdateLut
<1>2. slots \subseteq Slots /\ slots \in SUBSET Nat /\ 0 \in slots
  BY SlotFacts
<1>3. \A s \in Slots : cd[s].lrui \in Nat
  BY DEF Caches
<1> HIDE DEF slots
<1>4. CASE hits # {}
  <2> DEFINE i == Min(hits)
  <2>1. i \in hits
    <3>1. hits \in SUBSET Nat
      BY <1>2
    <3> HIDE DEF hits
    <3> QED BY <1>4, <3>1, MinIsLeast
  <2> HIDE DEF i
  <2>2. i \in Slots /\ cd[i].slave = slave
    BY <1>2, <2>1
  <2>3. cd[i].lrui > 0
    BY <1>3, <2>2, SlotFacts DEF RankInv
  <2>4. /\ above \in SUBSET Slots
        /\ \A s \in above : cd[s].lrui = cd[i].lrui + 1
    BY <1>2 DEF i
  <2> HIDE DEF above
  <2>5. above # {} =>
          /\ Promoted(cd, i, above) \in Caches
          /\ RankInv(Promoted(cd, i, above))
          /\ Promoted(cd, i, above)[i].slave = slave
    BY <2>2, <2>3, <2>4, PromotedOK
  <2>6. UpdateLut(cd, slave) =
          [idx |-> i, cache |-> IF above = {} THEN cd ELSE Promoted(cd, i, above)]
    BY <1>1, <1>4 DEF i
  <2> QED BY <2>2, <2>5, <2>6
<1>5. CASE hits = {}
  <2>1. lowest \in ranks /\ \A y \in ranks : lowest <= y
    <3>1. ranks \in SUBSET Nat /\ ranks # {}
      BY <1>2, <1>3
    <3> HIDE DEF ranks
    <3> QED BY <3>1, MinIsLeast
  <2>2. \A s \in slots : lowest <= cd[s].lrui
    BY <2>1
  <2> HIDE DEF lowest
  <2>3. victim \in worst /\ \A y \in worst : victim <= y
    <3>1. worst \in SUBSET Nat /\ worst # {}
      BY <1>2, <2>1
    <3> HIDE DEF worst
    <3> QED BY <3>1, MinIsLeast
  <2> HIDE DEF victim
  <2>4. /\ victim \in slots /\ victim \in Slots
        /\ \A s \in slots : cd[victim].lrui <= cd[s].lrui
        /\ \A s \in slots : cd[s].lrui = cd[victim].lrui => victim <= s
    BY <1>2, <2>2, <2>3
  <2>5. /\ miss.cache \in Caches /\ RankInv(miss.cache)
        /\ miss.cache[victim].slave = slave
    BY <2>4, AgedOK DEF slots
  <2>6. UpdateLut(cd, slave) = miss
    BY <1>1, <1>5
  <2>7. miss.idx = victim
    OBVIOUS
  <2> HIDE DEF miss
  <2> QED BY <2>4, <2>5, <2>6, <2>7
<1> QED BY <1>4, <1>5

-----------------------------------------------------------------------------
(* The driver *)

Luts == [Slots -> Slaves \cup {NoSlave}]

Commands == [id : Threads \X Nat, slave : Slaves \cup {NoSlave},
             want : Slaves \cup {NoSlave}, rd : BOOLEAN]

TypeInv ==
    /\ i2cc \in Caches
    /\ i2clut \in Luts \cup {NoLut}
    /\ lut \in Luts
    /\ core \in [Cores -> Seq(Commands)]
    /\ pc \in [Threads -> {"idle", "lookup", "make", "issue", "note", "wait", "read"}]
    /\ op \in [Threads -> Ops]
    /\ idx \in [Threads -> Slots]
    /\ mylut \in [Threads -> Luts \cup {NoLut}]
    /\ calls \in [Threads -> Nat]

\* Where a thread is tells what it is doing and to which core.
PcInv ==
    \A t \in Threads :
        /\ pc[t] \in {"lookup", "make", "note"} => op[t].core = "i2c"
        /\ pc[t] # "idle" => op[t].core \in Uses[t]
        /\ pc[t] = "issue" /\ op[t].core = "i2c" => mylut[t] \in Luts
        /\ pc[t] = "note" => mylut[t] \in Luts

\* From the lookup to the command, the slot a thread found stands for its slave:
\* in the cache, then in the table it made, then in the device.  The device has
\* the table the driver believes it has, but for the moment between the write
\* and the note of it.
SlotInv ==
    /\ \A t \in Threads :
        /\ pc[t] = "make" => i2cc[idx[t]].slave = op[t].slave
        /\ pc[t] = "issue" /\ op[t].core = "i2c" => mylut[t][idx[t]] = op[t].slave
        /\ pc[t] = "note" => lut = mylut[t]
    /\ i2clut # NoLut /\ (\A t \in Threads : pc[t] # "note") => lut = i2clut
    /\ \A k \in DOMAIN core["i2c"] : core["i2c"][k].slave = core["i2c"][k].want

BusInv == TypeInv /\ PcInv /\ RankInv(i2cc) /\ (Owned("i2c") => SlotInv)

LEMMA OpsFacts ==
    /\ NoOp \in Ops
    /\ \A o \in Ops : /\ o.core \in Cores /\ o.rd \in BOOLEAN
                      /\ o.slave \in Slaves \cup {NoSlave}
                      /\ o.core = "i2c" => o.slave \in Slaves
BY DEF NoOp, Ops, Cores

LEMMA InitBusInv == Init => BusInv
<1> SUFFICES ASSUME Init PROVE BusInv
  OBVIOUS
<1> USE DEF Init
<1>1. TypeInv
  <2>1. lut \in Luts
    BY DEF Luts
  <2> QED BY <2>1, OpsFacts, EmptyCacheOK, SlotFacts DEF TypeInv, Cores
<1>2. PcInv
  BY DEF PcInv
<1>3. SlotInv
  BY DEF SlotInv, Cores
<1> QED BY <1>1, <1>2, <1>3, EmptyCacheOK DEF BusInv

LEMMA LutIsNotEmpty == \A f \in Luts : f # NoLut
<1> SUFFICES ASSUME NEW f \in Luts, f = NoLut PROVE FALSE
  OBVIOUS
<1>1. DOMAIN f = Slots
  BY DEF Luts
<1>2. DOMAIN f = {}
  BY DEF NoLut
<1> QED BY <1>1, <1>2, SlotFacts

\* The thread that uses the I2C core is the only one that works on the table.
LEMMA OneUser ==
    ASSUME BusInv, Owned("i2c"), NEW t \in Threads, op[t].core = "i2c", pc[t] # "idle"
    PROVE  \A u \in Threads : u # t => pc[u] = "idle" \/ op[u].core # "i2c"
BY DEF BusInv, PcInv, Owned

\* An ioctl that returns leaves the table alone.
LEMMA ReturnStep ==
    ASSUME BusInv, NEW t \in Threads, Return(t), pc[t] # "note",
           UNCHANGED <<cached, device, calls>>
    PROVE  BusInv'
<1> USE DEF Return, cached, device
<1>1. TypeInv'
  BY OpsFacts, SlotFacts DEF BusInv, TypeInv
<1>2. PcInv'
  BY <1>1 DEF BusInv, TypeInv, PcInv
<1>3. Owned("i2c") => SlotInv'
  BY DEF BusInv, TypeInv, SlotInv
<1> QED BY <1>1, <1>2, <1>3 DEF BusInv, Owned

\* A step that changes neither table, cache, threads nor the commands accepted.
LEMMA OtherStep ==
    ASSUME BusInv, UNCHANGED <<cached, device, pc, locals, calls>>
    PROVE  BusInv'
BY DEF BusInv, TypeInv, PcInv, SlotInv, RankInv, Owned, cached, device, locals,
       Caches

\* Every step preserves the invariant.
LEMMA StepBusInv == BusInv /\ [Next]_vars => BusInv'
<1> SUFFICES ASSUME BusInv, [Next]_vars PROVE BusInv'
  OBVIOUS
<1> USE DEF cached, device, locals, counted
<1>1. CASE Claim
  <2> USE <1>1 DEF Claim
  <2>1. TypeInv' /\ RankInv(i2cc')
    BY EmptyCacheOK DEF BusInv, TypeInv
  <2>2. PcInv'
    BY DEF BusInv, PcInv
  <2>3. Owned("i2c") => SlotInv'
    BY DEF BusInv, SlotInv, TypeInv
  <2> QED BY <2>1, <2>2, <2>3 DEF BusInv, Owned
<1>2. ASSUME NEW t \in Threads, NEW o \in Ops, Call(t, o) PROVE BusInv'
  <2> USE <1>2 DEF Call
  <2>1. TypeInv'
    BY DEF BusInv, TypeInv
  <2>2. PcInv'
    BY <2>1, OpsFacts DEF BusInv, TypeInv, PcInv, Cores
  <2>3. Owned("i2c") => SlotInv'
    BY OpsFacts DEF BusInv, TypeInv, SlotInv, Cores
  <2> QED BY <2>1, <2>2, <2>3 DEF BusInv, Owned
<1>3. ASSUME NEW t \in Threads, I2cLookup(t) PROVE BusInv'
  <2> DEFINE u == UpdateLut(i2cc, op[t].slave)
  <2>1. op[t].core = "i2c" /\ op[t].slave \in Slaves /\ pc[t] = "lookup"
    BY <1>3, OpsFacts DEF BusInv, TypeInv, PcInv, I2cLookup
  <2>2. /\ u.idx \in Slots
        /\ u.cache \in Caches /\ RankInv(u.cache)
        /\ u.cache[u.idx].slave = op[t].slave
    BY <2>1, UpdateLutOK DEF BusInv, TypeInv
  <2>3. /\ i2cc' = u.cache /\ idx' = [idx EXCEPT ![t] = u.idx]
        /\ pc' = [pc EXCEPT ![t] = "make"]
        /\ UNCHANGED <<i2clut, counted, irq, bucket, device, op, mylut, calls, giveups>>
    BY <1>3 DEF I2cLookup
  <2> HIDE DEF u
  <2>4. TypeInv' /\ RankInv(i2cc')
    BY <2>2, <2>3 DEF BusInv, TypeInv
  <2>5. PcInv'
    BY <2>1, <2>3 DEF BusInv, TypeInv, PcInv
  <2>6. ASSUME Owned("i2c") PROVE SlotInv'
    <3>1. \A v \in Threads : v # t => pc[v] # "make"
      BY <2>1, <2>6, OneUser DEF BusInv, PcInv
    <3> QED BY <2>1, <2>2, <2>3, <2>6, <3>1 DEF BusInv, TypeInv, SlotInv
  <2> QED BY <2>4, <2>5, <2>6 DEF BusInv, Owned
<1>4. ASSUME NEW t \in Threads, I2cGetLut(t) PROVE BusInv'
  <2> USE <1>4 DEF I2cGetLut
  <2>1. GetLut(i2cc) \in Luts /\ \A s \in Slots : GetLut(i2cc)[s] = i2cc[s].slave
    BY DEF BusInv, TypeInv, Caches, Luts, GetLut
  <2>2. TypeInv'
    BY <2>1 DEF BusInv, TypeInv
  <2>3. PcInv'
    BY <2>1 DEF BusInv, TypeInv, PcInv
  <2>4. Owned("i2c") => SlotInv'
    BY <2>1 DEF BusInv, TypeInv, SlotInv
  <2> QED BY <2>2, <2>3, <2>4 DEF BusInv, Owned
<1>5. ASSUME NEW t \in Threads, I2cRefuse(t) \/ GiveUp(t) \/ ReadBack(t) PROVE BusInv'
  BY <1>5, ReturnStep DEF I2cRefuse, GiveUp, ReadBack
<1>6. ASSUME NEW t \in Threads, NEW slave \in Slaves \cup {NoSlave}
      PROVE  Command(t, slave) \in Commands
  BY OpsFacts DEF BusInv, TypeInv, Command, Commands, Id
<1>7. ASSUME NEW t \in Threads, SpiIssue(t) PROVE BusInv'
  <2> USE <1>7 DEF SpiIssue
  <2>1. core' \in [Cores -> Seq(Commands)] /\ core'["i2c"] = core["i2c"]
    BY <1>6 DEF BusInv, TypeInv, Cores
  <2>2. TypeInv'
    BY <2>1 DEF BusInv, TypeInv
  <2>3. PcInv'
    BY DEF BusInv, TypeInv, PcInv
  <2>4. Owned("i2c") => SlotInv'
    BY <2>1 DEF BusInv, TypeInv, SlotInv
  <2> QED BY <2>2, <2>3, <2>4 DEF BusInv, Owned
<1>8. ASSUME NEW t \in Threads, I2cIssue(t) PROVE BusInv'
  <2> DEFINE new == Command(t, lut'[idx[t]])
  <2>1. /\ pc[t] = "issue" /\ op[t].core = "i2c" /\ mylut[t] \in Luts /\ idx[t] \in Slots
        /\ lut' = IF LutSent(t) THEN lut ELSE mylut[t]
    BY <1>8 DEF I2cIssue, BusInv, PcInv, TypeInv
  <2>2. lut' \in Luts /\ lut'[idx[t]] \in Slaves \cup {NoSlave}
    BY <2>1 DEF BusInv, TypeInv, Luts
  <2>3. new \in Commands /\ new.slave = lut'[idx[t]] /\ new.want = op[t].slave
    BY <1>6, <2>2 DEF Command
  <2> HIDE DEF new
  <2>4. /\ core' = [core EXCEPT !["i2c"] = Append(@, new)]
        /\ UNCHANGED <<i2cc, i2clut, calls>>
        /\ \/ pc' = [pc EXCEPT ![t] = "note"] /\ UNCHANGED locals /\ ~LutSent(t)
           \/ pc' = [pc EXCEPT ![t] = "wait"] /\ UNCHANGED locals /\ LutSent(t)
           \/ Return(t) /\ LutSent(t)
    BY <1>8 DEF I2cIssue, WaitOrReturn, new
  <2>5. core' \in [Cores -> Seq(Commands)]
    BY <2>3, <2>4 DEF BusInv, TypeInv, Cores
  <2>6. TypeInv'
    <3>1. /\ pc' \in [Threads -> {"idle", "lookup", "make", "issue", "note", "wait",
                                  "read"}]
          /\ op' \in [Threads -> Ops] /\ idx' \in [Threads -> Slots]
          /\ mylut' \in [Threads -> Luts \cup {NoLut}]
      <4>1. CASE UNCHANGED locals
        BY <2>4, <4>1 DEF BusInv, TypeInv, Return
      <4>2. CASE Return(t)
        BY <4>2, OpsFacts, SlotFacts DEF BusInv, TypeInv, Return
      <4> QED BY <2>4, <4>1, <4>2
    <3> QED BY <2>2, <2>4, <2>5, <3>1 DEF BusInv, TypeInv
  <2>7. PcInv'
    BY <2>1, <2>4, OpsFacts, ZenonT(40) DEF BusInv, TypeInv, PcInv, Return
  <2>8. ASSUME Owned("i2c") PROVE SlotInv'
    <3>1. \A v \in Threads : v # t => pc[v] # "note"
      BY <2>1, <2>8, OneUser DEF BusInv, PcInv
    <3>2. \A v \in Threads : pc[v] # "note"
      BY <2>1, <3>1
    <3>3. lut' = mylut[t]
      BY <2>1, <2>8, <3>2, LutIsNotEmpty DEF BusInv, SlotInv, LutSent
    <3>4. new.slave = new.want
      BY <2>1, <2>3, <2>8, <3>3 DEF BusInv, SlotInv
    <3>5. \A k \in DOMAIN core'["i2c"] : core'["i2c"][k].slave = core'["i2c"][k].want
      <4>1. core["i2c"] \in Seq(Commands) /\ core'["i2c"] = Append(core["i2c"], new)
        BY <2>4 DEF BusInv, TypeInv, Cores
      <4>2. \A k \in 1..Len(core["i2c"]) : core["i2c"][k].slave = core["i2c"][k].want
        BY <2>8, <4>1 DEF BusInv, SlotInv
      <4>3. ASSUME NEW k \in 1..Len(core["i2c"]) + 1
            PROVE  Append(core["i2c"], new)[k].slave = Append(core["i2c"], new)[k].want
        BY <2>3, <3>4, <4>1, <4>2
      <4> QED BY <2>3, <4>1, <4>3
    <3>6. \A v \in Threads :
            /\ pc'[v] = "make" => i2cc'[idx'[v]].slave = op'[v].slave
            /\ pc'[v] = "issue" /\ op'[v].core = "i2c" => mylut'[v][idx'[v]] = op'[v].slave
      BY <2>1, <2>4, <2>8 DEF BusInv, TypeInv, SlotInv, Return
    <3>7. \A v \in Threads : pc'[v] = "note" => lut' = mylut'[v]
      BY <2>1, <2>4, <3>2, <3>3 DEF BusInv, TypeInv, Return
    <3>8. i2clut' # NoLut /\ (\A v \in Threads : pc'[v] # "note") => lut' = i2clut'
      BY <2>1, <2>4, <3>3 DEF BusInv, TypeInv, LutSent
    <3> QED BY <3>5, <3>6, <3>7, <3>8 DEF SlotInv
  <2> QED BY <2>4, <2>6, <2>7, <2>8 DEF BusInv, Owned
<1>9. ASSUME NEW t \in Threads, I2cNote(t) PROVE BusInv'
  <2>1. /\ pc[t] = "note" /\ op[t].core = "i2c" /\ mylut[t] \in Luts
        /\ i2clut' = mylut[t] /\ UNCHANGED <<i2cc, device, calls>>
        /\ \/ pc' = [pc EXCEPT ![t] = "wait"] /\ UNCHANGED locals
           \/ Return(t)
    BY <1>9 DEF I2cNote, WaitOrReturn, BusInv, PcInv
  <2>2. TypeInv'
    <3>1. CASE UNCHANGED locals
      BY <2>1, <3>1 DEF BusInv, TypeInv, Return
    <3>2. CASE Return(t)
      BY <2>1, <3>2, OpsFacts, SlotFacts DEF BusInv, TypeInv, Return
    <3> QED BY <2>1, <3>1, <3>2
  <2>3. PcInv'
    BY <2>1 DEF BusInv, TypeInv, PcInv, Return
  <2>4. Owned("i2c") => SlotInv'
    BY <2>1 DEF BusInv, TypeInv, SlotInv, Return
  <2> QED BY <2>1, <2>2, <2>3, <2>4 DEF BusInv, Owned
<1>10. ASSUME NEW t \in Threads, WaitDone(t) PROVE BusInv'
  <2> USE <1>10 DEF WaitDone
  <2>1. TypeInv'
    BY DEF BusInv, TypeInv
  <2>2. PcInv'
    BY DEF BusInv, TypeInv, PcInv
  <2>3. Owned("i2c") => SlotInv'
    BY DEF BusInv, TypeInv, SlotInv
  <2> QED BY <2>1, <2>2, <2>3 DEF BusInv, Owned
<1>11. ASSUME NEW c \in Cores, CoreDone(c) PROVE BusInv'
  <2> USE <1>11 DEF CoreDone
  <2>1. core[c] \in Seq(Commands) /\ core[c] # << >>
    BY DEF BusInv, TypeInv
  <2>2. /\ Tail(core[c]) \in Seq(Commands)
        /\ Len(Tail(core[c])) = Len(core[c]) - 1
        /\ \A k \in 1..Len(core[c]) - 1 : Tail(core[c])[k] = core[c][k + 1]
    BY <2>1
  <2>3. core' = [core EXCEPT ![c] = Tail(core[c])]
    OBVIOUS
  <2>4. TypeInv'
    BY <2>2, <2>3 DEF BusInv, TypeInv
  <2>5. PcInv'
    BY DEF BusInv, PcInv
  <2>6. ASSUME SlotInv PROVE SlotInv'
    <3>1. \A k \in DOMAIN core'["i2c"] : core'["i2c"][k].slave = core'["i2c"][k].want
      <4>1. CASE c = "i2c"
        <5>1. core'["i2c"] = Tail(core[c])
          BY <2>3, <4>1 DEF BusInv, TypeInv, Cores
        <5>2. DOMAIN Tail(core[c]) = 1..Len(core[c]) - 1
          BY <2>2
        <5>3. \A k \in 1..Len(core[c]) : core[c][k].slave = core[c][k].want
          BY <2>1, <2>6, <4>1 DEF SlotInv
        <5>4. ASSUME NEW k \in 1..Len(core[c]) - 1
              PROVE  Tail(core[c])[k].slave = Tail(core[c])[k].want
          <6>1. Len(core[c]) \in Nat /\ k + 1 \in 1..Len(core[c])
            BY <2>1
          <6> QED BY <2>2, <5>3, <6>1
        <5> QED BY <5>1, <5>2, <5>4
      <4>2. CASE c # "i2c"
        BY <2>3, <2>6, <4>2 DEF BusInv, TypeInv, SlotInv, Cores
      <4> QED BY <4>1, <4>2
    <3> QED BY <2>6, <3>1 DEF SlotInv
  <2> QED BY <2>4, <2>5, <2>6 DEF BusInv, Owned
<1>12. CASE IrqStore \/ IrqCount \/ UNCHANGED vars
  BY <1>12, OtherStep DEF IrqStore, IrqCount, vars
<1> QED
  BY <1>1, <1>2, <1>3, <1>4, <1>5, <1>7, <1>8, <1>9, <1>10, <1>11, <1>12
  DEF Next, Device, Transaction

\* The invariant of the I2C table holds in every state of the driver, for any
\* number of slots, slaves, threads and transactions.
THEOREM BusInvariant == Spec => []BusInv
BY InitBusInv, StepBusInv, PTL DEF Spec

\* Every I2C command reaches the slave it was meant for, if one thread uses the
\* core (PCIE_DRIVER_SI2C_TRANSACT), whatever slots were reused.
THEOREM CommandsReachSlave == Spec => []SlaveReached
<1>1. BusInv => SlaveReached
  BY DEF BusInv, SlotInv, SlaveReached
<1> QED BY <1>1, BusInvariant, PTL

\* The slots in use always have different ranks (si2c_update_lut_idx).
THEOREM LutRanksDistinct == Spec => []RanksDistinct
<1>1. BusInv => RanksDistinct
  BY DEF BusInv, RankInv, RanksDistinct
<1> QED BY <1>1, BusInvariant, PTL

-----------------------------------------------------------------------------
(* Answers.  A read is under way in one place at a time: in the core, in   *)
(* the bucket, or counted and stored.                                      *)

Ids == Threads \X Nat
Events == [core : Cores, id : Ids]

EventTypes ==
    /\ irq_ev_cnt \in [Cores -> Nat] /\ giveups \in [Cores -> Nat]
    /\ DOMAIN rb_ev_data = Cores
    /\ bucket \in Seq(Events)
    /\ irq \in {"idle", "stored"} /\ (irq = "stored" => bucket # <<>>)

NoReads(c) == \A k \in DOMAIN core[c] : ~core[c][k].rd
NoEvents(c) == \A k \in DOMAIN bucket : bucket[k].core # c

\* Nothing of the core is under way that a wait could take for its answer.
Quiet(c) == NoReads(c) /\ NoEvents(c) /\ irq_ev_cnt[c] = 0

InCore(c, id) ==
    /\ \E k \in DOMAIN core[c] :
          /\ core[c][k].rd /\ core[c][k].id = id
          /\ \A j \in DOMAIN core[c] : core[c][j].rd => j = k
    /\ NoEvents(c) /\ irq_ev_cnt[c] = 0

InBucket(c, id) ==
    /\ \E k \in DOMAIN bucket :
          /\ bucket[k].core = c /\ bucket[k].id = id
          /\ \A j \in DOMAIN bucket : bucket[j].core = c => j = k
          /\ k = 1 /\ irq = "stored" => rb_ev_data[c] = id
    /\ NoReads(c) /\ irq_ev_cnt[c] = 0

Stored(c, id) ==
    /\ irq_ev_cnt[c] > 0 /\ rb_ev_data[c] = id
    /\ NoReads(c) /\ NoEvents(c)

Under(c, id) == InCore(c, id) \/ InBucket(c, id) \/ Stored(c, id)

\* The command of the thread's transaction is out and its answer is due.
Asked(t) == pc[t] = "wait" \/ (pc[t] = "note" /\ op[t].rd)

On(t, c) == pc[t] # "idle" /\ op[t].core = c

Stage(t, c) ==
    /\ pc[t] = "wait" => op[t].rd
    /\ Asked(t) => Under(c, Id(t))
    /\ ~Asked(t) => Quiet(c)
    /\ pc[t] = "read" => rb_ev_data[c] = Id(t)

CoreStage(c) ==
    /\ \A t \in Threads : On(t, c) => Stage(t, c)
    /\ (\A t \in Threads : ~On(t, c)) => Quiet(c)

AnswerInv == EventTypes /\ \A c \in Cores : Owned(c) /\ giveups[c] = 0 => CoreStage(c)

LEMMA AnswerInit == Init => AnswerInv
<1> SUFFICES ASSUME Init PROVE AnswerInv
  OBVIOUS
<1>1. EventTypes
  BY DEF Init, EventTypes
<1>2. ASSUME NEW c \in Cores PROVE CoreStage(c)
  <2>1. Quiet(c)
    BY DEF Init, Quiet, NoReads, NoEvents
  <2>2. \A t \in Threads : ~On(t, c)
    BY DEF Init, On
  <2> QED
    BY <2>1, <2>2 DEF CoreStage
<1> QED
  BY <1>1, <1>2 DEF AnswerInv

LEMMA EventTypesStep == BusInv /\ EventTypes /\ [Next]_vars => EventTypes'
<1> SUFFICES ASSUME BusInv, EventTypes, [Next]_vars PROVE EventTypes'
  OBVIOUS
<1> USE DEF counted
<1>1. ASSUME UNCHANGED <<irq_ev_cnt, rb_ev_data, irq, bucket, giveups>> PROVE EventTypes'
  BY <1>1 DEF EventTypes
<1>2. ASSUME NEW t \in Threads, Transaction(t) PROVE EventTypes'
  <2>1. CASE WaitDone(t)
    <3>1. op[t].core \in Cores
      BY OpsFacts DEF BusInv, TypeInv
    <3> QED
      BY <2>1, <3>1 DEF WaitDone, EventTypes, Taken
  <2>2. CASE ~WaitDone(t)
    BY <1>1, <1>2, <2>2 DEF Transaction, I2cLookup, I2cGetLut, I2cRefuse, SpiIssue, I2cIssue,
                            I2cNote, ReadBack
  <2> QED
    BY <2>1, <2>2
<1>3. ASSUME NEW t \in Threads, GiveUp(t) PROVE EventTypes'
  <2>1. op[t].core \in Cores
    BY OpsFacts DEF BusInv, TypeInv
  <2> QED
    BY <1>3, <2>1, SMTT(30) DEF GiveUp, EventTypes
<1>4. ASSUME NEW t \in Threads, NEW o \in Ops, Call(t, o) PROVE EventTypes'
  BY <1>1, <1>4 DEF Call
<1>5. CASE Claim
  BY <1>1, <1>5 DEF Claim
<1>6. CASE IrqStore
  BY <1>6 DEF IrqStore, EventTypes
<1>7. CASE IrqCount
  <2>1. Head(bucket) \in Events /\ Tail(bucket) \in Seq(Events)
    BY <1>7 DEF IrqCount, EventTypes
  <2>2. Head(bucket).core \in Cores
    BY <2>1 DEF Events
  <2> QED
    BY <1>7, <2>1, <2>2 DEF IrqCount, EventTypes
<1>8. ASSUME NEW c \in Cores, CoreDone(c) PROVE EventTypes'
  <2>1. Head(core[c]) \in Commands
    BY <1>8 DEF CoreDone, BusInv, TypeInv
  <2>2. [core |-> c, id |-> Head(core[c]).id] \in Events
    BY <2>1 DEF Commands, Events, Ids
  <2>3. bucket' \in Seq(Events) /\ (bucket # <<>> => bucket' # <<>>)
    <3>1. bucket \in Seq(Events)
      BY DEF EventTypes
    <3>2. \E e \in Events : bucket' = bucket \/ bucket' = Append(bucket, e)
      BY <1>8, <2>2 DEF CoreDone
    <3>3. ASSUME NEW e \in Events
          PROVE  Append(bucket, e) \in Seq(Events) /\ Append(bucket, e) # <<>>
      <4>1. Append(bucket, e) \in Seq(Events) /\ Len(Append(bucket, e)) = Len(bucket) + 1
        BY <3>1
      <4>2. Len(bucket) \in Nat
        BY <3>1
      <4> QED
        BY <4>1, <4>2
    <3> QED
      BY <3>1, <3>2, <3>3
  <2> QED
    BY <1>8, <2>3 DEF CoreDone, EventTypes
<1>9. CASE UNCHANGED vars
  BY <1>1, <1>9 DEF vars
<1> QED
  BY <1>2, <1>3, <1>4, <1>5, <1>6, <1>7, <1>8, <1>9 DEF Next, Device

\* What a step does to a core that it leaves alone.
LEMMA CoreKept ==
    ASSUME NEW c \in Cores, UNCHANGED <<core[c], bucket, irq, irq_ev_cnt[c], rb_ev_data[c]>>
    PROVE  /\ Quiet(c) => Quiet(c)'
           /\ \A id : Under(c, id) => Under(c, id)'
<1>1. NoReads(c)' = NoReads(c) /\ NoEvents(c)' = NoEvents(c)
  BY DEF NoReads, NoEvents
<1>2. Quiet(c) => Quiet(c)'
  BY <1>1 DEF Quiet
<1>3. ASSUME NEW id, Under(c, id) PROVE Under(c, id)'
  <2>1. InCore(c, id) => InCore(c, id)'
    BY <1>1 DEF InCore
  <2>2. InBucket(c, id) => InBucket(c, id)'
    BY <1>1 DEF InBucket
  <2>3. Stored(c, id) => Stored(c, id)'
    BY <1>1 DEF Stored
  <2> QED
    BY <1>3, <2>1, <2>2, <2>3 DEF Under
<1> QED
  BY <1>2, <1>3

LEMMA TailFacts ==
    ASSUME NEW S, NEW q \in Seq(S), q # <<>>
    PROVE  /\ Len(q) \in Nat \ {0} /\ DOMAIN q = 1..Len(q) /\ 1 \in DOMAIN q /\ Head(q) = q[1]
           /\ DOMAIN Tail(q) = 1..(Len(q) - 1)
           /\ \A k \in DOMAIN Tail(q) : k + 1 \in DOMAIN q /\ k + 1 # 1 /\ Tail(q)[k] = q[k + 1]
           /\ \A k \in DOMAIN q : k # 1 => k - 1 \in DOMAIN Tail(q) /\ Tail(q)[k - 1] = q[k]
<1>1. Len(q) \in Nat \ {0} /\ DOMAIN q = 1..Len(q) /\ Head(q) = q[1]
  OBVIOUS
<1>2. /\ DOMAIN Tail(q) = 1..(Len(q) - 1)
      /\ \A k \in 1..(Len(q) - 1) : Tail(q)[k] = q[k + 1]
  BY <1>1
<1>3. \A k \in 1..(Len(q) - 1) : k + 1 \in 1..Len(q) /\ k + 1 # 1
  BY <1>1
<1>4. \A k \in 1..Len(q) : k # 1 => k - 1 \in 1..(Len(q) - 1) /\ (k - 1) + 1 = k
  BY <1>1
<1>5. 1 \in 1..Len(q)
  BY <1>1
<1> QED
  BY <1>1, <1>2, <1>3, <1>4, <1>5

LEMMA AppendFacts ==
    ASSUME NEW S, NEW q \in Seq(S), NEW e
    PROVE  /\ DOMAIN q = 1..Len(q) /\ Len(q) \in Nat
           /\ DOMAIN Append(q, e) = 1..(Len(q) + 1) /\ Append(q, e)[Len(q) + 1] = e
           /\ \A k \in DOMAIN q : k \in DOMAIN Append(q, e) /\ Append(q, e)[k] = q[k]
           /\ \A k \in DOMAIN Append(q, e) : k \in DOMAIN q \/ k = Len(q) + 1
           /\ Len(q) + 1 \in DOMAIN Append(q, e) /\ Len(q) + 1 \notin DOMAIN q
<1>1. /\ DOMAIN q = 1..Len(q) /\ Len(q) \in Nat
      /\ DOMAIN Append(q, e) = 1..(Len(q) + 1) /\ Append(q, e)[Len(q) + 1] = e
      /\ \A k \in 1..Len(q) : Append(q, e)[k] = q[k]
  OBVIOUS
<1>2. /\ \A k \in 1..Len(q) : k \in 1..(Len(q) + 1)
      /\ \A k \in 1..(Len(q) + 1) : k \in 1..Len(q) \/ k = Len(q) + 1
      /\ Len(q) + 1 \in 1..(Len(q) + 1) /\ Len(q) + 1 \notin 1..Len(q)
  BY <1>1
<1> QED
  BY <1>1, <1>2

\* What a step leaves of the answers of a core.
Keeps(c) ==
    /\ Quiet(c) => Quiet(c)' /\ rb_ev_data'[c] = rb_ev_data[c]
    /\ \A id : Under(c, id) => Under(c, id)'

\* A command of another core is done.
LEMMA OtherCoreDone ==
    ASSUME BusInv, EventTypes, NEW c \in Cores, NEW d \in Cores, d # c, CoreDone(d)
    PROVE  Keeps(c)
<1>1. /\ core'[c] = core[c] /\ UNCHANGED <<irq_ev_cnt, rb_ev_data, irq>>
      /\ bucket' = bucket \/ \E e : e.core = d /\ bucket' = Append(bucket, e)
  BY DEF CoreDone, counted, BusInv, TypeInv
<1>2. CASE bucket' = bucket
  BY <1>1, <1>2, CoreKept DEF Keeps
<1>3. ASSUME NEW e, e.core = d, bucket' = Append(bucket, e) PROVE Keeps(c)
  <2>1. bucket \in Seq(Events)
    BY DEF EventTypes
  <2>2. /\ \A k \in DOMAIN bucket : k \in DOMAIN bucket' /\ bucket'[k] = bucket[k]
        /\ \A k \in DOMAIN bucket' : k \in DOMAIN bucket \/ bucket'[k].core # c
    BY <1>3, <2>1, AppendFacts
  <2>3. NoEvents(c) => NoEvents(c)'
    BY <2>2 DEF NoEvents
  <2>4. NoReads(c)' = NoReads(c)
    BY <1>1 DEF NoReads
  <2>5. Quiet(c) => Quiet(c)'
    BY <1>1, <2>3, <2>4 DEF Quiet
  <2>6. ASSUME NEW id, Under(c, id) PROVE Under(c, id)'
    <3>1. InCore(c, id) => InCore(c, id)'
      BY <1>1, <2>3 DEF InCore
    <3>2. Stored(c, id) => Stored(c, id)'
      BY <1>1, <2>3, <2>4 DEF Stored
    <3>3. InBucket(c, id) => InBucket(c, id)'
      BY <1>1, <2>2, <2>4 DEF InBucket
    <3> QED
      BY <2>6, <3>1, <3>2, <3>3 DEF Under
  <2> QED
    BY <1>1, <2>5, <2>6 DEF Keeps
<1> QED
  BY <1>1, <1>2, <1>3

\* A command of the core is done.
LEMMA OwnCoreDone ==
    ASSUME BusInv, EventTypes, NEW c \in Cores, CoreDone(c)
    PROVE  Keeps(c)
<1> DEFINE q == core[c]
<1>1. /\ q \in Seq(Commands) /\ q # <<>> /\ core'[c] = Tail(q)
      /\ UNCHANGED <<irq_ev_cnt, rb_ev_data, irq>>
  BY DEF CoreDone, counted, BusInv, TypeInv
<1>2. /\ Head(q).rd => bucket' = Append(bucket, [core |-> c, id |-> Head(q).id])
      /\ ~Head(q).rd => bucket' = bucket
  BY DEF CoreDone
<1>3. /\ 1 \in DOMAIN q /\ Head(q) = q[1]
      /\ \A k \in DOMAIN core'[c] : k + 1 \in DOMAIN q /\ k + 1 # 1 /\ core'[c][k] = q[k + 1]
      /\ \A k \in DOMAIN q : k # 1 => k - 1 \in DOMAIN core'[c] /\ core'[c][k - 1] = q[k]
  BY <1>1, TailFacts
<1>4. ASSUME NoReads(c) PROVE NoReads(c)' /\ bucket' = bucket
  BY <1>2, <1>3, <1>4 DEF NoReads
<1>5. bucket' = bucket => NoEvents(c)' = NoEvents(c)
  BY DEF NoEvents
<1>6. Quiet(c) => Quiet(c)'
  BY <1>1, <1>4, <1>5 DEF Quiet
<1>7. ASSUME NEW id, InCore(c, id) PROVE Under(c, id)'
  <2>1. PICK k \in DOMAIN q : /\ q[k].rd /\ q[k].id = id
                              /\ \A j \in DOMAIN q : q[j].rd => j = k
    BY <1>7 DEF InCore
  <2>2. NoEvents(c) /\ irq_ev_cnt[c] = 0
    BY <1>7 DEF InCore
  <2>3. CASE k = 1
    <3>1. bucket' = Append(bucket, [core |-> c, id |-> id])
      BY <1>2, <1>3, <2>1, <2>3
    <3>2. NoReads(c)'
      BY <1>3, <2>1, <2>3 DEF NoReads
    <3>3. bucket \in Seq(Events)
      BY DEF EventTypes
    <3> DEFINE n == Len(bucket) + 1
               e == [core |-> c, id |-> id]
    <3>4. /\ n \in DOMAIN bucket' /\ bucket'[n] = e
          /\ \A j \in DOMAIN bucket' : j # n => j \in DOMAIN bucket /\ bucket'[j] = bucket[j]
      BY <3>1, <3>3, AppendFacts
    <3>5. \A j \in DOMAIN bucket' : bucket'[j].core = c => j = n
      BY <2>2, <3>4 DEF NoEvents
    <3>6. n = 1 => bucket = <<>>
      BY <3>3
    <3>7. ~(n = 1 /\ irq' = "stored")
      BY <1>1, <3>6 DEF EventTypes
    <3>8. bucket'[n].core = c /\ bucket'[n].id = id
      BY <3>4
    <3> HIDE DEF n
    <3>9. InBucket(c, id)'
      BY <1>1, <2>2, <3>2, <3>4, <3>5, <3>7, <3>8 DEF InBucket
    <3> QED
      BY <3>9 DEF Under
  <2>4. CASE k # 1
    <3>1. ~q[1].rd
      BY <1>3, <2>1, <2>4
    <3>2. bucket' = bucket
      BY <1>2, <1>3, <3>1
    <3>3. k - 1 \in DOMAIN core'[c] /\ core'[c][k - 1] = q[k]
      BY <1>3, <2>4
    <3>4. \A j \in DOMAIN core'[c] : core'[c][j].rd => j = k - 1
      <4> TAKE j \in DOMAIN core'[c]
      <4>1. j + 1 \in DOMAIN q /\ core'[c][j] = q[j + 1] /\ j \in Int /\ k \in Int
        BY <1>1, <1>3, TailFacts
      <4>2. core'[c][j].rd => j + 1 = k
        BY <2>1, <4>1
      <4> QED
        BY <4>1, <4>2
    <3>5. InCore(c, id)'
      BY <1>1, <1>5, <2>1, <2>2, <3>2, <3>3, <3>4 DEF InCore
    <3> QED
      BY <3>5 DEF Under
  <2> QED
    BY <2>3, <2>4
<1>8. ASSUME NEW id, InBucket(c, id) PROVE InBucket(c, id)'
  <2>1. NoReads(c)' /\ bucket' = bucket
    BY <1>4, <1>8 DEF InBucket
  <2> QED
    BY <1>1, <1>8, <2>1 DEF InBucket
<1>9. ASSUME NEW id, Stored(c, id) PROVE Stored(c, id)'
  <2>1. NoReads(c)' /\ bucket' = bucket
    BY <1>4, <1>9 DEF Stored
  <2> QED
    BY <1>1, <1>5, <1>9, <2>1 DEF Stored
<1> QED
  BY <1>1, <1>6, <1>7, <1>8, <1>9 DEF Keeps, Under

LEMMA StoreKeeps ==
    ASSUME EventTypes, NEW c \in Cores, IrqStore PROVE Keeps(c)
<1>1. /\ UNCHANGED <<irq_ev_cnt, bucket, core>> /\ irq = "idle" /\ bucket # <<>>
      /\ rb_ev_data' = [rb_ev_data EXCEPT ![Head(bucket).core] = Head(bucket).id]
  BY DEF IrqStore, device
<1>2. 1 \in DOMAIN bucket /\ Head(bucket) = bucket[1]
  BY <1>1 DEF EventTypes
<1>3. /\ bucket[1].core # c => rb_ev_data'[c] = rb_ev_data[c]
      /\ bucket[1].core = c => rb_ev_data'[c] = bucket[1].id
  BY <1>1, <1>2 DEF EventTypes
<1>4. NoReads(c)' = NoReads(c) /\ NoEvents(c)' = NoEvents(c)
  BY <1>1 DEF NoReads, NoEvents
<1>5. NoEvents(c) => rb_ev_data'[c] = rb_ev_data[c]
  BY <1>2, <1>3 DEF NoEvents
<1>6. Quiet(c) => Quiet(c)' /\ rb_ev_data'[c] = rb_ev_data[c]
  BY <1>1, <1>4, <1>5 DEF Quiet
<1>7. ASSUME NEW id, Under(c, id) PROVE Under(c, id)'
  <2>1. InCore(c, id) => InCore(c, id)'
    BY <1>1, <1>4 DEF InCore
  <2>2. Stored(c, id) => Stored(c, id)'
    BY <1>1, <1>4, <1>5 DEF Stored
  <2>3. ASSUME InBucket(c, id) PROVE InBucket(c, id)'
    <3>1. PICK k \in DOMAIN bucket : /\ bucket[k].core = c /\ bucket[k].id = id
                                     /\ \A j \in DOMAIN bucket : bucket[j].core = c => j = k
      BY <2>3 DEF InBucket
    <3>2. k = 1 => rb_ev_data'[c] = id
      BY <1>3, <3>1
    <3> QED
      BY <1>1, <1>4, <2>3, <3>1, <3>2 DEF InBucket
  <2> QED
    BY <1>7, <2>1, <2>2, <2>3 DEF Under
<1> QED
  BY <1>6, <1>7 DEF Keeps

LEMMA CountKeeps ==
    ASSUME EventTypes, NEW c \in Cores, IrqCount PROVE Keeps(c)
<1>1. /\ UNCHANGED <<rb_ev_data, core>> /\ irq = "stored" /\ irq' = "idle" /\ bucket # <<>>
      /\ bucket' = Tail(bucket)
      /\ irq_ev_cnt' = [irq_ev_cnt EXCEPT ![Head(bucket).core] = @ + 1]
  BY DEF IrqCount, device, EventTypes
<1>2. /\ 1 \in DOMAIN bucket /\ Head(bucket) = bucket[1]
      /\ \A k \in DOMAIN bucket' : k \in Nat /\ k + 1 \in DOMAIN bucket /\ k + 1 # 1
                                   /\ bucket'[k] = bucket[k + 1]
      /\ \A k \in DOMAIN bucket : k \in Nat /\ (k # 1 => /\ k - 1 \in DOMAIN bucket'
                                                        /\ bucket'[k - 1] = bucket[k])
  <2>1. bucket \in Seq(Events)
    BY DEF EventTypes
  <2> QED
    BY <1>1, <2>1, TailFacts
<1>3. /\ bucket[1].core # c => irq_ev_cnt'[c] = irq_ev_cnt[c]
      /\ bucket[1].core = c => irq_ev_cnt'[c] = irq_ev_cnt[c] + 1
      /\ irq_ev_cnt[c] \in Nat
  BY <1>1, <1>2 DEF EventTypes
<1>4. NoReads(c)' = NoReads(c)
  BY <1>1 DEF NoReads
<1>5. NoEvents(c) => NoEvents(c)' /\ irq_ev_cnt'[c] = irq_ev_cnt[c]
  BY <1>2, <1>3 DEF NoEvents
<1>6. Quiet(c) => Quiet(c)'
  BY <1>4, <1>5 DEF Quiet
<1>7. ASSUME NEW id, Under(c, id) PROVE Under(c, id)'
  <2>1. InCore(c, id) => InCore(c, id)'
    BY <1>1, <1>5 DEF InCore
  <2>2. Stored(c, id) => Stored(c, id)'
    BY <1>1, <1>4, <1>5 DEF Stored
  <2>3. ASSUME InBucket(c, id) PROVE Under(c, id)'
    <3>1. PICK k \in DOMAIN bucket : /\ bucket[k].core = c /\ bucket[k].id = id
                                     /\ \A j \in DOMAIN bucket : bucket[j].core = c => j = k
                                     /\ k = 1 /\ irq = "stored" => rb_ev_data[c] = id
      BY <2>3 DEF InBucket
    <3>2. NoReads(c) /\ irq_ev_cnt[c] = 0
      BY <2>3 DEF InBucket
    <3>3. CASE k = 1
      <4>1. NoEvents(c)'
        BY <1>2, <3>1, <3>3 DEF NoEvents
      <4>2. irq_ev_cnt'[c] > 0 /\ rb_ev_data'[c] = id
        BY <1>1, <1>3, <3>1, <3>3
      <4> QED
        BY <1>4, <3>2, <4>1, <4>2 DEF Under, Stored
    <3>4. CASE k # 1
      <4>1. bucket[1].core # c
        BY <1>2, <3>1, <3>4
      <4>2. k - 1 \in DOMAIN bucket' /\ bucket'[k - 1] = bucket[k]
        BY <1>2, <3>4
      <4>3. \A j \in DOMAIN bucket' : bucket'[j].core = c => j = k - 1
        <5> TAKE j \in DOMAIN bucket'
        <5>1. bucket'[j].core = c => j + 1 = k
          BY <1>2, <3>1
        <5> QED
          BY <1>2, <5>1
      <4>4. InBucket(c, id)'
        BY <1>1, <1>3, <1>4, <3>1, <3>2, <4>1, <4>2, <4>3 DEF InBucket
      <4> QED
        BY <4>4 DEF Under
    <3> QED
      BY <3>3, <3>4
  <2> QED
    BY <1>7, <2>1, <2>2, <2>3 DEF Under
<1> QED
  BY <1>1, <1>6, <1>7 DEF Keeps
-----------------------------------------------------------------------------
\* A step that leaves the threads on the core where they are keeps its stage.
LEMMA KeepsStage ==
    ASSUME NEW c \in Cores, CoreStage(c), Keeps(c),
           \A t \in Threads : On(t, c)' <=> On(t, c),
           \A t \in Threads : On(t, c) => UNCHANGED <<pc[t], op[t], calls[t]>>
    PROVE  CoreStage(c)'
<1>1. ASSUME NEW t \in Threads, On(t, c) PROVE Stage(t, c)'
  <2>1. Stage(t, c)
    BY <1>1 DEF CoreStage
  <2>2. /\ pc'[t] = pc[t] /\ op'[t] = op[t] /\ Id(t)' = Id(t) /\ (Asked(t)' <=> Asked(t))
    BY <1>1 DEF Id, Asked
  <2>3. (pc[t] = "wait" => op[t].rd)'
    BY <2>1, <2>2 DEF Stage
  <2>4. (Asked(t) => Under(c, Id(t)))'
    <3>1. Asked(t) => Under(c, Id(t))
      BY <2>1 DEF Stage
    <3>2. \A id : Under(c, id) => Under(c, id)'
      BY DEF Keeps
    <3>3. PICK id : id = Id(t)
      OBVIOUS
    <3>4. Asked(t)' => Under(c, id)'
      BY <2>2, <3>1, <3>2, <3>3
    <3>5. id = Id(t)'
      BY <2>2, <3>3
    <3> QED
      BY <3>4, <3>5
  <2>5. ~Asked(t) => Quiet(c)' /\ rb_ev_data'[c] = rb_ev_data[c]
    BY <2>1 DEF Stage, Keeps
  <2>6. (pc[t] = "read" => rb_ev_data[c] = Id(t))'
    BY <2>1, <2>2, <2>5 DEF Stage, Asked
  <2> QED
    BY <2>2, <2>3, <2>4, <2>5, <2>6 DEF Stage
<1>2. (\A t \in Threads : ~On(t, c)) => Quiet(c)'
  BY DEF CoreStage, Keeps
<1> QED
  BY <1>1, <1>2 DEF CoreStage

\* The core, the interrupt handler and the claim leave every thread alone.
LEMMA DeviceStage ==
    ASSUME BusInv, EventTypes, NEW c \in Cores, CoreStage(c),
           Device \/ Claim \/ UNCHANGED vars
    PROVE  CoreStage(c)'
<1>1. UNCHANGED <<pc, op, calls>>
  BY DEF Device, Claim, CoreDone, IrqStore, IrqCount, vars, locals
<1>2. Keeps(c)
  <2>1. CASE Claim \/ UNCHANGED vars
    <3>1. UNCHANGED <<core, bucket, irq, irq_ev_cnt, rb_ev_data>>
      BY <2>1 DEF Claim, vars, counted, device
    <3> QED
      BY <3>1, CoreKept DEF Keeps
  <2>2. CASE Device
    BY <2>2, OtherCoreDone, OwnCoreDone, StoreKeeps, CountKeeps DEF Device
  <2> QED
    BY <2>1, <2>2
<1>3. \A t \in Threads : On(t, c)' <=> On(t, c)
  BY <1>1 DEF On
<1> QED
  BY <1>1, <1>2, <1>3, KeepsStage

\* A command that reads is accepted by a quiet core; so is one that writes.
LEMMA IssuedStage ==
    ASSUME BusInv, NEW c \in Cores, Quiet(c), NEW m \in Commands,
           core'[c] = Append(core[c], m),
           UNCHANGED <<bucket, irq, irq_ev_cnt, rb_ev_data>>
    PROVE  /\ m.rd => Under(c, m.id)'
           /\ ~m.rd => Quiet(c)'
<1> DEFINE q == core[c]
           n == Len(q) + 1
<1>1. q \in Seq(Commands)
  BY DEF BusInv, TypeInv
<1>2. /\ n \in DOMAIN core'[c] /\ core'[c][n] = m
      /\ \A k \in DOMAIN core'[c] : k # n => k \in DOMAIN q /\ core'[c][k] = q[k]
  BY <1>1, AppendFacts
<1> HIDE DEF n
<1>3. \A k \in DOMAIN core'[c] : k # n => ~core'[c][k].rd
  BY <1>2 DEF Quiet, NoReads
<1>4. NoEvents(c)' /\ irq_ev_cnt'[c] = 0
  BY DEF Quiet, NoEvents
<1>5. ASSUME m.rd PROVE InCore(c, m.id)'
  <2>1. PICK id : id = m.id
    OBVIOUS
  <2>2. InCore(c, id)'
    BY <1>2, <1>3, <1>4, <1>5, <2>1 DEF InCore
  <2> QED
    BY <2>1, <2>2
<1>6. ASSUME ~m.rd PROVE Quiet(c)'
  BY <1>2, <1>3, <1>4, <1>6 DEF Quiet, NoReads
<1> QED
  BY <1>5, <1>6 DEF Under
\* A step of a thread changes nothing of the other threads.
LEMMA OthersStay ==
    ASSUME BusInv, NEW t \in Threads,
           Transaction(t) \/ GiveUp(t) \/ \E o \in Ops : Call(t, o)
    PROVE  \A u \in Threads : u # t => UNCHANGED <<pc[u], op[u], calls[u]>>
<1>1. DOMAIN pc = Threads /\ DOMAIN op = Threads /\ DOMAIN calls = Threads
  BY DEF BusInv, TypeInv
<1>2. CASE Transaction(t)
  BY <1>1, <1>2 DEF Transaction, I2cLookup, I2cGetLut, I2cRefuse, SpiIssue, I2cIssue, I2cNote,
                    WaitDone, ReadBack, WaitOrReturn, Return, locals
<1>3. CASE GiveUp(t)
  BY <1>1, <1>3 DEF GiveUp, Return
<1>4. CASE \E o \in Ops : Call(t, o)
  BY <1>1, <1>4 DEF Call
<1> QED
  BY <1>2, <1>3, <1>4

\* A step of a thread that is on another core before and after it.
LEMMA ElsewhereStage ==
    ASSUME BusInv, EventTypes, NEW c \in Cores, CoreStage(c), NEW t \in Threads,
           Transaction(t) \/ GiveUp(t) \/ (\E o \in Ops : Call(t, o)),
           ~On(t, c), ~On(t, c)'
    PROVE  CoreStage(c)'
<1>1. \A u \in Threads : u # t => UNCHANGED <<pc[u], op[u], calls[u]>>
  BY OthersStay
<1>2. UNCHANGED <<core[c], bucket, irq, irq_ev_cnt[c], rb_ev_data[c]>>
  <2>1. CASE \E o \in Ops : Call(t, o)
    BY <2>1 DEF Call, counted, device
  <2>2. CASE GiveUp(t)
    BY <2>2 DEF GiveUp, counted, device
  <2>3. CASE I2cLookup(t) \/ I2cGetLut(t) \/ I2cRefuse(t) \/ I2cNote(t) \/ ReadBack(t)
    BY <2>3 DEF I2cLookup, I2cGetLut, I2cRefuse, I2cNote, ReadBack, counted, device
  <2>4. CASE WaitDone(t)
    <3>1. op[t].core # c
      BY <2>4 DEF WaitDone, On
    <3> QED
      BY <2>4, <3>1 DEF WaitDone, EventTypes, device
  <2>5. CASE SpiIssue(t)
    <3>1. c # "spi"
      BY <2>5 DEF SpiIssue, On
    <3> QED
      BY <2>5, <3>1 DEF SpiIssue, counted, BusInv, TypeInv
  <2>6. CASE I2cIssue(t)
    <3>1. c # "i2c"
      BY <2>6 DEF I2cIssue, On
    <3> QED
      BY <2>6, <3>1 DEF I2cIssue, counted, BusInv, TypeInv
  <2> QED
    BY <2>1, <2>2, <2>3, <2>4, <2>5, <2>6 DEF Transaction
<1>3. Keeps(c)
  BY <1>2, CoreKept DEF Keeps
<1>4. \A u \in Threads : On(u, c)' <=> On(u, c)
  BY <1>1 DEF On
<1> QED
  BY <1>1, <1>3, <1>4, KeepsStage

\* The stage of a core that one thread is on, or just was.
LEMMA AloneStage ==
    ASSUME NEW c \in Cores, NEW t \in Threads,
           (\A u \in Threads : u # t => ~On(u, c))',
           (On(t, c) => Stage(t, c))', (~On(t, c) => Quiet(c))'
    PROVE  CoreStage(c)'
BY DEF CoreStage

\* Where a thread is on a core that only it uses.
Alone(t, c) == \A u \in Threads : u # t => ~On(u, c) /\ ~On(u, c)'

\* A step on a quiet core that changes neither its commands nor its events and
\* after which no answer is due.
LEMMA QuietStage ==
    ASSUME NEW c \in Cores, NEW t \in Threads, Alone(t, c), Quiet(c),
           UNCHANGED <<core[c], bucket, irq, irq_ev_cnt[c], rb_ev_data[c]>>,
           pc'[t] \in {"idle", "lookup", "make", "issue"} \/ (pc'[t] = "note" /\ ~op'[t].rd)
    PROVE  CoreStage(c)'
<1>1. Quiet(c)'
  BY CoreKept
<1>2. Stage(t, c)'
  BY <1>1 DEF Stage, Asked
<1> QED
  BY <1>1, <1>2, AloneStage DEF Alone
\* A step of the thread that is on the core, unless it gives up its wait.
LEMMA OnStage ==
    ASSUME BusInv, EventTypes, NEW c \in Cores, NEW t \in Threads, Alone(t, c),
           On(t, c), Stage(t, c), Transaction(t)
    PROVE  CoreStage(c)'
<1> USE DEF counted, device, locals
<1>1. /\ pc[t] # "idle" /\ op[t].core = c /\ op[t] \in Ops /\ op[t].rd \in BOOLEAN
      /\ DOMAIN pc = Threads /\ DOMAIN op = Threads /\ calls[t] \in Nat
  BY OpsFacts DEF On, BusInv, TypeInv
<1>2. pc[t] # "wait" /\ pc[t] # "note" => Quiet(c)
  BY DEF Stage, Asked
<1>3. CASE I2cLookup(t) \/ I2cGetLut(t) \/ I2cRefuse(t) \/ ReadBack(t)
  <2>1. /\ pc[t] # "wait" /\ pc[t] # "note" /\ pc'[t] \in {"idle", "make", "issue"}
        /\ UNCHANGED <<core, bucket, irq, irq_ev_cnt, rb_ev_data>>
    BY <1>1, <1>3 DEF I2cLookup, I2cGetLut, I2cRefuse, ReadBack, Return
  <2> QED
    BY <1>2, <2>1, QuietStage
<1>4. CASE WaitDone(t)
  <2>1. /\ irq_ev_cnt[c] > 0 /\ irq_ev_cnt'[c] = 0 /\ pc'[t] = "read" /\ pc[t] = "wait"
        /\ UNCHANGED <<core, bucket, rb_ev_data, op, calls>>
    BY <1>1, <1>4 DEF WaitDone, Taken, EventTypes
  <2>2. Stored(c, Id(t))
    BY <2>1 DEF Stage, Asked, Under, InCore, InBucket
  <2>3. Quiet(c)'
    BY <2>1, <2>2 DEF Stored, Quiet, NoReads, NoEvents
  <2>4. rb_ev_data'[c] = Id(t)'
    BY <2>1, <2>2 DEF Stored, Id
  <2>5. Stage(t, c)'
    BY <2>1, <2>3, <2>4 DEF Stage, Asked
  <2> QED
    BY <2>3, <2>5, AloneStage DEF Alone
<1>5. CASE I2cNote(t)
  <2>1. /\ pc[t] = "note" /\ UNCHANGED <<core, bucket, irq, irq_ev_cnt, rb_ev_data, calls>>
        /\ op[t].rd => pc'[t] = "wait" /\ op' = op
        /\ ~op[t].rd => pc'[t] = "idle"
    BY <1>1, <1>5 DEF I2cNote, WaitOrReturn, Waits, Return
  <2>2. CASE ~op[t].rd
    <3>1. Quiet(c)
      BY <2>1, <2>2 DEF Stage, Asked
    <3> QED
      BY <2>1, <2>2, <3>1, QuietStage
  <2>3. CASE op[t].rd
    <3>1. PICK id : id = Id(t)
      OBVIOUS
    <3>2. Under(c, id)
      BY <2>1, <2>3, <3>1 DEF Stage, Asked
    <3>3. Under(c, id)'
      BY <2>1, <3>2, CoreKept
    <3>4. id = Id(t)'
      BY <2>1, <3>1 DEF Id
    <3>5. Under(c, Id(t))'
      BY <3>3, <3>4
    <3>6. Stage(t, c)'
      BY <2>1, <2>3, <3>5 DEF Stage, Asked
    <3>7. On(t, c)'
      BY <1>1, <2>1, <2>3 DEF On
    <3> QED
      BY <3>6, <3>7, AloneStage DEF Alone
  <2> QED
    BY <2>2, <2>3
<1>6. CASE SpiIssue(t) \/ I2cIssue(t)
  <2>1. /\ pc[t] = "issue" /\ UNCHANGED <<bucket, irq, irq_ev_cnt, rb_ev_data, calls>>
        /\ pc'[t] \in {"wait", "note", "idle"}
        /\ pc'[t] # "idle" => op' = op
        /\ pc'[t] = "idle" => ~op[t].rd
        /\ pc'[t] = "wait" => op[t].rd
    <3>1. CASE SpiIssue(t)
      <4>1. op[t].rd
        BY <1>1, <3>1 DEF SpiIssue, Ops
      <4> QED
        BY <1>1, <3>1, <4>1 DEF SpiIssue
    <3>2. CASE I2cIssue(t)
      BY <1>1, <3>2 DEF I2cIssue, WaitOrReturn, Waits, Return
    <3> QED
      BY <1>6, <3>1, <3>2
  <2>2. PICK m \in Commands : core'[c] = Append(core[c], m) /\ m.id = Id(t) /\ m.rd = op[t].rd
    <3>1. ASSUME NEW slave \in Slaves \cup {NoSlave}
          PROVE  /\ Command(t, slave) \in Commands
                 /\ Command(t, slave).id = Id(t) /\ Command(t, slave).rd = op[t].rd
      <4>1. op[t].slave \in Slaves \cup {NoSlave}
        BY <1>1, OpsFacts
      <4> QED
        BY <1>1, <4>1 DEF Command, Commands, Id
    <3>2. CASE SpiIssue(t)
      <4>1. core'[c] = Append(core[c], Command(t, NoSlave))
        BY <1>1, <3>2 DEF SpiIssue, BusInv, TypeInv
      <4> QED
        BY <3>1, <4>1
    <3>3. CASE I2cIssue(t)
      <4>1. core'[c] = Append(core[c], Command(t, lut'[idx[t]]))
        BY <1>1, <3>3 DEF I2cIssue, BusInv, TypeInv
      <4>2. lut' \in Luts /\ idx[t] \in Slots
        <5>1. mylut[t] \in Luts
          BY <1>1, <3>3 DEF I2cIssue, BusInv, PcInv
        <5> QED
          BY <3>3, <5>1 DEF I2cIssue, BusInv, TypeInv
      <4>3. lut'[idx[t]] \in Slaves \cup {NoSlave}
        BY <4>2 DEF Luts
      <4> QED
        BY <3>1, <4>1, <4>3
    <3> QED
      BY <1>6, <3>2, <3>3
  <2>3. Quiet(c)
    BY <1>2, <2>1
  <2>4. (m.rd => Under(c, m.id)') /\ (~m.rd => Quiet(c)')
    BY <2>1, <2>2, <2>3, IssuedStage
  <2>5. m.id = Id(t)'
    BY <2>1, <2>2 DEF Id
  <2>6. op[t].rd => Under(c, Id(t))'
    BY <2>2, <2>4, <2>5
  <2>7. ~op[t].rd => Quiet(c)'
    BY <2>2, <2>4
  <2>8. CASE pc'[t] = "idle"
    BY <2>1, <2>7, <2>8, AloneStage DEF Alone, On
  <2>9. CASE pc'[t] # "idle"
    <3>1. On(t, c)'
      BY <1>1, <2>1, <2>9 DEF On
    <3>2. Asked(t)' <=> op[t].rd
      BY <2>1, <2>9 DEF Asked
    <3>3. Stage(t, c)'
      BY <2>1, <2>6, <2>7, <2>9, <3>2 DEF Stage
    <3> QED
      BY <3>1, <3>3, AloneStage DEF Alone
  <2> QED
    BY <2>8, <2>9
<1> QED
  BY <1>3, <1>4, <1>5, <1>6 DEF Transaction

\* Every step keeps the stage of a core that one thread uses and no wait on
\* which was given up.
LEMMA AnswerStep == BusInv /\ AnswerInv /\ [Next]_vars => AnswerInv'
<1> SUFFICES ASSUME BusInv, AnswerInv, [Next]_vars PROVE AnswerInv'
  OBVIOUS
<1>1. EventTypes /\ EventTypes'
  BY EventTypesStep DEF AnswerInv
<1>2. ASSUME NEW c \in Cores, Owned(c), giveups'[c] = 0 PROVE CoreStage(c)'
  <2>1. CASE Device \/ Claim \/ UNCHANGED vars
    <3>1. giveups' = giveups
      BY <2>1 DEF Device, Claim, CoreDone, IrqStore, IrqCount, vars
    <3>2. CoreStage(c)
      BY <1>2, <3>1 DEF AnswerInv
    <3> QED
      BY <1>1, <2>1, <3>2, DeviceStage
  <2>2. ASSUME NEW t \in Threads, Transaction(t) \/ GiveUp(t) \/ \E o \in Ops : Call(t, o)
        PROVE  CoreStage(c)'
    <3> DEFINE A == Transaction(t) \/ GiveUp(t) \/ \E o \in Ops : Call(t, o)
    <3>1. A
      BY <2>2
    <3>2. giveups[c] = 0
      <4>1. CASE GiveUp(t)
        <5>1. giveups' = [giveups EXCEPT ![op[t].core] = @ + 1]
          BY <4>1 DEF GiveUp
        <5>2. giveups \in [Cores -> Nat]
          BY <1>1 DEF EventTypes
        <5> QED
          BY <1>2, <5>1, <5>2
      <4>2. CASE Transaction(t) \/ \E o \in Ops : Call(t, o)
        <5>1. giveups' = giveups
          BY <4>2 DEF Transaction, I2cLookup, I2cGetLut, I2cRefuse, SpiIssue, I2cIssue, I2cNote,
                      WaitDone, ReadBack, Call
        <5> QED
          BY <1>2, <5>1
      <4> QED
        BY <2>2, <4>1, <4>2
    <3>3. CoreStage(c)
      BY <1>2, <3>2 DEF AnswerInv
    <3>4. CASE ~On(t, c) /\ ~On(t, c)'
      BY <1>1, <2>2, <3>3, <3>4, ElsewhereStage
    <3>5. CASE On(t, c) \/ On(t, c)'
      <4>1. BusInv'
        BY StepBusInv
      <4>2. c \in Uses[t]
        BY <3>5, <4>1 DEF BusInv, PcInv, On
      <4>3. \A u \in Threads : u # t => c \notin Uses[u]
        BY <1>2, <4>2 DEF Owned
      <4>4. Alone(t, c)
        BY <4>1, <4>3 DEF BusInv, PcInv, On, Alone
      <4>5. CASE Transaction(t)
        <5>1. On(t, c)
          <6>1. pc[t] # "idle" /\ (pc'[t] # "idle" => op' = op)
            BY <4>5 DEF Transaction, I2cLookup, I2cGetLut, I2cRefuse, SpiIssue, I2cIssue, I2cNote,
                        WaitDone, ReadBack, WaitOrReturn, Return, locals, BusInv, TypeInv
          <6> QED
            BY <3>5, <6>1 DEF On
        <5>2. Stage(t, c)
          BY <3>3, <5>1 DEF CoreStage
        <5> QED
          BY <1>1, <4>4, <4>5, <5>1, <5>2, OnStage
      <4>6. CASE GiveUp(t)
        <5>1. /\ giveups' = [giveups EXCEPT ![op[t].core] = @ + 1]
              /\ pc'[t] = "idle"
          BY <4>6 DEF GiveUp, Return, BusInv, TypeInv
        <5>2. op[t].core = c
          BY <3>5, <5>1 DEF On
        <5>3. giveups'[c] = 1
          BY <1>1, <3>2, <5>1, <5>2 DEF EventTypes
        <5> QED
          BY <1>2, <5>3
      <4>7. ASSUME NEW o \in Ops, Call(t, o) PROVE CoreStage(c)'
        <5>1. /\ pc[t] = "idle" /\ pc'[t] \in {"lookup", "issue"}
              /\ UNCHANGED <<core, bucket, irq, irq_ev_cnt, rb_ev_data>>
          BY <4>7 DEF Call, counted, device, BusInv, TypeInv
        <5>2. \A u \in Threads : ~On(u, c)
          BY <4>4, <5>1 DEF Alone, On
        <5>3. Quiet(c)
          BY <3>3, <5>2 DEF CoreStage
        <5> QED
          BY <4>4, <5>1, <5>3, QuietStage
      <4> QED
        BY <2>2, <4>5, <4>6, <4>7
    <3> QED
      BY <3>4, <3>5
  <2> QED
    BY <2>1, <2>2 DEF Next
<1> QED
  BY <1>1, <1>2 DEF AnswerInv, Owned

\* The ioctls PCIE_DRIVER_SPI32_TRANSACT and PCIE_DRIVER_SI2C_TRANSACT return the
\* answer to their own command, as long as one thread uses the core and no wait
\* on it was given up, though neither commands nor events carry a number.
THEOREM TransactionsOwnAnswer == Spec => OwnAnswer
<1>1. BusInv /\ AnswerInv /\ [Next]_vars =>
          [\A t \in Threads :
              /\ pc[t] = "read" /\ pc'[t] = "idle"
              /\ Owned(op[t].core) /\ giveups[op[t].core] = 0
              => rb_ev_data[op[t].core] = Id(t)]_vars
  <2> SUFFICES ASSUME BusInv, AnswerInv, NEW t \in Threads, pc[t] = "read",
                      Owned(op[t].core), giveups[op[t].core] = 0
               PROVE  rb_ev_data[op[t].core] = Id(t)
    OBVIOUS
  <2>1. op[t].core \in Cores
    BY OpsFacts DEF BusInv, TypeInv
  <2>2. On(t, op[t].core) /\ CoreStage(op[t].core)
    BY <2>1 DEF AnswerInv, On
  <2> QED
    BY <2>2 DEF CoreStage, Stage
<1> QED
  BY <1>1, AnswerInit, AnswerStep, BusInvariant, PTL DEF Spec, OwnAnswer
=============================================================================
