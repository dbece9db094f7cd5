---------------------------- MODULE StreamProofs ----------------------------
(***************************************************************************)
(* Proofs about the PCIe streams (PcieStream), the event bucket they get   *)
(* their events through (EventBucket) and the stream objects above them    *)
(* (SfeStream).                                                            *)
(***************************************************************************)
EXTENDS PcieStream, EventBucket, SfeStream, SharedLemmas, TLAPS

(***************************************************************************)
(* EventBucket, for every size of the page, every distance between         *)
(* confirmations and every number of events.                               *)
(*                                                                         *)
(* Neither side knows the other's position: the device has a confirmation  *)
(* modulo two laps, the handler a flag per entry.  The invariant relates   *)
(* both to the number of events written and dispatched since the start.    *)
(***************************************************************************)

\* The same entry on laps with the same flag.
Congruent(p, n) == p % Laps = n % Laps

\* The entry that event number n + 1 was written to.
Holds(n) == entry[n % Entries] = [flag |-> LapFlag(n), ev |-> n + 1]

\* The page holds the last lap the device has written; the rest of it is as it
\* was filled at the start.
Page ==
    /\ \A n \in 0..MaxEvents : n < wptr /\ n + Entries >= wptr => Holds(n)
    /\ \A e \in 0..Entries-1 : e >= wptr => entry[e] = [flag |-> 1, ev |-> 0]

\* The handler's pointer stands for the number of dispatched events.
Position ==
    /\ handled <= wptr
    /\ pc # "scan" => rptr = handled % Laps
    /\ pc = "scan" => /\ rptr <= i /\ i <= rptr + Entries
                      /\ Congruent(i, handled)
    /\ pc = "ack" => do_cnf # -1

\* c is the entry the handler is about to confirm.
Confirming(c, a) == c < handled /\ a <= c /\ do_cnf = c % Laps

\* a is the entry the last confirmation was for.
LastAck(a) ==
    /\ ack = a % Laps
    /\ a <= handled /\ wptr <= a + Entries
    /\ pc # "idle" /\ do_cnf # -1 => \E c \in 0..MaxEvents : Confirming(c, a)

Acked == \E a \in 0..MaxEvents : LastAck(a)

BucketInv == BucketTypeOK /\ Page /\ Position /\ Acked

-----------------------------------------------------------------------------
(* Entries and laps *)

LEMMA Sizes ==
    /\ Entries \in Nat \ {0} /\ Laps \in Nat \ {0} /\ Laps = Entries + Entries
    /\ MaxEvents \in Nat /\ AckEvery \in Nat \ {0}
BY BucketAssumption DEF Laps

\* Where an index lies: its lap and its place on the lap.
LEMMA Place ==
    ASSUME NEW d \in Nat, NEW e \in 0..Entries-1
    PROVE  /\ (Entries * d + e) % Entries = e
           /\ LapFlag(Entries * d + e) = d % 2
BY Sizes, DivModUnique DEF LapFlag

LEMMA PlaceOf ==
    ASSUME NEW x \in Nat
    PROVE  \E d \in Nat, e \in 0..Entries-1 :
              /\ x = Entries * d + e /\ x % Entries = e /\ LapFlag(x) = d % 2
<1>1. /\ x \div Entries \in Nat /\ x % Entries \in 0..Entries-1
      /\ x = Entries * (x \div Entries) + (x % Entries)
  BY Sizes
<1> QED BY <1>1 DEF LapFlag

\* Taking a pointer modulo two laps changes neither its entry nor its flag.
LEMMA LapWrap ==
    ASSUME NEW x \in Nat
    PROVE  (x % Laps) % Entries = x % Entries /\ LapFlag(x % Laps) = LapFlag(x)
<1> DEFINE r == x % Laps
           q == x \div Laps
<1>1. q \in Nat /\ r \in 0..Laps-1 /\ x = Laps * q + r
  <2>1. Laps \in Nat \ {0}
    BY Sizes
  <2> QED BY <2>1
<1> HIDE DEF r, q
<1>2. Laps * q = Entries * (2 * q)
  BY <1>1, Sizes
<1>3. CASE r < Entries
  <2>1. r \in 0..Entries-1 /\ Entries * 0 + r = r /\ x = Entries * (2 * q) + r
    BY <1>1, <1>2, <1>3, Sizes
  <2>2. r % Entries = r /\ LapFlag(r) = 0 % 2
    <3>1. (Entries * 0 + r) % Entries = r /\ LapFlag(Entries * 0 + r) = 0 % 2
      BY <2>1, Place
    <3> QED BY <2>1, <3>1
  <2>3. 2 * q \in Nat
    BY <1>1
  <2>4. x % Entries = r /\ LapFlag(x) = (2 * q) % 2
    BY <2>1, <2>3, Place
  <2>5. (2 * q) % 2 = 0 % 2
    BY <1>1
  <2> QED BY <2>2, <2>4, <2>5 DEF r
<1>4. CASE ~(r < Entries)
  <2> DEFINE e == r - Entries
  <2>1. e \in 0..Entries-1 /\ Entries * 1 + e = r
    BY <1>1, <1>4, Sizes
  <2>2. x = Entries * (2 * q + 1) + e
    <3>1. Entries * (2 * q + 1) = Entries * (2 * q) + Entries
      BY <1>1, Sizes
    <3> QED BY <1>1, <1>2, <2>1, <3>1, Sizes
  <2> HIDE DEF e
  <2>3. r % Entries = e /\ LapFlag(r) = 1 % 2
    <3>1. (Entries * 1 + e) % Entries = e /\ LapFlag(Entries * 1 + e) = 1 % 2
      BY <2>1, Place
    <3> QED BY <2>1, <3>1
  <2>4. 2 * q + 1 \in Nat
    BY <1>1
  <2>5. x % Entries = e /\ LapFlag(x) = (2 * q + 1) % 2
    BY <2>1, <2>2, <2>4, Place
  <2>6. (2 * q + 1) % 2 = 1 % 2
    BY <1>1
  <2> QED BY <2>3, <2>5, <2>6 DEF r
<1> QED BY <1>3, <1>4

LEMMA CongruentSame ==
    ASSUME NEW p \in Nat, NEW n \in Nat, Congruent(p, n)
    PROVE  p % Entries = n % Entries /\ LapFlag(p) = LapFlag(n)
BY LapWrap DEF Congruent

LEMMA CongruentNext ==
    ASSUME NEW p \in Nat, NEW n \in Nat, Congruent(p, n)
    PROVE  Congruent(p + 1, n + 1)
<1>0. Laps \in Nat \ {0}
  BY Sizes
<1>1. ((p % Laps) + 1) % Laps = (p + 1) % Laps
  BY <1>0, ModAdd
<1>2. ((n % Laps) + 1) % Laps = (n + 1) % Laps
  BY <1>0, ModAdd
<1> QED BY <1>1, <1>2 DEF Congruent

\* One lap further the flag is the other one.
LEMMA FlagToggles ==
    ASSUME NEW x \in Nat
    PROVE  /\ (x + Entries) % Entries = x % Entries
           /\ LapFlag(x + Entries) # LapFlag(x)
<1>1. PICK d \in Nat, e \in 0..Entries-1 :
        x = Entries * d + e /\ x % Entries = e /\ LapFlag(x) = d % 2
  BY PlaceOf
<1>2. x + Entries = Entries * (d + 1) + e
  <2>1. Entries * (d + 1) = Entries * d + Entries
    BY Sizes
  <2> QED BY <1>1, <2>1, Sizes
<1>3. (x + Entries) % Entries = e /\ LapFlag(x + Entries) = (d + 1) % 2
  <2>1. d + 1 \in Nat
    OBVIOUS
  <2> QED BY <1>2, <2>1, Place
<1>4. (d + 1) % 2 # d % 2
  OBVIOUS
<1> QED BY <1>1, <1>3, <1>4

LEMMA FirstLap ==
    ASSUME NEW x \in 0..Entries-1
    PROVE  x % Entries = x /\ LapFlag(x) = 0
<1>1. Entries * 0 + x = x /\ 0 % 2 = 0
  BY Sizes
<1>2. (Entries * 0 + x) % Entries = x /\ LapFlag(Entries * 0 + x) = 0 % 2
  BY Place
<1> QED BY <1>1, <1>2

LEMMA FlagRange == ASSUME NEW x \in Nat PROVE LapFlag(x) \in 0..1
<1>1. x \div Entries \in Nat
  BY Sizes
<1> QED BY <1>1 DEF LapFlag

-----------------------------------------------------------------------------
LEMMA BucketTypes ==
    ASSUME BucketInv
    PROVE  /\ rptr \in Nat /\ i \in Nat /\ wptr \in Nat /\ handled \in Nat
           /\ handled <= wptr /\ wptr <= MaxEvents
           /\ wptr - handled <= Entries
           /\ entry \in [0..Entries-1 -> [flag : 0..1, ev : 0..MaxEvents]]
<1>1. /\ rptr \in Nat /\ i \in Nat /\ wptr \in Nat /\ handled \in Nat
      /\ handled <= wptr /\ wptr <= MaxEvents
      /\ entry \in [0..Entries-1 -> [flag : 0..1, ev : 0..MaxEvents]]
  BY Sizes DEF BucketInv, BucketTypeOK, Position
<1>2. PICK a \in 0..MaxEvents : LastAck(a)
  BY DEF BucketInv, Acked
<1>3. a <= handled /\ wptr <= a + Entries
  BY <1>2 DEF LastAck
<1> QED BY <1>1, <1>3, Sizes

\* The device's test, made on positions, is the test on numbers: it writes only
\* while it is less than a lap ahead of the last confirmed entry.
LEMMA DeviceRoom ==
    ASSUME BucketInv, NEW a \in 0..MaxEvents, LastAck(a)
    PROVE  (wptr - ack) % Laps = wptr - a /\ a <= wptr
<1> DEFINE q == a \div Laps
           r == a % Laps
<1>1. q \in Nat /\ r \in Nat /\ a = r + Laps * q
  BY Sizes
<1>2. ack = r /\ a <= handled /\ wptr <= a + Entries
  BY DEF LastAck
<1> HIDE DEF q, r
<1>3. /\ wptr - a \in Nat /\ wptr - a \in 0..Laps-1
  BY <1>2, BucketTypes, Sizes
<1>4. wptr - ack = (wptr - a) + Laps * q
  BY <1>1, <1>2, BucketTypes, Sizes
<1>5. ((wptr - a) + Laps * q) % Laps = (wptr - a) % Laps
  BY <1>1, <1>3, ModMultiple, Sizes
<1>6. (wptr - a) % Laps = wptr - a
  BY <1>3, NoWrap, Sizes
<1> QED BY <1>2, <1>4, <1>5, <1>6, BucketTypes

\* The flag tells a written entry from an old one: the entry at the handler's
\* pointer is new exactly if there is an event that was not dispatched, and
\* then it holds the next one.
LEMMA FlagTells ==
    ASSUME BucketInv, pc = "scan"
    PROVE  /\ IsNew(i) <=> handled < wptr
           /\ handled < wptr => entry[i % Entries].ev = handled + 1
<1>1. /\ rptr \in Nat /\ i \in Nat /\ wptr \in Nat /\ handled \in Nat
      /\ handled <= wptr /\ wptr <= MaxEvents /\ wptr - handled <= Entries
  BY BucketTypes
<1>2. i % Entries = handled % Entries /\ LapFlag(i) = LapFlag(handled)
  BY <1>1, CongruentSame DEF BucketInv, Position
<1>3. CASE handled < wptr
  <2>1. handled \in 0..MaxEvents /\ handled + Entries >= wptr
    BY <1>1, <1>3, Sizes
  <2>2. Holds(handled)
    BY <1>3, <2>1 DEF BucketInv, Page
  <2>3. entry[i % Entries].flag = LapFlag(i) /\ entry[i % Entries].ev = handled + 1
    BY <1>2, <2>2 DEF Holds
  <2> QED BY <1>3, <2>3 DEF IsNew
<1>4. CASE handled = wptr
  <2>1. CASE handled < Entries
    <3>1. handled \in 0..Entries-1 /\ handled >= wptr
      BY <1>1, <1>4, <2>1, Sizes
    <3>2. handled % Entries = handled /\ LapFlag(handled) = 0
      BY <3>1, FirstLap
    <3>3. entry[handled] = [flag |-> 1, ev |-> 0]
      BY <3>1 DEF BucketInv, Page
    <3>4. ~IsNew(i)
      BY <1>2, <3>2, <3>3 DEF IsNew
    <3> QED BY <1>1, <1>4, <3>4
  <2>2. CASE ~(handled < Entries)
    <3> DEFINE x == handled - Entries
    <3>1. /\ x \in Nat /\ x \in 0..MaxEvents /\ x < wptr /\ x + Entries >= wptr
          /\ x + Entries = handled
      BY <1>1, <1>4, <2>2, Sizes
    <3> HIDE DEF x
    <3>2. Holds(x)
      BY <3>1 DEF BucketInv, Page
    <3>3. handled % Entries = x % Entries /\ LapFlag(handled) # LapFlag(x)
      BY <3>1, FlagToggles
    <3>4. entry[handled % Entries].flag = LapFlag(x)
      BY <3>2, <3>3 DEF Holds
    <3>5. ~IsNew(i)
      BY <1>2, <3>3, <3>4 DEF IsNew
    <3> QED BY <1>1, <1>4, <3>5
  <2> QED BY <2>1, <2>2
<1> QED BY <1>1, <1>3, <1>4

-----------------------------------------------------------------------------
LEMMA BucketInitInv == BucketInit => BucketInv
<1> SUFFICES ASSUME BucketInit PROVE BucketInv
  OBVIOUS
<1>1. BucketTypeOK
  <2>1. entry \in [0..Entries-1 -> [flag : 0..1, ev : 0..MaxEvents]]
    BY Sizes DEF BucketInit
  <2>2. msi \in BOOLEAN
    BY DEF BucketInit
  <2>3. 0 \in 0..Laps-1 /\ 0 \in 0..Laps+Entries /\ -1 \in -1..Laps-1
    BY Sizes
  <2> QED BY <2>1, <2>2, <2>3, Sizes DEF BucketInit, BucketTypeOK
<1>2. Page
  BY Sizes DEF BucketInit, Page
<1>3. 0 % Laps = 0
  <2>1. 0 \in 0..Laps-1 /\ Laps \in Nat \ {0}
    BY Sizes
  <2> QED BY <2>1, NoWrap
<1>4. Position
  BY <1>3 DEF BucketInit, Position
<1>5. LastAck(0) /\ 0 \in 0..MaxEvents
  BY <1>3, Sizes DEF BucketInit, LastAck
<1> QED BY <1>1, <1>2, <1>4, <1>5 DEF BucketInv, Acked

LEMMA StepDeviceWrite ==
    ASSUME BucketInv, DeviceWrite PROVE BucketInv'
<1> DEFINE new == [flag |-> LapFlag(wptr), ev |-> wptr + 1]
           w == wptr % Entries
<1>1. /\ wptr < MaxEvents /\ wptr' = wptr + 1 /\ msi' = TRUE
      /\ (wptr - ack) % Laps < Entries
      /\ entry' = [entry EXCEPT ![w] = new]
      /\ UNCHANGED <<rptr, i, pc, do_cnf, ack, handled>>
  BY DEF DeviceWrite
<1>2. /\ wptr \in Nat /\ handled \in Nat /\ handled <= wptr
      /\ entry \in [0..Entries-1 -> [flag : 0..1, ev : 0..MaxEvents]]
      /\ Entries \in Nat \ {0} /\ MaxEvents \in Nat
  BY BucketTypes, Sizes
<1>3. w \in 0..Entries-1 /\ new \in [flag : 0..1, ev : 0..MaxEvents]
  BY <1>1, <1>2, FlagRange
<1> HIDE DEF new
<1>4. BucketTypeOK'
  <2>1. entry' \in [0..Entries-1 -> [flag : 0..1, ev : 0..MaxEvents]]
    BY <1>1, <1>2, <1>3
  <2>2. wptr' \in 0..MaxEvents /\ msi' \in BOOLEAN
    BY <1>1, <1>2
  <2> QED BY <1>1, <2>1, <2>2 DEF BucketInv, BucketTypeOK
<1>5. Page'
  <2>1. ASSUME NEW n \in 0..MaxEvents, n < wptr', n + Entries >= wptr'
        PROVE  Holds(n)'
    <3>1. CASE n = wptr
      <4>1. entry'[n % Entries] = [flag |-> LapFlag(n), ev |-> n + 1]
        BY <1>1, <1>2, <1>3, <3>1 DEF new
      <4> QED BY <4>1 DEF Holds
    <3>2. CASE n # wptr
      <4>1. n \in Nat /\ n < wptr /\ n + Entries >= wptr /\ wptr - n < Entries
        BY <1>1, <1>2, <2>1, <3>2
      <4>2. Holds(n)
        BY <4>1 DEF BucketInv, Page
      <4>3. n % Entries # w
        BY <1>2, <4>1, SlotInjective
      <4>4. n % Entries \in 0..Entries-1
        BY <1>2, <4>1
      <4>5. entry'[n % Entries] = entry[n % Entries]
        BY <1>1, <1>2, <1>3, <4>3, <4>4
      <4> QED BY <4>2, <4>5 DEF Holds
    <3> QED BY <3>1, <3>2
  <2>2. ASSUME NEW e \in 0..Entries-1, e >= wptr'
        PROVE  entry'[e] = [flag |-> 1, ev |-> 0]
    <3>1. e >= wptr /\ e # wptr /\ wptr \in 0..Entries-1
      BY <1>1, <1>2, <2>2
    <3>2. w = wptr
      BY <3>1, FirstLap
    <3>3. entry[e] = [flag |-> 1, ev |-> 0]
      BY <3>1 DEF BucketInv, Page
    <3> QED BY <1>1, <1>2, <1>3, <3>1, <3>2, <3>3
  <2> QED BY <2>1, <2>2 DEF Page
<1>6. Position'
  BY <1>1, <1>2 DEF BucketInv, Position, Congruent
<1>7. Acked'
  <2>1. PICK a \in 0..MaxEvents : LastAck(a)
    BY DEF BucketInv, Acked
  <2>2. wptr - a < Entries
    BY <1>1, <2>1, DeviceRoom
  <2>3. wptr' <= a + Entries
    BY <1>1, <1>2, <2>2
  <2>4. LastAck(a)'
    BY <1>1, <2>1, <2>3 DEF LastAck, Confirming
  <2> QED BY <2>4 DEF Acked
<1> QED BY <1>4, <1>5, <1>6, <1>7 DEF BucketInv

LEMMA StepIrqEnter ==
    ASSUME BucketInv, IrqEnter PROVE BucketInv'
<1>1. /\ pc = "idle" /\ pc' = "scan" /\ msi' = FALSE /\ i' = rptr /\ do_cnf' = -1
      /\ UNCHANGED <<entry, rptr, wptr, ack, handled>>
  BY DEF IrqEnter
<1>2. /\ rptr \in 0..Laps-1 /\ handled \in Nat /\ rptr = handled % Laps
      /\ Laps \in Nat \ {0} /\ Entries \in Nat
  BY <1>1, BucketTypes, Sizes DEF BucketInv, BucketTypeOK, Position
<1>3. BucketTypeOK'
  <2>1. i' \in 0..Laps+Entries /\ do_cnf' \in -1..Laps-1
    BY <1>1, <1>2
  <2>2. msi' \in BOOLEAN
    BY <1>1
  <2> QED BY <1>1, <2>1, <2>2 DEF BucketInv, BucketTypeOK
<1>4. Page'
  BY <1>1 DEF BucketInv, Page, Holds
<1>5. Position'
  <2>1. rptr % Laps = rptr
    BY <1>2, NoWrap
  <2>2. Congruent(i', handled)
    BY <1>1, <1>2, <2>1 DEF Congruent
  <2>3. rptr <= i' /\ i' <= rptr + Entries
    BY <1>1, <1>2
  <2> QED BY <1>1, <2>2, <2>3 DEF BucketInv, Position, Congruent
<1>6. Acked'
  BY <1>1 DEF BucketInv, Acked, LastAck
<1> QED BY <1>3, <1>4, <1>5, <1>6 DEF BucketInv

LEMMA StepIrqEvent ==
    ASSUME BucketInv, IrqEvent PROVE BucketInv'
<1>1. /\ pc = "scan" /\ i < rptr + Entries /\ IsNew(i)
      /\ handled' = entry[i % Entries].ev /\ i' = i + 1
      /\ do_cnf' = IF i % AckEvery = AckEvery - 1 THEN Confirmed(i) ELSE do_cnf
      /\ UNCHANGED <<entry, rptr, pc, msi, wptr, ack>>
  BY DEF IrqEvent
<1>2. /\ i \in Nat /\ rptr \in 0..Laps-1 /\ wptr \in 0..MaxEvents /\ handled \in Nat
      /\ rptr <= i /\ Congruent(i, handled)
      /\ do_cnf \in -1..Laps-1 /\ Laps \in Nat \ {0} /\ Entries \in Nat
      /\ MaxEvents \in Nat
  BY <1>1, BucketTypes, Sizes DEF BucketInv, BucketTypeOK, Position
<1>3. handled < wptr /\ handled' = handled + 1
  BY <1>1, FlagTells
<1>4. i % Laps \in 0..Laps-1 /\ Confirmed(i) = handled % Laps
  BY <1>2 DEF Confirmed, Congruent
<1>5. BucketTypeOK'
  <2>1. i' \in 0..Laps+Entries /\ handled' \in 0..MaxEvents
    BY <1>1, <1>2, <1>3
  <2>2. do_cnf' \in -1..Laps-1
    BY <1>1, <1>2, <1>4 DEF Confirmed
  <2> QED BY <1>1, <2>1, <2>2 DEF BucketInv, BucketTypeOK
<1>6. Page'
  BY <1>1 DEF BucketInv, Page, Holds
<1>7. Position'
  <2>1. Congruent(i', handled')
    BY <1>1, <1>2, <1>3, CongruentNext
  <2>2. handled' <= wptr /\ rptr <= i' /\ i' <= rptr + Entries
    BY <1>1, <1>2, <1>3
  <2> QED BY <1>1, <2>1, <2>2 DEF Position, Congruent
<1>8. Acked'
  <2>1. PICK a \in 0..MaxEvents : LastAck(a)
    BY DEF BucketInv, Acked
  <2>2. /\ ack = a % Laps /\ a <= handled /\ wptr <= a + Entries
        /\ do_cnf # -1 => \E c \in 0..MaxEvents : Confirming(c, a)
    BY <1>1, <2>1 DEF LastAck
  <2>3. ASSUME do_cnf' # -1 PROVE \E c \in 0..MaxEvents : Confirming(c, a)'
    <3>1. CASE i % AckEvery = AckEvery - 1
      <4>1. PICK c \in 0..MaxEvents : c = handled
        BY <1>2, <1>3
      <4>2. Confirming(c, a)'
        BY <1>1, <1>2, <1>3, <1>4, <2>2, <3>1, <4>1 DEF Confirming
      <4> QED BY <4>2
    <3>2. CASE i % AckEvery # AckEvery - 1
      <4>1. PICK c \in 0..MaxEvents : Confirming(c, a)
        BY <1>1, <2>2, <2>3, <3>2
      <4>2. Confirming(c, a)'
        BY <1>1, <1>2, <1>3, <3>2, <4>1 DEF Confirming
      <4> QED BY <4>2
    <3> QED BY <3>1, <3>2
  <2>4. a <= handled'
    BY <1>2, <1>3, <2>2
  <2>5. LastAck(a)'
    BY <1>1, <2>2, <2>3, <2>4 DEF LastAck
  <2> QED BY <2>5 DEF Acked
<1> QED BY <1>5, <1>6, <1>7, <1>8 DEF BucketInv

LEMMA StepIrqLeave ==
    ASSUME BucketInv, IrqLeave PROVE BucketInv'
<1>1. /\ pc = "scan" /\ rptr' = i % Laps
      /\ pc' = IF do_cnf = -1 THEN "idle" ELSE "ack"
      /\ UNCHANGED <<entry, i, do_cnf, msi, wptr, ack, handled>>
  BY DEF IrqLeave, Wrapped
<1>2. i \in Nat /\ Laps \in Nat \ {0} /\ Congruent(i, handled) /\ handled <= wptr
  BY <1>1, BucketTypes, Sizes DEF BucketInv, Position
<1>3. rptr' \in 0..Laps-1 /\ rptr' = handled % Laps
  BY <1>1, <1>2 DEF Congruent
<1>4. BucketTypeOK'
  BY <1>1, <1>3 DEF BucketInv, BucketTypeOK
<1>5. Page'
  BY <1>1 DEF BucketInv, Page, Holds
<1>6. Position'
  BY <1>1, <1>2, <1>3 DEF Position
<1>7. Acked'
  <2>1. PICK a \in 0..MaxEvents : LastAck(a)
    BY DEF BucketInv, Acked
  <2>2. LastAck(a)'
    BY <1>1, <2>1 DEF LastAck, Confirming
  <2> QED BY <2>2 DEF Acked
<1> QED BY <1>4, <1>5, <1>6, <1>7 DEF BucketInv

LEMMA StepIrqAck ==
    ASSUME BucketInv, IrqAck PROVE BucketInv'
<1>1. /\ pc = "ack" /\ pc' = "idle" /\ ack' = do_cnf
      /\ UNCHANGED <<entry, rptr, i, do_cnf, msi, wptr, handled>>
  BY DEF IrqAck
<1>2. do_cnf # -1 /\ do_cnf \in -1..Laps-1 /\ rptr = handled % Laps /\ handled <= wptr
  BY <1>1 DEF BucketInv, BucketTypeOK, Position
<1>3. ack' \in 0..Laps-1
  BY <1>1, <1>2, Sizes
<1>4. BucketTypeOK'
  BY <1>1, <1>3 DEF BucketInv, BucketTypeOK
<1>5. Page'
  BY <1>1 DEF BucketInv, Page, Holds
<1>6. Position'
  BY <1>1, <1>2 DEF Position
<1>7. Acked'
  <2>1. PICK a \in 0..MaxEvents : LastAck(a)
    BY DEF BucketInv, Acked
  <2>2. PICK c \in 0..MaxEvents : Confirming(c, a)
    BY <1>1, <1>2, <2>1 DEF LastAck
  <2>3. c <= handled /\ wptr <= c + Entries
    <3>1. c < handled /\ a <= c /\ wptr <= a + Entries
      BY <2>1, <2>2 DEF LastAck, Confirming
    <3> QED BY <3>1, BucketTypes, Sizes
  <2>4. LastAck(c)'
    BY <1>1, <2>2, <2>3 DEF LastAck, Confirming
  <2> QED BY <2>4 DEF Acked
<1> QED BY <1>4, <1>5, <1>6, <1>7 DEF BucketInv

LEMMA BucketStepInv ==
    ASSUME BucketInv, [BucketNext]_BucketVars PROVE BucketInv'
<1>1. CASE UNCHANGED BucketVars
  <2>1. BucketTypeOK' /\ Page' /\ Position'
    BY <1>1 DEF BucketInv, BucketVars, BucketTypeOK, Page, Holds, Position, Congruent
  <2>2. Acked'
    BY <1>1 DEF BucketInv, BucketVars, Acked, LastAck, Confirming
  <2> QED BY <2>1, <2>2 DEF BucketInv
<1> QED
  BY <1>1, StepDeviceWrite, StepIrqEnter, StepIrqEvent, StepIrqLeave, StepIrqAck
  DEF BucketNext

\* Pointers, confirmations and the page keep their ranges.
THEOREM BucketTypeCorrect == BucketSpec => []BucketTypeOK
<1>1. BucketInv /\ [BucketNext]_BucketVars => BucketInv'
  BY BucketStepInv
<1>2. BucketInv => BucketTypeOK
  BY DEF BucketInv
<1> QED BY <1>1, <1>2, BucketInitInv, PTL DEF BucketSpec

\* usdr_pcie_irq_bucket_128 goes on exactly as long as there is an event it has
\* not dispatched: no event is taken for an old one, however many laps the
\* device is ahead in time, and no old one for an event.
THEOREM BucketFlagsTell ==
    BucketSpec => [](pc = "scan" => (IsNew(i) <=> handled < wptr))
<1>1. BucketInv /\ [BucketNext]_BucketVars => BucketInv'
  BY BucketStepInv
<1>2. BucketInv => (pc = "scan" => (IsNew(i) <=> handled < wptr))
  BY FlagTells
<1> QED BY <1>1, <1>2, BucketInitInv, PTL DEF BucketSpec

-----------------------------------------------------------------------------
(* The refinement of BoundedFifo *)

LEMMA WaitingIs ==
    BucketInv => Waiting = Numbered(handled, wptr - handled)
<1> SUFFICES ASSUME BucketInv PROVE Waiting = Numbered(handled, wptr - handled)
  OBVIOUS
<1>1. /\ wptr \in Nat /\ handled \in Nat /\ handled <= wptr /\ wptr <= MaxEvents
      /\ wptr - handled <= Entries /\ Entries \in Nat /\ MaxEvents \in Nat
  BY BucketTypes, Sizes
<1>2. ASSUME NEW k \in 1..(wptr - handled)
      PROVE  entry[(handled + k - 1) % Entries].ev = handled + k
  <2> DEFINE n == handled + k - 1
  <2>1. n \in 0..MaxEvents /\ n < wptr /\ n + Entries >= wptr /\ n + 1 = handled + k
    BY <1>1
  <2> HIDE DEF n
  <2>2. Holds(n)
    BY <2>1 DEF BucketInv, Page
  <2>3. entry[n % Entries].ev = n + 1
    BY <2>2 DEF Holds
  <2> QED BY <2>1, <2>3 DEF n
<1> QED BY <1>2 DEF Waiting, Numbered

\* DeviceWrite is a Put, IrqEvent is a Take.
LEMMA BucketStepFifo ==
    ASSUME BucketInv, BucketInv', [BucketNext]_BucketVars
    PROVE  [Fifo!Next]_<<Waiting, wptr, handled>>
<1> DEFINE n == wptr - handled
<1>1. Waiting = Numbered(handled, n)
  BY WaitingIs
<1>2. Waiting' = Numbered(handled', n')
  <2>1. (BucketInv => Waiting = Numbered(handled, wptr - handled))'
    BY WaitingIs, PTL
  <2> QED BY <2>1
<1>3. /\ wptr \in Nat /\ handled \in Nat /\ n \in Nat /\ wptr = handled + n
      /\ Entries \in Nat
  BY BucketTypes, Sizes
<1>4. CASE DeviceWrite
  <2>1. wptr' = wptr + 1 /\ handled' = handled /\ n' = n + 1
    BY <1>3, <1>4 DEF DeviceWrite
  <2>2. n < Entries
    <3>1. PICK a \in 0..MaxEvents : LastAck(a)
      BY DEF BucketInv, Acked
    <3>2. wptr - a < Entries /\ a <= handled
      BY <1>4, <3>1, DeviceRoom DEF DeviceWrite, LastAck
    <3> QED BY <1>3, <3>2
  <2> HIDE DEF n
  <2>3. Waiting' = Append(Waiting, wptr') /\ Len(Waiting) = n
    BY <1>1, <1>2, <1>3, <2>1, NumberedAppend, NumberedSeq
  <2> QED BY <2>1, <2>2, <2>3 DEF Fifo!Next, Fifo!Put
<1>5. CASE IrqEvent
  <2>1. handled < wptr /\ handled' = handled + 1
    BY <1>5, FlagTells DEF IrqEvent
  <2>2. wptr' = wptr /\ n' = n - 1 /\ n > 0
    BY <1>3, <1>5, <2>1 DEF IrqEvent
  <2> HIDE DEF n
  <2>3. Waiting' = Tail(Waiting) /\ Waiting # << >> /\ Head(Waiting) = handled + 1
    BY <1>1, <1>2, <1>3, <2>1, <2>2, NumberedTail
  <2> QED BY <2>1, <2>2, <2>3 DEF Fifo!Next, Fifo!Take
<1>6. CASE wptr' = wptr /\ handled' = handled
  BY <1>1, <1>2, <1>6
<1> QED BY <1>4, <1>5, <1>6 DEF BucketNext, IrqEnter, IrqLeave, IrqAck, BucketVars

\* For every page size the bucket is a bounded first-in first-out queue: no
\* event is lost, dispatched twice or overwritten before it was dispatched.
THEOREM BucketImplementsFifo == BucketSpec => ImplementsFifo
<1>1. BucketInit => Fifo!Init
  BY DEF BucketInit, Fifo!Init, Waiting
<1>2. BucketInv /\ [BucketNext]_BucketVars => BucketInv'
  BY BucketStepInv
<1>3. BucketInv /\ BucketInv' /\ [BucketNext]_BucketVars =>
        [Fifo!Next]_<<Waiting, wptr, handled>>
  BY BucketStepFifo
<1> QED BY <1>1, <1>2, <1>3, BucketInitInv, PTL DEF BucketSpec, ImplementsFifo, Fifo!Spec

(***************************************************************************)
(* PcieStream, for every number of buffers and packets and every size of   *)
(* the log, also one that is smaller than the ring, as the driver's is.    *)
(*                                                                         *)
(* A record is on its way in three places: in the event bucket, in the log *)
(* of the driver, and in the cache of the library.  The proofs look at the *)
(* three as one queue, Pending, next to the queue of the filled buffers:   *)
(* the k-th record describes the k-th buffer.  That holds until the        *)
(* handler stores a record over one that is still to be copied (lapped);   *)
(* the counters agree and the buffers are safe all the same.               *)
(***************************************************************************)

InCall == IF call = "copy" THEN cnt ELSE 0

\* Records that are in the log and not taken from it, counted events only.
Logged == InCall + irq_ev_cnt

\* Filled buffers that were not handed out.
Out == bufavail + Logged + Len(bucket)

\* The records of these buffers, oldest first.
Pending == [k \in 1..Out |->
    IF k <= bufavail THEN oob_cache[oob_idx + k]
    ELSE IF k <= bufavail + Logged
         THEN stat_data[(stat_rptr + (k - bufavail - 1)) % LogSlots]
         ELSE bucket[k - bufavail - Logged]]

\* The buffer k places behind the next one to be handed out.
Pos(k) == (bno + k) % DmaBufs

\* The handler has stored the oldest event of the bucket, and moved the log
\* pointer past it.
Moved == IF irq = "logged" THEN 1 ELSE 0

\* Buffers the application works on.
InHand == IF held = -1 THEN 0 ELSE 1

\* The counters that are kept apart agree with one another.
Counters ==
    /\ dfree + Out + InHand = DmaBufs
    /\ stat_wptr = stat_rptr + Logged + Moved
    /\ Len(oob_cache) = oob_idx + bufavail
    /\ dbuf = Pos(Out)
    /\ held # -1 => bno = (held + 1) % DmaBufs
    /\ call = "copy" => bufavail = 0

\* While the handler works on an event, the record is in the log.
Handler ==
    /\ irq # "idle" => bucket # << >>
    /\ irq = "stored" => stat_data[stat_wptr % LogSlots] = bucket[1]
    /\ irq = "logged" => stat_data[(stat_wptr - 1) % LogSlots] = bucket[1]

\* Records and buffers belong together.
Paired == ~lapped => \A k \in 1..Out : Pending[k].seq = buf[Pos(k - 1)]

HeldPaired == held # -1 => (lapped \/ oob.seq = buf[held]) /\ buf[held] = last

\* The record before the k-th one ends where the k-th one begins to count.
From(k) == IF k = 1 THEN r_ts ELSE Pending[k - 1].seq + 1

\* The records account for all packets since the stream time.
Chained == ~lapped =>
    /\ \A k \in 1..Out : /\ Pending[k].seq = From(k) + Pending[k].lost
                         /\ Pending[k].seq < dseq
    /\ dseq = From(Out + 1) + dlost

\* While the stream is being set up again nothing is on its way.
Drained ==
    /\ bucket = << >> /\ irq = "idle"
    /\ stat_rptr = stat_wptr

Bounds ==
    /\ stat_wptr + Len(bucket) - Moved <= dseq
    /\ dlost <= dseq
    /\ Len(oob_cache) <= DmaBufs
    /\ run # "on" => call = "none" /\ held = -1 /\ reinits > 0

PcieInv ==
    /\ TypeOK
    /\ Bounds
    /\ HeldPaired
    /\ run = "flushed" => Drained
    /\ run # "flushed" => Counters /\ Handler /\ Paired
    /\ run # "flushed" /\ reinits = 0 => Chained

-----------------------------------------------------------------------------
Record == [seq : -1..MaxPackets, lost : 0..MaxPackets]

\* The type invariant, with the records as a set of their own.
LEMMA Types ==
    TypeOK <=>
      /\ bucket \in Seq(Record) /\ stat_data \in [0..LogSlots-1 -> Record]
      /\ oob_cache \in Seq(Record) /\ oob \in Record
      /\ irq \in {"idle", "stored", "logged"} /\ call \in {"none", "copy"}
      /\ run \in {"on", "off", "flushed"}
      /\ stat_wptr \in 0..MaxPackets /\ stat_rptr \in 0..MaxPackets
      /\ irq_ev_cnt \in 0..DmaBufs /\ cnt \in 0..DmaBufs /\ lapped \in BOOLEAN
      /\ buf \in [0..DmaBufs-1 -> -1..MaxPackets]
      /\ bufavail \in 0..DmaBufs /\ bno \in 0..DmaBufs-1 /\ oob_idx \in 0..DmaBufs
      /\ held \in -1..DmaBufs-1 /\ r_ts \in Nat /\ last \in -1..MaxPackets
      /\ reinits \in 0..MaxReinit
      /\ dseq \in 0..MaxPackets /\ dlost \in 0..MaxPackets
      /\ dbuf \in 0..DmaBufs-1 /\ dfree \in 0..DmaBufs
BY DEF TypeOK, Record

LEMMA RecordFields ==
    /\ \A r \in Record : r.seq \in Int /\ r.lost \in Nat
    /\ \A x \in -1..MaxPackets, y \in 0..MaxPackets : [seq |-> x, lost |-> y] \in Record
    /\ NoRecord \in Record
BY PcieAssumption DEF Record, NoRecord

\* What the counters say about one another, in the form the steps use it.
LEMMA CountersOK ==
    ASSUME TypeOK, Counters
    PROVE  /\ InCall \in Nat /\ Logged \in Nat /\ Len(bucket) \in Nat
           /\ bufavail \in Nat /\ Out \in Nat /\ bno \in Nat /\ dfree \in Nat
           /\ Out = bufavail + Logged + Len(bucket)
           /\ InHand \in {0, 1} /\ Out + InHand + dfree = DmaBufs
           /\ DOMAIN bucket = 1..Len(bucket)
           /\ DOMAIN oob_cache = 1..Len(oob_cache) /\ Len(oob_cache) \in Nat
           /\ stat_wptr \in Nat /\ stat_rptr \in Nat /\ oob_idx \in Nat
<1> USE PcieAssumption
<1>1. /\ InCall \in Nat /\ irq_ev_cnt \in Nat /\ Len(bucket) \in Nat /\ bufavail \in Nat
      /\ bno \in Nat /\ dfree \in Nat /\ InHand \in {0, 1}
  BY Types DEF InCall, InHand
<1>2. Logged \in Nat /\ Out \in Nat
  BY <1>1 DEF Logged, Out
<1>3. Out + InHand + dfree = DmaBufs
  BY <1>1, <1>2 DEF Counters
<1>4. /\ DOMAIN bucket = 1..Len(bucket)
      /\ DOMAIN oob_cache = 1..Len(oob_cache) /\ Len(oob_cache) \in Nat
      /\ stat_wptr \in Nat /\ stat_rptr \in Nat /\ oob_idx \in Nat
  BY Types
<1> QED BY <1>1, <1>2, <1>3, <1>4 DEF Out

\* The queue by its parts.
LEMMA PendingAt ==
    ASSUME NEW k \in 1..Out
    PROVE  /\ k <= bufavail => Pending[k] = oob_cache[oob_idx + k]
           /\ ~(k <= bufavail) /\ k <= bufavail + Logged =>
                Pending[k] = stat_data[(stat_rptr + (k - bufavail - 1)) % LogSlots]
           /\ ~(k <= bufavail) /\ ~(k <= bufavail + Logged) =>
                Pending[k] = bucket[k - bufavail - Logged]
BY DEF Pending

LEMMA ElementOf ==
    ASSUME NEW S, NEW q \in Seq(S), NEW j \in 1..Len(q) PROVE q[j] \in S
OBVIOUS

LEMMA PendingRecords ==
    ASSUME TypeOK, Counters, NEW k \in 1..Out
    PROVE  Pending[k] \in Record
<1> USE PcieAssumption
<1>1. CASE k <= bufavail
  <2>1. Len(oob_cache) = oob_idx + bufavail /\ oob_idx \in Nat /\ bufavail \in Nat
    BY CountersOK DEF Counters
  <2>2. oob_idx + k \in 1..Len(oob_cache)
    BY <1>1, <2>1
  <2>3. oob_cache[oob_idx + k] \in Record
    BY <2>2, Types, ElementOf
  <2> QED BY <1>1, <2>3, PendingAt
<1>2. CASE ~(k <= bufavail) /\ k <= bufavail + Logged
  <2> DEFINE m == stat_rptr + (k - bufavail - 1)
  <2>1. m \in Nat
    BY <1>2, CountersOK, SMTT(30)
  <2> HIDE DEF m
  <2>2. m % LogSlots \in 0..LogSlots-1
    BY <2>1
  <2> QED BY <1>2, <2>2, PendingAt, Types DEF m
<1>3. CASE ~(k <= bufavail) /\ ~(k <= bufavail + Logged)
  <2>1. k - bufavail - Logged \in 1..Len(bucket)
    BY <1>3, CountersOK, SMTT(30)
  <2>2. bucket[k - bufavail - Logged] \in Record
    BY <2>1, Types, ElementOf
  <2> QED BY <1>3, <2>2, PendingAt
<1> QED BY <1>1, <1>2, <1>3

LEMMA PosRange ==
    ASSUME TypeOK, NEW k \in Nat PROVE Pos(k) \in 0..DmaBufs-1
BY PcieAssumption, SMTT(30) DEF TypeOK, Pos

\* Buffers less than a lap apart are different ones.
LEMMA PosInjective ==
    ASSUME TypeOK, NEW j \in Nat, NEW k \in Nat, j < k, k - j < DmaBufs
    PROVE  Pos(j) # Pos(k)
<1>1. /\ bno + j \in Nat /\ bno + k \in Nat /\ bno + j < bno + k
      /\ (bno + k) - (bno + j) < DmaBufs /\ DmaBufs \in Nat \ {0}
  BY PcieAssumption DEF TypeOK
<1> QED BY <1>1, SlotInjective DEF Pos

\* The step neither adds to the queue of records nor takes from it, and loses
\* none, unless the log is lapped.
SameQueue ==
    /\ Out' = Out
    /\ ~lapped' => /\ ~lapped
                   /\ \A k \in 1..Out : Pending'[k] = Pending[k]

\* Such a step leaves records and buffers paired.
LEMMA QueueKept ==
    ASSUME SameQueue, UNCHANGED <<bno, buf, r_ts, dseq, dlost>>, Out \in Nat
    PROVE  /\ Paired => Paired'
           /\ Chained => Chained'
<1>1. Paired => Paired'
  BY DEF SameQueue, Paired, Pos
<1>2. ~lapped' => \A k \in 1..(Out + 1) : From(k)' = From(k)
  <2> SUFFICES ASSUME ~lapped', NEW k \in 1..(Out + 1) PROVE From(k)' = From(k)
    OBVIOUS
  <2>1. CASE k = 1
    BY <2>1 DEF From
  <2>2. CASE k # 1
    <3>1. k - 1 \in 1..Out
      BY <2>2
    <3> QED BY <2>2, <3>1 DEF From, SameQueue
  <2> QED BY <2>1, <2>2
<1>3. Chained => Chained'
  <2> SUFFICES ASSUME ~lapped', Chained PROVE Chained'
    BY DEF Chained
  <2>0. ~lapped
    BY DEF SameQueue
  <2>1. \A k \in 1..Out : k \in 1..(Out + 1)
    OBVIOUS
  <2>2. PICK m \in 1..(Out + 1) : m = Out + 1
    OBVIOUS
  <2>3. From(m)' = From(m) /\ m = Out' + 1
    BY <1>2, <2>2 DEF SameQueue
  <2>4. dseq' = From(m)' + dlost'
    BY <2>0, <2>2, <2>3 DEF Chained
  <2> QED BY <1>2, <2>0, <2>1, <2>3, <2>4 DEF SameQueue, Chained, From
<1> QED BY <1>1, <1>3

-----------------------------------------------------------------------------
(* The device *)

LEMMA StepDeviceFill ==
    ASSUME PcieInv, DeviceFill PROVE PcieInv'
<1> USE PcieAssumption
<1> DEFINE new == [seq |-> dseq, lost |-> dlost]
           n == Len(bucket)
<1>0. TypeOK /\ Bounds /\ HeldPaired /\ Counters /\ Handler /\ Paired /\ run = "on"
  BY DEF PcieInv, DeviceFill
<1>1. /\ bucket' = Append(bucket, new) /\ new \in Record
      /\ dseq \in Nat /\ dseq < MaxPackets /\ dseq' = dseq + 1 /\ dlost' = 0
      /\ buf' = [buf EXCEPT ![dbuf] = dseq]
      /\ dbuf' = (dbuf + 1) % DmaBufs
      /\ dfree \in Nat /\ dfree > 0 /\ dfree' = dfree - 1
      /\ UNCHANGED <<kernel, cache, app, conf>>
  <2>1. dseq \in 0..MaxPackets /\ dlost \in 0..MaxPackets /\ dfree \in Nat
    BY <1>0, Types
  <2>2. new \in Record
    BY <2>1, RecordFields
  <2> QED BY <2>1, <2>2 DEF DeviceFill
<1>2. /\ n \in Nat /\ bucket \in Seq(Record) /\ bucket' \in Seq(Record)
      /\ Len(bucket') = n + 1 /\ bucket'[n + 1] = new
      /\ \A k \in 1..n : bucket'[k] = bucket[k]
  <2>1. bucket \in Seq(Record) /\ bucket' = Append(bucket, new) /\ new \in Record
    BY <1>0, <1>1, Types
  <2> HIDE DEF new
  <2> QED BY <2>1, AppendProperties
<1> HIDE DEF new, n
<1>3. /\ bufavail' = bufavail /\ Logged' = Logged /\ Out' = Out + 1
      /\ oob_cache' = oob_cache /\ oob_idx' = oob_idx /\ Moved' = Moved
      /\ stat_data' = stat_data /\ stat_rptr' = stat_rptr /\ stat_wptr' = stat_wptr
  <2>1. /\ Logged' = Logged /\ bufavail' = bufavail
    BY <1>1 DEF Logged, InCall, kernel, cache
  <2>2. Out' = Out + 1
    BY <1>0, <1>2, <2>1, CountersOK, SMTT(30) DEF Out, n
  <2> QED BY <1>1, <2>1, <2>2 DEF kernel, cache, Moved
<1>4. /\ Out \in Nat /\ Out < DmaBufs /\ Out = bufavail + Logged + n
      /\ bufavail \in Nat /\ Logged \in Nat /\ n \in Nat
      /\ held # -1 => Out + 1 < DmaBufs
  <2>1. /\ Out \in Nat /\ Out = bufavail + Logged + n
        /\ bufavail \in Nat /\ Logged \in Nat
        /\ InHand \in {0, 1} /\ Out + InHand + dfree = DmaBufs
    BY <1>0, CountersOK DEF n
  <2>2. Out < DmaBufs /\ (InHand = 1 => Out + 1 < DmaBufs)
    BY <1>1, <2>1
  <2>3. held # -1 => InHand = 1
    BY DEF InHand
  <2> QED BY <1>2, <2>1, <2>2, <2>3
<1>5. /\ \A k \in 1..Out : Pending'[k] = Pending[k]
      /\ Pending'[Out + 1] = new
  <2>1. ASSUME NEW k \in 1..Out PROVE Pending'[k] = Pending[k]
    <3>1. k \in 1..(Out + 1) /\ k - bufavail - Logged <= n
      BY <1>4
    <3>2. ~(k <= bufavail + Logged) => k - bufavail - Logged \in 1..n
      BY <1>4
    <3> QED BY <1>2, <1>3, <3>1, <3>2 DEF Pending
  <2>2. Pending'[Out + 1] = new
    <3>1. /\ Out + 1 \in 1..(Out + 1)
          /\ ~(Out + 1 <= bufavail + Logged) /\ ~(Out + 1 <= bufavail)
          /\ (Out + 1) - bufavail - Logged = n + 1
      BY <1>2, <1>4
    <3>2. Pending'[Out + 1] = bucket'[(Out + 1) - bufavail - Logged]
      BY <1>3, <3>1 DEF Pending
    <3> QED BY <1>2, <3>1, <3>2
  <2> QED BY <2>1, <2>2
<1>6. TypeOK'
  <2>1. buf' \in [0..DmaBufs-1 -> -1..MaxPackets]
    BY <1>0, <1>1, Types
  <2>2. dbuf' \in 0..DmaBufs-1
    <3>1. dbuf \in Nat
      BY <1>0, Types
    <3>2. (dbuf + 1) % DmaBufs \in 0..DmaBufs-1
      BY <3>1
    <3> QED BY <1>1, <3>2
  <2>3. dfree' \in 0..DmaBufs /\ dseq' \in 0..MaxPackets /\ dlost' \in 0..MaxPackets
    BY <1>0, <1>1, Types
  <2> QED BY <1>0, <1>1, <1>2, <2>1, <2>2, <2>3
          DEF TypeOK, Record, kernel, cache, app, conf
<1>7. Bounds'
  <2>1. stat_wptr' + Len(bucket') - Moved' <= dseq'
    <3>1. stat_wptr \in Nat /\ Moved \in Nat /\ stat_wptr + n - Moved <= dseq
      BY <1>0, CountersOK DEF Bounds, Moved, n
    <3> QED BY <1>1, <1>2, <1>3, <3>1, SMTT(30)
  <2>2. dlost' <= dseq'
    BY <1>1
  <2> QED BY <1>0, <1>1, <2>1, <2>2 DEF Bounds, cache, app, conf
<1>8. Counters'
  <2>1. dbuf' = Pos(Out)'
    <3>0. bno \in Nat
      BY <1>0, Types
    <3>1. (Pos(Out) + 1) % DmaBufs = (bno + Out + 1) % DmaBufs
      <4>1. bno + Out \in Nat
        BY <1>4, <3>0
      <4> QED BY <4>1, ModAdd DEF Pos
    <3>2. bno + Out + 1 = bno + (Out + 1)
      BY <1>4, <3>0
    <3>3. dbuf' = (bno + (Out + 1)) % DmaBufs
      BY <1>0, <1>1, <3>1, <3>2 DEF Counters
    <3> QED BY <1>1, <1>3, <3>3 DEF Pos, cache
  <2>2. dfree' + Out' + InHand' = DmaBufs
    <3>1. InHand' = InHand /\ InHand \in {0, 1} /\ Out + InHand + dfree = DmaBufs
      BY <1>0, <1>1, CountersOK DEF InHand, app
    <3> QED BY <1>1, <1>3, <1>4, <3>1
  <2> QED BY <1>0, <1>1, <1>3, <2>1, <2>2 DEF Counters, kernel, cache, app
<1>9. Handler'
  <2>1. bucket # << >> => n > 0 /\ bucket'[1] = bucket[1] /\ bucket' # << >>
    BY <1>2 DEF n
  <2> QED BY <1>0, <1>1, <1>3, <2>1 DEF Handler, kernel
<1>10. \A k \in 1..Out : buf'[Pos(k - 1)] = buf[Pos(k - 1)]
  <2> SUFFICES ASSUME NEW k \in 1..Out PROVE buf'[Pos(k - 1)] = buf[Pos(k - 1)]
    OBVIOUS
  <2>1. k - 1 \in Nat /\ k - 1 < Out /\ Out - (k - 1) < DmaBufs
    BY <1>4
  <2>2. Pos(k - 1) # dbuf /\ Pos(k - 1) \in 0..DmaBufs-1
    BY <1>0, <1>4, <2>1, PosInjective, PosRange DEF Counters
  <2> QED BY <1>0, <1>1, <2>2 DEF TypeOK
<1>11. Paired'
  <2> SUFFICES ASSUME ~lapped' PROVE Paired'
    BY DEF Paired
  <2>0. ~lapped
    BY <1>1 DEF kernel
  <2>1. Pos(Out) = dbuf /\ buf'[dbuf] = dseq
    BY <1>0, <1>1 DEF Counters, TypeOK
  <2>2. ASSUME NEW k \in 1..(Out + 1) PROVE Pending'[k].seq = buf'[Pos(k - 1)]
    <3>1. CASE k \in 1..Out
      BY <1>0, <1>5, <1>10, <2>0, <3>1 DEF Paired
    <3>2. CASE k = Out + 1
      <4>1. k - 1 = Out /\ new.seq = dseq
        BY <1>4, <3>2 DEF new
      <4> QED BY <1>5, <2>1, <3>2, <4>1
    <3> QED BY <1>4, <3>1, <3>2
  <2>3. \A k \in 1..(Out + 1) : Pos(k - 1)' = Pos(k - 1)
    BY <1>1 DEF Pos, cache
  <2> QED BY <1>3, <2>2, <2>3 DEF Paired
<1>12. HeldPaired'
  <2> SUFFICES ASSUME held # -1 PROVE buf'[held] = buf[held]
    BY <1>0, <1>1 DEF HeldPaired, app, kernel
  <2>1. held \in 0..DmaBufs-1 /\ held \in Nat /\ bno = (held + 1) % DmaBufs
    BY <1>0 DEF TypeOK, Counters
  <2>2. dbuf = (held + 1 + Out) % DmaBufs
    <3>1. held + 1 \in Nat
      BY <2>1
    <3>2. (((held + 1) % DmaBufs) + Out) % DmaBufs = (held + 1 + Out) % DmaBufs
      BY <1>4, <3>1, ModAdd
    <3> QED BY <1>0, <2>1, <3>2 DEF Counters, Pos
  <2>3. held % DmaBufs = held
    BY <2>1, NoWrap
  <2>4. /\ held < held + 1 + Out /\ (held + 1 + Out) - held < DmaBufs
        /\ held + 1 + Out \in Nat
    BY <1>4, <2>1
  <2>5. held # dbuf
    BY <2>1, <2>2, <2>3, <2>4, SlotInjective
  <2> QED BY <1>0, <1>1, <2>1, <2>5 DEF TypeOK
<1>13. ASSUME Chained PROVE Chained'
  <2> SUFFICES ASSUME ~lapped' PROVE Chained'
    BY DEF Chained
  <2>0. ~lapped
    BY <1>1 DEF kernel
  <2>1. \A k \in 1..(Out + 1) : From(k)' = From(k)
    <3> SUFFICES ASSUME NEW k \in 1..(Out + 1) PROVE From(k)' = From(k)
      OBVIOUS
    <3>1. CASE k = 1
      BY <1>1, <3>1 DEF From, app
    <3>2. CASE k # 1
      <4>1. k - 1 \in 1..Out
        BY <1>4, <3>2
      <4> QED BY <1>5, <3>2, <4>1 DEF From
    <3> QED BY <3>1, <3>2
  <2>2. new.seq = dseq /\ new.lost = dlost
    BY DEF new
  <2>3. dseq = From(Out + 1) + dlost
    BY <1>13, <2>0 DEF Chained
  <2>4. ASSUME NEW k \in 1..(Out + 1)
        PROVE  /\ Pending'[k].seq = From(k)' + Pending'[k].lost
               /\ Pending'[k].seq < dseq'
    <3>1. CASE k \in 1..Out
      <4>1. /\ Pending[k].seq = From(k) + Pending[k].lost /\ Pending[k].seq < dseq
            /\ Pending[k] \in Record
        BY <1>0, <1>13, <2>0, <3>1, PendingRecords DEF Chained
      <4>2. Pending[k].seq < dseq + 1
        BY <1>1, <4>1, RecordFields
      <4> QED BY <1>1, <1>5, <2>1, <3>1, <4>1, <4>2
    <3>2. CASE k = Out + 1
      <4>1. Pending'[k] = new /\ From(k)' = From(Out + 1)
        BY <1>5, <2>1, <3>2
      <4> QED BY <1>1, <2>2, <2>3, <4>1
    <3> QED BY <1>4, <3>1, <3>2
  <2>5. dseq' = Pending'[Out + 1].seq + 1 + dlost'
    BY <1>1, <1>5, <2>2
  <2>6. Out' + 1 # 1 /\ (Out' + 1) - 1 = Out + 1
    BY <1>3, <1>4
  <2> QED BY <1>3, <2>4, <2>5, <2>6 DEF Chained, From
<1> QED BY <1>0, <1>1, <1>6, <1>7, <1>8, <1>9, <1>11, <1>12, <1>13 DEF PcieInv, conf

LEMMA StepDeviceDrop ==
    ASSUME PcieInv, DeviceDrop PROVE PcieInv'
<1> USE PcieAssumption
<1>1. /\ TypeOK /\ run = "on" /\ dseq < MaxPackets
      /\ dseq' = dseq + 1 /\ dlost' = dlost + 1
      /\ UNCHANGED <<bucket, kernel, cache, app, buf, dbuf, dfree, conf>>
      /\ dseq \in Nat /\ dlost \in Nat /\ dlost <= dseq
  BY Types DEF PcieInv, DeviceDrop, Bounds
<1>2. Out' = Out /\ Logged' = Logged /\ Pending' = Pending /\ Moved' = Moved
  BY <1>1 DEF Out, Logged, InCall, Pending, Moved, kernel, cache
<1>3. TypeOK'
  BY <1>1, SMTT(30) DEF TypeOK, kernel, cache, app, conf
<1>4. Bounds'
  BY <1>1, <1>2, SMTT(30) DEF PcieInv, Bounds, TypeOK, Moved, kernel, cache, app, conf
<1>5. HeldPaired' /\ Counters' /\ Handler' /\ Paired'
  <2>1. HeldPaired /\ Counters /\ Handler /\ Paired
    BY <1>1 DEF PcieInv
  <2>2. HeldPaired' /\ Handler'
    BY <1>1, <2>1 DEF HeldPaired, Handler, kernel, app
  <2>3. Counters'
    BY <1>1, <1>2, <2>1 DEF Counters, InHand, Pos, kernel, cache, app
  <2>4. Paired'
    BY <1>1, <1>2, <2>1 DEF Paired, Pos, cache, kernel
  <2> QED BY <2>2, <2>3, <2>4
<1>6. ASSUME Chained PROVE Chained'
  <2> SUFFICES ASSUME ~lapped' PROVE Chained'
    BY DEF Chained
  <2>0. ~lapped
    BY <1>1 DEF kernel
  <2>1. \A k : From(k)' = From(k)
    BY <1>1, <1>2 DEF From, app
  <2>2. \A k \in 1..Out : Pending[k].seq < dseq + 1
    <3> SUFFICES ASSUME NEW k \in 1..Out PROVE Pending[k].seq < dseq + 1
      OBVIOUS
    <3>1. Pending[k].seq < dseq /\ Pending[k].seq \in Int
      BY <1>1, <1>6, <2>0, PendingRecords, RecordFields DEF Chained, PcieInv
    <3> QED BY <1>1, <3>1
  <2>3. From(Out + 1) \in Int
    <3>1. CASE Out = 0
      BY <1>1, <3>1 DEF From, TypeOK
    <3>2. CASE Out # 0
      <4>1. Out \in 1..Out /\ Out + 1 # 1 /\ (Out + 1) - 1 = Out
        BY <1>1, <3>2, CountersOK, SMTT(30) DEF PcieInv
      <4>2. Pending[Out].seq \in Int
        BY <1>1, <4>1, PendingRecords, RecordFields DEF PcieInv
      <4> QED BY <4>1, <4>2 DEF From
    <3> QED BY <3>1, <3>2
  <2>4. dseq' = From(Out + 1) + dlost'
    BY <1>1, <1>6, <2>0, <2>3 DEF Chained
  <2> QED BY <1>1, <1>2, <1>6, <2>0, <2>1, <2>2, <2>4 DEF Chained
<1> QED BY <1>1, <1>3, <1>4, <1>5, <1>6 DEF PcieInv, conf

-----------------------------------------------------------------------------
(* The interrupt handler *)

\* The handler touches nothing of the application, the device or the set-up.
Elsewhere == UNCHANGED <<cache, app, device, conf>>

\* What is left to show of a step of the handler: the records, the counters
\* of the log, and the handler's own state.
LEMMA HandlerStep ==
    ASSUME PcieInv, run # "flushed", Elsewhere, SameQueue,
           bucket' \in Seq(Record), stat_data' \in [0..LogSlots-1 -> Record],
           irq' \in {"idle", "stored", "logged"},
           stat_wptr' \in 0..MaxPackets, stat_rptr' = stat_rptr,
           irq_ev_cnt' \in 0..DmaBufs, lapped' \in BOOLEAN,
           stat_wptr' = stat_rptr + Logged' + Moved',
           stat_wptr' + Len(bucket') - Moved' <= dseq,
           Handler'
    PROVE  PcieInv'
<1> USE PcieAssumption
<1>1. /\ TypeOK /\ Bounds /\ HeldPaired /\ Counters /\ Paired
      /\ reinits = 0 => Chained
  BY DEF PcieInv
<1>2. Out' = Out /\ Out \in Nat
  BY <1>1, CountersOK DEF SameQueue
<1>3. TypeOK'
  BY <1>1 DEF TypeOK, Record, Elsewhere, cache, app, device, conf
<1>4. Bounds'
  BY <1>1 DEF Bounds, Elsewhere, cache, app, device, conf
<1>5. HeldPaired'
  BY <1>1 DEF HeldPaired, SameQueue, Elsewhere, app, device
<1>6. Counters'
  BY <1>1, <1>2 DEF Counters, InHand, Pos, Elsewhere, cache, app, device
<1>7. Paired' /\ (Chained => Chained')
  BY <1>1, <1>2, QueueKept DEF Elsewhere, cache, app, device
<1>8. run' # "flushed" /\ reinits' = reinits
  BY DEF Elsewhere, conf
<1> QED BY <1>1, <1>3, <1>4, <1>5, <1>6, <1>7, <1>8 DEF PcieInv

\* In the "flushed" state there is no event to handle.
LEMMA HandlerIdle ==
    ASSUME PcieInv, Irq PROVE run # "flushed"
BY DEF PcieInv, Drained, Irq, IrqStore, IrqLog, IrqCount

\* The record goes behind the ones in the log, which has room for it unless
\* the log is lapped.
LEMMA StepIrqStore ==
    ASSUME PcieInv, IrqStore PROVE PcieInv'
<1> USE PcieAssumption
<1>1. /\ TypeOK /\ Bounds /\ Counters /\ Handler /\ run # "flushed"
  BY HandlerIdle DEF PcieInv, Irq
<1>2. /\ irq = "idle" /\ bucket # << >> /\ irq' = "stored"
      /\ stat_data' = [stat_data EXCEPT ![stat_wptr % LogSlots] = Head(bucket)]
      /\ lapped' = (lapped \/ stat_wptr - stat_rptr >= LogSlots)
      /\ UNCHANGED <<bucket, stat_wptr, stat_rptr, irq_ev_cnt>> /\ Elsewhere
  BY DEF IrqStore, Elsewhere
<1>3. /\ bucket \in Seq(Record) /\ Len(bucket) \in Nat /\ Len(bucket) > 0
      /\ Head(bucket) = bucket[1] /\ bucket[1] \in Record
      /\ stat_data \in [0..LogSlots-1 -> Record]
      /\ stat_wptr \in 0..MaxPackets /\ stat_rptr \in Nat
      /\ irq_ev_cnt \in 0..DmaBufs
  <2>1. /\ bucket \in Seq(Record) /\ stat_data \in [0..LogSlots-1 -> Record]
        /\ stat_wptr \in 0..MaxPackets /\ stat_rptr \in Nat
        /\ irq_ev_cnt \in 0..DmaBufs
    BY <1>1, Types
  <2>2. Len(bucket) \in Nat /\ Len(bucket) > 0 /\ Head(bucket) = bucket[1]
    BY <1>2, <2>1
  <2>3. bucket[1] \in Record
    BY <2>1, <2>2, ElementOf
  <2> QED BY <2>1, <2>2, <2>3
<1>4. /\ Logged' = Logged /\ Out' = Out /\ bufavail' = bufavail /\ oob_cache' = oob_cache
      /\ oob_idx' = oob_idx /\ Moved = 0 /\ Moved' = 0
  BY <1>2 DEF Logged, Out, InCall, Moved, Elsewhere, cache
<1>5. /\ Logged \in Nat /\ Logged < DmaBufs /\ bufavail \in Nat
      /\ stat_wptr = stat_rptr + Logged
  <2>1. /\ Logged \in Nat /\ bufavail \in Nat /\ Out = bufavail + Logged + Len(bucket)
        /\ InHand \in {0, 1} /\ Out + InHand + dfree = DmaBufs /\ dfree \in Nat
    BY <1>1, CountersOK
  <2>2. stat_wptr = stat_rptr + Logged + Moved
    BY <1>1 DEF Counters
  <2> QED BY <1>3, <1>4, <2>1, <2>2
<1>6. stat_wptr % LogSlots \in 0..LogSlots-1
  BY <1>3
<1>7. SameQueue
  <2> SUFFICES ASSUME ~lapped', NEW k \in 1..Out PROVE Pending'[k] = Pending[k]
    BY <1>2, <1>4 DEF SameQueue
  <2>0. stat_wptr - stat_rptr < LogSlots
    <3>1. ~(stat_wptr - stat_rptr >= LogSlots)
      BY <1>2, Zenon
    <3> QED BY <1>3, <3>1
  <2>1. CASE ~(k <= bufavail) /\ k <= bufavail + Logged
    <3> DEFINE m == stat_rptr + (k - bufavail - 1)
    <3>1. m \in Nat /\ m < stat_wptr /\ stat_wptr - m < LogSlots
      BY <1>3, <1>5, <2>0, <2>1
    <3> HIDE DEF m
    <3>2. m % LogSlots # stat_wptr % LogSlots /\ m % LogSlots \in 0..LogSlots-1
      <4>1. stat_wptr \in Nat /\ LogSlots \in Nat \ {0}
        BY <1>3
      <4>2. m % LogSlots # stat_wptr % LogSlots
        BY <3>1, <4>1, SlotInjective
      <4>3. m % LogSlots \in 0..LogSlots-1
        BY <3>1, <4>1
      <4> QED BY <4>2, <4>3
    <3>3. stat_data'[m % LogSlots] = stat_data[m % LogSlots]
      BY <1>2, <1>3, <1>6, <3>2
    <3>4. Pending[k] = stat_data[m % LogSlots]
      BY <2>1, PendingAt DEF m
    <3>5. Pending'[k] = stat_data'[m % LogSlots]
      BY <1>2, <1>4, <2>1 DEF Pending, m
    <3> QED BY <3>3, <3>4, <3>5
  <2>2. CASE k <= bufavail \/ ~(k <= bufavail + Logged)
    <3>1. k <= bufavail => k <= bufavail + Logged
      BY <1>5
    <3> QED BY <1>2, <1>4, <2>2, <3>1 DEF Pending
  <2> QED BY <2>1, <2>2
<1>8. Handler'
  BY <1>2, <1>3, <1>6 DEF Handler
<1>9. stat_data' \in [0..LogSlots-1 -> Record]
  BY <1>2, <1>3, <1>6
<1>10. stat_wptr' = stat_rptr + Logged' + Moved'
  BY <1>2, <1>3, <1>4, <1>5
<1>11. stat_wptr' + Len(bucket') - Moved' <= dseq
  BY <1>1, <1>2, <1>4 DEF Bounds
<1>12. lapped' \in BOOLEAN
  BY <1>2
<1> QED BY <1>1, <1>2, <1>3, <1>7, <1>8, <1>9, <1>10, <1>11, <1>12, HandlerStep

\* Moving the log pointer makes nothing available yet.
LEMMA StepIrqLog ==
    ASSUME PcieInv, IrqLog PROVE PcieInv'
<1> USE PcieAssumption
<1>1. /\ TypeOK /\ Bounds /\ Counters /\ Handler /\ run # "flushed"
  BY HandlerIdle DEF PcieInv, Irq
<1>2. /\ irq = "stored" /\ irq' = "logged" /\ stat_wptr' = stat_wptr + 1
      /\ UNCHANGED <<bucket, stat_data, stat_rptr, irq_ev_cnt, lapped>> /\ Elsewhere
  BY DEF IrqLog, Elsewhere
<1>3. /\ bucket \in Seq(Record) /\ Len(bucket) \in Nat /\ Len(bucket) > 0
      /\ stat_data \in [0..LogSlots-1 -> Record]
      /\ stat_wptr \in Nat /\ stat_rptr \in Nat /\ dseq \in 0..MaxPackets
      /\ irq_ev_cnt \in 0..DmaBufs /\ Logged \in Nat /\ lapped \in BOOLEAN
  <2>1. /\ bucket \in Seq(Record) /\ stat_data \in [0..LogSlots-1 -> Record]
        /\ stat_wptr \in Nat /\ stat_rptr \in Nat /\ dseq \in 0..MaxPackets
        /\ irq_ev_cnt \in 0..DmaBufs /\ Logged \in Nat /\ lapped \in BOOLEAN
    BY <1>1, Types, CountersOK
  <2>2. bucket # << >>
    BY <1>1, <1>2 DEF Handler
  <2> QED BY <2>1, <2>2
<1>4. /\ Moved = 0 /\ Moved' = 1 /\ Logged' = Logged
  BY <1>2 DEF Moved, Logged, InCall, Elsewhere, cache
<1>5. SameQueue
  BY <1>2, <1>4 DEF SameQueue, Pending, Out, Elsewhere, cache
<1>6. /\ stat_wptr = stat_rptr + Logged + Moved
      /\ stat_wptr + Len(bucket) - Moved <= dseq
  BY <1>1 DEF Counters, Bounds
<1>7. /\ stat_wptr' = stat_rptr + Logged' + Moved'
      /\ stat_wptr' + Len(bucket') - Moved' <= dseq
      /\ stat_wptr' \in 0..MaxPackets /\ stat_wptr' - 1 = stat_wptr
  BY <1>2, <1>3, <1>4, <1>6
<1>8. Handler'
  BY <1>1, <1>2, <1>7 DEF Handler
<1> QED BY <1>1, <1>2, <1>3, <1>5, <1>7, <1>8, HandlerStep

\* Counting the event moves its record from the bucket to the log.
LEMMA StepIrqCount ==
    ASSUME PcieInv, IrqCount PROVE PcieInv'
<1> USE PcieAssumption
<1> DEFINE n == Len(bucket)
<1>1. /\ TypeOK /\ Bounds /\ Counters /\ Handler /\ run # "flushed"
  BY HandlerIdle DEF PcieInv, Irq
<1>2. /\ irq = "logged" /\ irq' = "idle" /\ irq_ev_cnt' = irq_ev_cnt + 1
      /\ bucket' = Tail(bucket)
      /\ UNCHANGED <<stat_data, stat_wptr, stat_rptr, lapped>> /\ Elsewhere
  BY DEF IrqCount, Counted, Elsewhere
<1>3. /\ bucket \in Seq(Record) /\ n \in Nat /\ n > 0 /\ bucket # << >>
      /\ stat_data \in [0..LogSlots-1 -> Record]
      /\ stat_wptr \in 0..MaxPackets /\ stat_rptr \in Nat /\ dseq \in Nat
      /\ irq_ev_cnt \in Nat /\ Logged \in Nat /\ bufavail \in Nat /\ InCall \in Nat
      /\ lapped \in BOOLEAN
  <2>1. /\ bucket \in Seq(Record) /\ stat_data \in [0..LogSlots-1 -> Record]
        /\ stat_wptr \in 0..MaxPackets /\ stat_rptr \in Nat /\ dseq \in Nat
        /\ irq_ev_cnt \in Nat /\ Logged \in Nat /\ bufavail \in Nat /\ InCall \in Nat
        /\ lapped \in BOOLEAN
    BY <1>1, Types, CountersOK
  <2>2. bucket # << >>
    BY <1>1, <1>2 DEF Handler
  <2> QED BY <2>1, <2>2
<1>4. /\ bucket' \in Seq(Record) /\ Len(bucket') = n - 1
      /\ \A k \in 1..(n - 1) : bucket'[k] = bucket[k + 1]
  BY <1>2, <1>3, HeadTailProperties
<1> HIDE DEF n
<1>5. /\ Moved = 1 /\ Moved' = 0 /\ bufavail' = bufavail
      /\ Logged' = Logged + 1 /\ Out' = Out /\ Out = bufavail + Logged + n
  <2>1. Moved = 1 /\ Moved' = 0 /\ bufavail' = bufavail /\ InCall' = InCall
    BY <1>2 DEF Moved, InCall, Elsewhere, cache
  <2>2. Logged' = Logged + 1
    BY <1>2, <1>3, <2>1 DEF Logged
  <2>3. Out = bufavail + Logged + n
    BY DEF Out, n
  <2>4. Out' = bufavail' + Logged' + Len(bucket')
    BY DEF Out
  <2> QED BY <1>3, <1>4, <2>1, <2>2, <2>3, <2>4
<1>6. /\ stat_wptr = stat_rptr + Logged + 1
      /\ stat_wptr + n - 1 <= dseq
  BY <1>1, <1>5 DEF Counters, Bounds, n
<1>7. SameQueue
  <2> SUFFICES ASSUME NEW k \in 1..Out PROVE Pending'[k] = Pending[k]
    BY <1>2, <1>5, Zenon DEF SameQueue
  <2>1. CASE k <= bufavail + Logged
    <3>1. k <= bufavail + (Logged + 1)
      BY <1>3, <2>1
    <3> QED BY <1>2, <1>5, <2>1, <3>1 DEF Pending, Elsewhere, cache
  <2>2. CASE k = bufavail + Logged + 1
    <3>1. /\ ~(k <= bufavail) /\ ~(k <= bufavail + Logged) /\ k <= bufavail + (Logged + 1)
          /\ k - bufavail - Logged = 1 /\ stat_rptr + (k - bufavail - 1) = stat_wptr - 1
      BY <1>3, <1>6, <2>2
    <3>2. Pending[k] = bucket[1]
      BY <3>1, PendingAt
    <3>3. Pending'[k] = stat_data[(stat_wptr - 1) % LogSlots]
      BY <1>2, <1>5, <3>1 DEF Pending
    <3> QED BY <1>1, <1>2, <3>2, <3>3 DEF Handler
  <2>3. CASE k > bufavail + Logged + 1
    <3>1. /\ ~(k <= bufavail) /\ ~(k <= bufavail + Logged) /\ ~(k <= bufavail + (Logged + 1))
          /\ k - bufavail - (Logged + 1) \in 1..(n - 1)
          /\ (k - bufavail - (Logged + 1)) + 1 = k - bufavail - Logged
      BY <1>3, <1>5, <2>3
    <3>2. Pending[k] = bucket[k - bufavail - Logged]
      BY <3>1, PendingAt
    <3>3. Pending'[k] = bucket'[k - bufavail - (Logged + 1)]
      BY <1>5, <3>1 DEF Pending
    <3> QED BY <1>4, <3>1, <3>2, <3>3
  <2> QED BY <1>3, <2>1, <2>2, <2>3
<1>8. irq_ev_cnt' \in 0..DmaBufs
  <2>1. InHand \in {0, 1} /\ Out + InHand + dfree = DmaBufs /\ dfree \in Nat
    BY <1>1, CountersOK
  <2>2. Logged = InCall + irq_ev_cnt
    BY DEF Logged
  <2> QED BY <1>2, <1>3, <1>5, <2>1, <2>2
<1>9. Handler'
  BY <1>2 DEF Handler
<1>10. /\ stat_wptr' = stat_rptr + Logged' + Moved'
       /\ stat_wptr' + Len(bucket') - Moved' <= dseq
  BY <1>2, <1>3, <1>4, <1>5, <1>6
<1> QED BY <1>1, <1>2, <1>3, <1>4, <1>7, <1>8, <1>9, <1>10, HandlerStep

-----------------------------------------------------------------------------
(* The application *)

\* Taking the count leaves the records where they are.
LEMMA StepWaitTake ==
    ASSUME PcieInv, WaitTake PROVE PcieInv'
<1> USE PcieAssumption
<1>1. /\ TypeOK /\ Bounds /\ HeldPaired /\ Counters /\ Handler /\ Paired
      /\ run = "on" /\ (reinits = 0 => Chained)
  BY DEF PcieInv, WaitTake, Configured
<1>2. /\ call = "none" /\ call' = "copy" /\ bufavail = 0
      /\ cnt' = irq_ev_cnt /\ irq_ev_cnt' = 0
      /\ UNCHANGED <<bucket, irq, stat_data, stat_wptr, stat_rptr, lapped, bufavail,
                     bno, oob_cache, oob_idx, app, device, conf>>
  BY DEF WaitTake, Taken
<1>3. /\ Logged' = Logged /\ Out' = Out /\ Moved' = Moved
  <2>1. irq_ev_cnt \in Nat
    BY <1>1, Types
  <2>2. Logged' = Logged
    BY <1>2, <2>1 DEF Logged, InCall
  <2> QED BY <1>2, <2>2 DEF Out, Moved
<1>4. SameQueue
  BY <1>2, <1>3 DEF SameQueue, Pending
<1>5. TypeOK'
  BY <1>1, <1>2 DEF TypeOK, app, device, conf
<1>6. Bounds' /\ HeldPaired' /\ Handler'
  BY <1>1, <1>2, <1>3 DEF Bounds, HeldPaired, Handler, app, device, conf
<1>7. Counters'
  BY <1>1, <1>2, <1>3 DEF Counters, InHand, Pos, app, device
<1>8. Paired' /\ (Chained => Chained')
  BY <1>1, <1>2, <1>4, QueueKept, CountersOK DEF app, device
<1> QED BY <1>1, <1>2, <1>5, <1>6, <1>7, <1>8 DEF PcieInv, conf

\* The records of the counted events go from the log to the cache: as many as
\* were counted, whatever was logged since.
LEMMA StepWaitCopy ==
    ASSUME PcieInv, WaitCopy PROVE PcieInv'
<1> USE PcieAssumption
<1>1. /\ TypeOK /\ Bounds /\ HeldPaired /\ Counters /\ Handler /\ Paired
      /\ run = "on" /\ (reinits = 0 => Chained) /\ bufavail = 0
  BY DEF PcieInv, WaitCopy, Bounds, Drained, Counters
<1>2. /\ call = "copy" /\ call' = "none"
      /\ oob_cache' = [k \in 1..(CopyEnd - stat_rptr) |->
                          stat_data[(stat_rptr + k - 1) % LogSlots]]
      /\ stat_rptr' = CopyEnd /\ bufavail' = cnt /\ oob_idx' = 0
      /\ UNCHANGED <<bucket, irq, stat_data, stat_wptr, irq_ev_cnt, lapped, cnt, bno,
                     app, device, conf>>
  BY DEF WaitCopy
<1>3. /\ cnt \in 0..DmaBufs /\ irq_ev_cnt \in Nat /\ Len(bucket) \in Nat
      /\ stat_rptr \in Nat /\ stat_wptr \in 0..MaxPackets /\ Moved \in Nat
      /\ stat_data \in [0..LogSlots-1 -> Record]
      /\ Logged = cnt + irq_ev_cnt /\ Logged' = irq_ev_cnt /\ Moved' = Moved
      /\ stat_wptr = stat_rptr + Logged + Moved
  <2>1. /\ cnt \in 0..DmaBufs /\ irq_ev_cnt \in Nat /\ Len(bucket) \in Nat
        /\ stat_rptr \in Nat /\ stat_wptr \in 0..MaxPackets /\ Moved \in Nat
        /\ stat_data \in [0..LogSlots-1 -> Record]
    BY <1>1, Types, CountersOK DEF Moved
  <2>2. InCall = cnt /\ InCall' = 0 /\ Moved' = Moved
    BY <1>2 DEF InCall, Moved
  <2>3. Logged = cnt + irq_ev_cnt /\ Logged' = irq_ev_cnt
    BY <1>2, <2>1, <2>2 DEF Logged
  <2> QED BY <1>1, <2>1, <2>2, <2>3 DEF Counters
<1>4. CopyEnd = stat_rptr + cnt /\ CopyEnd - stat_rptr = cnt /\ CopyEnd <= stat_wptr
  BY <1>3 DEF CopyEnd
<1>5. /\ oob_cache' = [k \in 1..cnt |-> stat_data[(stat_rptr + k - 1) % LogSlots]]
      /\ stat_rptr' = stat_rptr + cnt
  BY <1>2, <1>4
<1>6. oob_cache' \in Seq(Record) /\ Len(oob_cache') = cnt
  <2>1. \A k \in 1..cnt : stat_data[(stat_rptr + k - 1) % LogSlots] \in Record
    <3> SUFFICES ASSUME NEW k \in 1..cnt
                 PROVE  stat_data[(stat_rptr + k - 1) % LogSlots] \in Record
      OBVIOUS
    <3>1. stat_rptr + k - 1 \in Nat
      BY <1>3
    <3>2. (stat_rptr + k - 1) % LogSlots \in 0..LogSlots-1
      BY <3>1
    <3> QED BY <1>3, <3>2
  <2> QED BY <1>3, <1>5, <2>1
<1>7. Out = cnt + irq_ev_cnt + Len(bucket) /\ Out' = Out
  BY <1>1, <1>2, <1>3 DEF Out
<1>8. SameQueue
  <2> SUFFICES ASSUME NEW k \in 1..Out PROVE Pending'[k] = Pending[k]
    BY <1>2, <1>7, Zenon DEF SameQueue
  <2>0. ~(k <= 0) /\ k \in Nat
    OBVIOUS
  <2>1. CASE k <= cnt
    <3>1. /\ k \in 1..cnt /\ k <= 0 + Logged
          /\ stat_rptr + (k - 0 - 1) = stat_rptr + k - 1 /\ 0 + k = k
      BY <1>3, <2>0, <2>1
    <3>2. Pending[k] = stat_data[(stat_rptr + k - 1) % LogSlots]
      BY <1>1, <2>0, <3>1, PendingAt
    <3>3. Pending'[k] = oob_cache'[0 + k]
      BY <1>2, <1>7, <2>1 DEF Pending
    <3> QED BY <1>5, <3>1, <3>2, <3>3
  <2>2. CASE ~(k <= cnt) /\ k <= cnt + irq_ev_cnt
    <3>1. /\ k <= 0 + Logged
          /\ stat_rptr + (k - 0 - 1) = (stat_rptr + cnt) + (k - cnt - 1)
      BY <1>3, <2>0, <2>2
    <3>2. Pending[k] = stat_data[((stat_rptr + cnt) + (k - cnt - 1)) % LogSlots]
      BY <1>1, <2>0, <3>1, PendingAt
    <3>3. Pending'[k] = stat_data[((stat_rptr + cnt) + (k - cnt - 1)) % LogSlots]
      BY <1>2, <1>3, <1>5, <1>7, <2>2 DEF Pending
    <3> QED BY <3>2, <3>3
  <2>3. CASE ~(k <= cnt + irq_ev_cnt)
    <3>1. /\ ~(k <= 0 + Logged) /\ ~(k <= cnt)
          /\ k - 0 - Logged = k - cnt - irq_ev_cnt
      BY <1>3, <2>0, <2>3
    <3>2. Pending[k] = bucket[k - cnt - irq_ev_cnt]
      BY <1>1, <2>0, <3>1, PendingAt
    <3>3. Pending'[k] = bucket[k - cnt - irq_ev_cnt]
      BY <1>2, <1>3, <1>7, <2>3, <3>1 DEF Pending
    <3> QED BY <3>2, <3>3
  <2> QED BY <2>1, <2>2, <2>3
<1>9. TypeOK'
  <2>1. stat_rptr' \in 0..MaxPackets
    BY <1>3, <1>4, <1>5
  <2> QED BY <1>1, <1>2, <1>3, <1>6, <2>1 DEF TypeOK, Record, app, device, conf
<1>10. Bounds' /\ HeldPaired' /\ Handler'
  <2>1. Len(oob_cache') <= DmaBufs
    BY <1>3, <1>6
  <2>2. Bounds'
    BY <1>1, <1>2, <1>3, <2>1 DEF Bounds, app, device, conf
  <2> QED BY <1>1, <1>2, <2>2 DEF HeldPaired, Handler, app, device
<1>11. Counters'
  <2>1. stat_wptr' = stat_rptr' + Logged' + Moved'
    BY <1>2, <1>3, <1>5
  <2>2. Len(oob_cache') = oob_idx' + bufavail'
    <3>1. oob_idx' = 0 /\ bufavail' = cnt
      BY <1>2
    <3> QED BY <1>3, <1>6, <3>1
  <2>3. dbuf' = Pos(Out)' /\ dfree' + Out' + InHand' = DmaBufs
    BY <1>1, <1>2, <1>7 DEF Counters, InHand, Pos, app, device
  <2> QED BY <1>1, <1>2, <2>1, <2>2, <2>3 DEF Counters, app
<1>12. Paired' /\ (Chained => Chained')
  BY <1>1, <1>2, <1>8, QueueKept, CountersOK DEF app, device
<1> QED BY <1>1, <1>2, <1>9, <1>10, <1>11, <1>12 DEF PcieInv, conf

\* The oldest record is handed out with the oldest buffer.
LEMMA TakeIsHead ==
    ASSUME PcieInv, TakeBuffer
    PROVE  /\ Out \in Nat /\ Out > 0 /\ Out' = Out - 1
           /\ oob' = Pending[1] /\ Pending[1] \in Record
           /\ ~lapped => Pending[1].seq = buf[bno]
           /\ Pos(0) = bno
           /\ \A k \in 1..(Out - 1) : Pending'[k] = Pending[k + 1]
<1> USE PcieAssumption
<1>1. /\ TypeOK /\ Counters /\ Paired /\ run = "on"
  BY DEF PcieInv, TakeBuffer
<1>2. /\ bufavail > 0 /\ bufavail' = bufavail - 1 /\ oob_idx' = oob_idx + 1
      /\ oob' = IF oob_idx < Len(oob_cache) THEN oob_cache[oob_idx + 1] ELSE NoRecord
      /\ UNCHANGED <<bucket, kernel, call, cnt, oob_cache>>
  BY DEF TakeBuffer
<1>3. /\ Out \in Nat /\ Out = bufavail + Logged + Len(bucket) /\ bufavail \in Nat
      /\ Logged \in Nat /\ Len(bucket) \in Nat /\ Len(oob_cache) \in Nat
      /\ Len(oob_cache) = oob_idx + bufavail /\ oob_idx \in Nat /\ stat_rptr \in Nat
  BY <1>1, CountersOK DEF Counters
<1>4. Logged' = Logged /\ Out' = Out - 1
  <2>1. Logged' = Logged
    BY <1>2 DEF Logged, InCall, kernel
  <2>2. Out' = bufavail' + Logged' + Len(bucket')
    BY DEF Out
  <2> QED BY <1>2, <1>3, <2>1, <2>2
<1>5. Out > 0 /\ 1 \in 1..Out /\ 1 <= bufavail
  BY <1>2, <1>3
<1>6. oob' = Pending[1]
  <2>1. Pending[1] = oob_cache[oob_idx + 1]
    BY <1>5, PendingAt
  <2>2. oob_idx < Len(oob_cache)
    BY <1>2, <1>3
  <2> QED BY <1>2, <2>1, <2>2
<1>7. Pending[1] \in Record /\ (~lapped => Pending[1].seq = buf[Pos(0)]) /\ Pos(0) = bno
  <2>1. Pending[1] \in Record
    BY <1>1, <1>5, PendingRecords
  <2>2. bno \in 0..DmaBufs-1 /\ bno + 0 = bno /\ 1 - 1 = 0
    BY <1>1, Types
  <2>3. Pos(0) = bno
    BY <2>2, NoWrap DEF Pos
  <2> QED BY <1>1, <1>5, <2>1, <2>2, <2>3 DEF Paired
<1>8. ASSUME NEW k \in 1..(Out - 1) PROVE Pending'[k] = Pending[k + 1]
  <2>1. k + 1 \in 1..Out /\ k \in 1..Out'
    BY <1>3, <1>4
  <2>2. CASE k + 1 <= bufavail
    <3>1. k <= bufavail - 1 /\ (oob_idx + 1) + k = oob_idx + (k + 1)
      BY <1>3, <2>2
    <3>2. Pending'[k] = oob_cache[(oob_idx + 1) + k]
      BY <1>2, <2>1, <3>1 DEF Pending
    <3>3. Pending[k + 1] = oob_cache[oob_idx + (k + 1)]
      BY <2>1, <2>2, PendingAt
    <3> QED BY <3>1, <3>2, <3>3
  <2>3. CASE ~(k + 1 <= bufavail) /\ k + 1 <= bufavail + Logged
    <3>1. /\ ~(k <= bufavail - 1) /\ k <= (bufavail - 1) + Logged
          /\ stat_rptr + (k - (bufavail - 1) - 1) = stat_rptr + ((k + 1) - bufavail - 1)
      BY <1>3, <2>3
    <3>2. Pending'[k] = stat_data[(stat_rptr + (k - (bufavail - 1) - 1)) % LogSlots]
      BY <1>2, <1>4, <2>1, <3>1 DEF Pending, kernel
    <3>3. Pending[k + 1] = stat_data[(stat_rptr + ((k + 1) - bufavail - 1)) % LogSlots]
      BY <2>1, <2>3, PendingAt
    <3> QED BY <3>1, <3>2, <3>3
  <2>4. CASE ~(k + 1 <= bufavail + Logged)
    <3>1. /\ ~(k + 1 <= bufavail)
          /\ ~(k <= bufavail - 1) /\ ~(k <= (bufavail - 1) + Logged)
          /\ k - (bufavail - 1) - Logged = (k + 1) - bufavail - Logged
      BY <1>3, <2>4
    <3>2. Pending'[k] = bucket[k - (bufavail - 1) - Logged]
      BY <1>2, <1>4, <2>1, <3>1 DEF Pending
    <3>3. Pending[k + 1] = bucket[(k + 1) - bufavail - Logged]
      BY <2>1, <2>4, <3>1, PendingAt
    <3> QED BY <3>1, <3>2, <3>3
  <2> QED BY <2>2, <2>3, <2>4
<1> QED BY <1>3, <1>4, <1>5, <1>6, <1>7, <1>8

LEMMA StepTakeBuffer ==
    ASSUME PcieInv, TakeBuffer PROVE PcieInv'
<1> USE PcieAssumption
<1> DEFINE rec == Pending[1]
<1>1. /\ TypeOK /\ Bounds /\ Counters /\ Handler /\ Paired
      /\ run = "on" /\ (reinits = 0 => Chained)
  BY DEF PcieInv, TakeBuffer
<1>2. /\ held = -1 /\ held' = bno /\ bno' = (bno + 1) % DmaBufs /\ call = "none"
      /\ bufavail > 0 /\ bufavail' = bufavail - 1 /\ oob_idx' = oob_idx + 1
      /\ last' = buf[bno] /\ r_ts' = r_ts + oob'.lost + 1
      /\ UNCHANGED <<bucket, kernel, call, cnt, oob_cache, device, conf>>
  BY DEF TakeBuffer, StreamTime
<1>3. /\ Out \in Nat /\ Out > 0 /\ Out' = Out - 1
      /\ oob' = rec /\ rec \in Record
      /\ (~lapped => rec.seq = buf[bno]) /\ Pos(0) = bno
      /\ \A k \in 1..(Out - 1) : Pending'[k] = Pending[k + 1]
  BY TakeIsHead
<1> HIDE DEF rec
<1>4. rec.seq \in Int /\ rec.lost \in Nat
  BY <1>3, RecordFields
<1>5. /\ bno \in 0..DmaBufs-1 /\ bno \in Nat /\ buf \in [0..DmaBufs-1 -> -1..MaxPackets]
      /\ bufavail \in 0..DmaBufs /\ oob_idx \in Nat /\ r_ts \in Nat
      /\ Len(oob_cache) \in Nat /\ Len(oob_cache) <= DmaBufs
      /\ Len(oob_cache) = oob_idx + bufavail
  BY <1>1, Types, CountersOK DEF Counters, Bounds
<1>6. \A k \in Nat : Pos(k)' = Pos(k + 1)
  <2> SUFFICES ASSUME NEW k \in Nat PROVE Pos(k)' = Pos(k + 1)
    OBVIOUS
  <2>1. bno + 1 \in Nat /\ bno + 1 + k = bno + (k + 1)
    BY <1>5
  <2>2. (((bno + 1) % DmaBufs) + k) % DmaBufs = (bno + 1 + k) % DmaBufs
    BY <2>1, ModAdd
  <2> QED BY <1>2, <2>1, <2>2 DEF Pos
<1>7. TypeOK'
  <2>1. bno' \in 0..DmaBufs-1
    <3>1. bno + 1 \in Nat
      BY <1>5
    <3>2. (bno + 1) % DmaBufs \in 0..DmaBufs-1
      BY <3>1
    <3> QED BY <1>2, <3>2
  <2>2. oob_idx' \in 0..DmaBufs /\ bufavail' \in 0..DmaBufs
    BY <1>2, <1>5
  <2>3. last' \in -1..MaxPackets /\ held' \in -1..DmaBufs-1
    BY <1>2, <1>5
  <2>4. r_ts' \in Nat /\ oob' \in Record
    BY <1>2, <1>3, <1>4, <1>5, SMTT(30)
  <2> QED BY <1>1, <1>2, <2>1, <2>2, <2>3, <2>4 DEF TypeOK, Record, kernel, device, conf
<1>8. Bounds'
  BY <1>1, <1>2 DEF Bounds, Moved, kernel, device, conf
<1>9. HeldPaired'
  BY <1>2, <1>3 DEF HeldPaired, device, kernel
<1>10. Handler'
  BY <1>1, <1>2 DEF Handler, kernel
<1>11. Counters'
  <2>1. dfree' + Out' + InHand' = DmaBufs
    <3>1. InHand = 0 /\ InHand' = 1
      BY <1>2, <1>5 DEF InHand
    <3>2. Out + InHand + dfree = DmaBufs /\ dfree \in Nat /\ dfree' = dfree
      BY <1>1, <1>2, CountersOK DEF device
    <3> QED BY <1>3, <3>1, <3>2
  <2>2. dbuf' = Pos(Out)'
    <3>1. PICK m \in Nat : m = Out - 1
      BY <1>3
    <3>2. Pos(m)' = Pos(m + 1) /\ m + 1 = Out
      BY <1>3, <1>6, <3>1
    <3>3. Pos(Out)' = Pos(m)'
      BY <1>3, <3>1 DEF Pos
    <3> QED BY <1>1, <1>2, <3>2, <3>3 DEF Counters, device
  <2>3. Len(oob_cache') = oob_idx' + bufavail'
    BY <1>2, <1>5
  <2>4. stat_wptr' = stat_rptr' + Logged' + Moved'
    BY <1>1, <1>2 DEF Counters, Logged, InCall, Moved, kernel
  <2>5. bno' = (held' + 1) % DmaBufs /\ call' # "copy"
    BY <1>2
  <2> QED BY <2>1, <2>2, <2>3, <2>4, <2>5 DEF Counters
<1>12. Paired'
  <2> SUFFICES ASSUME ~lapped' PROVE Paired'
    BY DEF Paired
  <2>0. ~lapped
    BY <1>2 DEF kernel
  <2>1. ASSUME NEW k \in 1..(Out - 1) PROVE Pending'[k].seq = buf'[Pos(k - 1)']
    <3>1. k + 1 \in 1..Out /\ k - 1 \in Nat /\ (k - 1) + 1 = (k + 1) - 1
      BY <1>3
    <3>2. Pending[k + 1].seq = buf[Pos((k + 1) - 1)]
      BY <1>1, <2>0, <3>1 DEF Paired
    <3>3. Pos(k - 1)' = Pos((k + 1) - 1)
      BY <1>6, <3>1
    <3> QED BY <1>2, <1>3, <3>2, <3>3 DEF device
  <2> QED BY <1>3, <2>1 DEF Paired
<1>13. ASSUME Chained PROVE Chained'
  <2> SUFFICES ASSUME ~lapped' PROVE Chained'
    BY DEF Chained
  <2>0. ~lapped
    BY <1>2 DEF kernel
  <2>1. r_ts' = rec.seq + 1
    <3>1. 1 \in 1..Out
      BY <1>3
    <3>2. rec.seq = r_ts + rec.lost
      BY <1>13, <2>0, <3>1 DEF Chained, From, rec
    <3> QED BY <1>2, <1>3, <1>4, <1>5, <3>2
  <2>2. ASSUME NEW k \in 1..Out PROVE From(k)' = From(k + 1)
    <3>1. k + 1 # 1 /\ (k + 1) - 1 = k
      OBVIOUS
    <3>2. CASE k = 1
      BY <2>1, <3>1, <3>2 DEF From, rec
    <3>3. CASE k # 1
      <4>1. k - 1 \in 1..(Out - 1) /\ (k - 1) + 1 = k
        BY <1>3, <3>3
      <4>2. Pending'[k - 1] = Pending[k]
        BY <1>3, <4>1
      <4> QED BY <3>1, <3>3, <4>2 DEF From
    <3> QED BY <3>2, <3>3
  <2>3. ASSUME NEW k \in 1..(Out - 1)
        PROVE  /\ Pending'[k].seq = From(k)' + Pending'[k].lost
               /\ Pending'[k].seq < dseq'
    <3>1. k + 1 \in 1..Out /\ k \in 1..Out
      BY <1>3
    <3>2. /\ Pending[k + 1].seq = From(k + 1) + Pending[k + 1].lost
          /\ Pending[k + 1].seq < dseq
      BY <1>13, <2>0, <3>1 DEF Chained
    <3> QED BY <1>2, <1>3, <2>2, <3>1, <3>2 DEF device
  <2>4. PICK m \in 1..Out : m = Out
    BY <1>3
  <2>5. From(m)' = From(Out + 1) /\ m = Out' + 1
    BY <1>3, <2>2, <2>4
  <2>6. dseq' = From(m)' + dlost'
    BY <1>2, <1>13, <2>0, <2>5 DEF Chained, device
  <2>7. dseq' = From(Out + 1)' + dlost'
    BY <2>5, <2>6 DEF From
  <2> QED BY <1>3, <2>3, <2>7 DEF Chained
<1> QED BY <1>1, <1>2, <1>7, <1>8, <1>9, <1>10, <1>11, <1>12, <1>13 DEF PcieInv, conf

LEMMA StepRelease ==
    ASSUME PcieInv, Release PROVE PcieInv'
<1> USE PcieAssumption
<1>1. /\ held # -1 /\ held' = -1 /\ dfree' = dfree + 1
      /\ UNCHANGED <<bucket, kernel, cache, oob, r_ts, last, buf, dseq, dlost, dbuf, conf>>
  BY DEF Release, Credit
<1>2. /\ TypeOK /\ Bounds /\ Counters /\ Handler /\ Paired
      /\ run = "on" /\ (reinits = 0 => Chained)
  BY <1>1 DEF PcieInv, Bounds
<1>3. Out' = Out /\ Logged' = Logged /\ Pending' = Pending /\ Moved' = Moved
  BY <1>1 DEF Out, Logged, InCall, Pending, Moved, kernel, cache
<1>4. /\ InHand = 1 /\ InHand' = 0 /\ dfree \in Nat /\ Out \in Nat
      /\ Out + InHand + dfree = DmaBufs
  BY <1>1, <1>2, CountersOK DEF InHand
<1>5. dfree' \in 0..DmaBufs /\ dfree' + Out' + InHand' = DmaBufs
  BY <1>1, <1>3, <1>4
<1>6. TypeOK'
  <2>1. held' \in -1..DmaBufs-1
    BY <1>1
  <2> QED BY <1>1, <1>2, <1>5, <2>1 DEF TypeOK, kernel, cache, conf
<1>7. Bounds' /\ HeldPaired' /\ Handler'
  BY <1>1, <1>2, <1>3 DEF Bounds, HeldPaired, Handler, kernel, cache, conf
<1>8. Counters'
  BY <1>1, <1>2, <1>3, <1>5 DEF Counters, Pos, kernel, cache
<1>9. Paired' /\ (Chained => Chained')
  BY <1>1, <1>2, <1>3, <1>4, QueueKept DEF SameQueue, kernel, cache
<1> QED BY <1>1, <1>2, <1>6, <1>7, <1>8, <1>9 DEF PcieInv, conf

-----------------------------------------------------------------------------
(* Setting the stream up again *)

LEMMA StepStop ==
    ASSUME PcieInv, Stop PROVE PcieInv'
<1> USE PcieAssumption
<1>1. /\ run = "on" /\ run' = "off" /\ reinits' = reinits + 1 /\ reinits < MaxReinit
      /\ call = "none" /\ held = -1
      /\ UNCHANGED <<bucket, kernel, cache, app, device>>
  BY DEF Stop, Unconfigured
<1>2. /\ TypeOK /\ Bounds /\ Counters /\ Handler /\ Paired /\ reinits \in Nat
  BY <1>1, Types DEF PcieInv
<1>3. Out' = Out /\ Logged' = Logged /\ Pending' = Pending /\ Moved' = Moved
  BY <1>1 DEF Out, Logged, InCall, Pending, Moved, kernel, cache
<1>4. TypeOK'
  BY <1>1, <1>2, SMTT(30) DEF TypeOK, kernel, cache, app, device
<1>5. Bounds' /\ HeldPaired' /\ Handler'
  BY <1>1, <1>2, <1>3 DEF Bounds, HeldPaired, Handler, kernel, cache, app, device
<1>6. Counters'
  BY <1>1, <1>2, <1>3 DEF Counters, InHand, Pos, kernel, cache, app, device
<1>7. Paired'
  BY <1>1, <1>2, <1>3 DEF Paired, Pos, cache, device, kernel
<1> QED BY <1>1, <1>2, <1>4, <1>5, <1>6, <1>7 DEF PcieInv

LEMMA StepConfFlush ==
    ASSUME PcieInv, ConfFlush PROVE PcieInv'
<1> USE PcieAssumption
<1>1. /\ run = "off" /\ run' = "flushed" /\ bucket = << >> /\ irq = "idle"
      /\ stat_rptr' = stat_wptr /\ lapped' = FALSE
      /\ UNCHANGED <<bucket, irq, stat_data, stat_wptr, irq_ev_cnt, cache, app,
                     device, reinits>>
  BY DEF ConfFlush, Quiet, Flushed
<1>2. TypeOK /\ Bounds /\ HeldPaired
  BY DEF PcieInv
<1>3. TypeOK'
  BY <1>1, <1>2 DEF TypeOK, cache, app, device
<1>4. Bounds' /\ HeldPaired'
  BY <1>1, <1>2 DEF Bounds, HeldPaired, Moved, cache, app, device
<1>5. Drained'
  BY <1>1 DEF Drained
<1> QED BY <1>1, <1>3, <1>4, <1>5 DEF PcieInv

\* The device starts over with buffer 0, and so does the cache.
LEMMA StepConfClear ==
    ASSUME PcieInv, ConfClear PROVE PcieInv'
<1> USE PcieAssumption
<1>1. /\ run = "flushed" /\ run' = "on" /\ irq_ev_cnt' = 0
      /\ bufavail' = 0 /\ bno' = 0 /\ oob_cache' = << >> /\ oob_idx' = 0
      /\ dbuf' = 0 /\ dfree' = DmaBufs
      /\ UNCHANGED <<bucket, irq, stat_data, stat_wptr, stat_rptr, lapped, call, cnt,
                     app, buf, dseq, dlost, reinits>>
  BY DEF ConfClear, Cleared
<1>2. /\ TypeOK /\ Bounds /\ HeldPaired /\ bucket = << >> /\ irq = "idle"
      /\ stat_rptr = stat_wptr /\ call = "none" /\ held = -1 /\ reinits > 0
      /\ reinits \in Nat /\ stat_rptr \in Nat
  BY <1>1, Types DEF PcieInv, Drained, Bounds
<1>3. InCall' = 0 /\ Logged' = 0 /\ Out' = 0 /\ Moved' = 0 /\ InHand' = 0
  <2>1. InCall' = 0 /\ Moved' = 0 /\ InHand' = 0
    BY <1>1, <1>2 DEF InCall, Moved, InHand, app
  <2>2. Logged' = 0
    BY <1>1, <2>1 DEF Logged
  <2>3. Out' = 0
    BY <1>1, <1>2, <2>2 DEF Out
  <2> QED BY <2>1, <2>2, <2>3
<1>4. TypeOK'
  <2>1. oob_cache' \in Seq(Record) /\ 0 \in 0..DmaBufs-1
    BY <1>1
  <2> QED BY <1>1, <1>2, <2>1, SMTT(30) DEF TypeOK, Record, app
<1>5. Bounds'
  <2>1. Len(oob_cache') = 0
    BY <1>1
  <2> QED BY <1>1, <1>2, <1>3, <2>1 DEF Bounds, Moved, app
<1>6. HeldPaired'
  BY <1>1, <1>2 DEF HeldPaired, app
<1>7. Counters'
  <2>1. Pos(Out)' = 0
    <3>1. 0 \in 0..DmaBufs-1
      OBVIOUS
    <3>2. 0 % DmaBufs = 0
      BY <3>1, NoWrap
    <3> QED BY <1>1, <1>3, <3>2 DEF Pos
  <2>2. Len(oob_cache') = 0
    BY <1>1
  <2> QED BY <1>1, <1>2, <1>3, <2>1, <2>2 DEF Counters, app
<1>8. Handler' /\ Paired'
  BY <1>1, <1>2, <1>3 DEF Handler, Paired
<1> QED BY <1>1, <1>2, <1>4, <1>5, <1>6, <1>7, <1>8 DEF PcieInv

-----------------------------------------------------------------------------
LEMMA InitInv == Init => PcieInv
<1> SUFFICES ASSUME Init PROVE PcieInv
  OBVIOUS
<1> USE PcieAssumption
<1>1. TypeOK
  <2>1. NoRecord \in Record /\ << >> \in Seq(Record) /\ 0 \in 0..DmaBufs-1
    BY RecordFields
  <2>2. /\ stat_data \in [0..LogSlots-1 -> Record]
        /\ buf \in [0..DmaBufs-1 -> -1..MaxPackets]
    BY <2>1 DEF Init
  <2> QED BY <2>1, <2>2, Types, SMTT(30) DEF Init
<1>2. /\ InCall = 0 /\ Logged = 0 /\ Out = 0 /\ Moved = 0 /\ InHand = 0
  <2>1. InCall = 0 /\ Moved = 0 /\ InHand = 0
    BY DEF Init, InCall, Moved, InHand
  <2>2. Logged = 0
    BY <2>1 DEF Init, Logged
  <2> QED BY <2>1, <2>2 DEF Init, Out
<1>3. Bounds /\ HeldPaired
  BY <1>2 DEF Init, Bounds, HeldPaired
<1>4. Counters
  <2>1. Pos(Out) = 0
    <3>1. 0 \in 0..DmaBufs-1
      OBVIOUS
    <3>2. 0 % DmaBufs = 0
      BY <3>1, NoWrap
    <3> QED BY <1>2, <3>2 DEF Init, Pos
  <2> QED BY <1>2, <2>1 DEF Init, Counters
<1>5. Handler /\ Paired
  BY <1>2 DEF Init, Handler, Paired
<1>6. Chained
  BY <1>2 DEF Init, Chained, From
<1> QED BY <1>1, <1>3, <1>4, <1>5, <1>6 DEF Init, PcieInv

LEMMA StepInv ==
    ASSUME PcieInv, [Next]_vars PROVE PcieInv'
<1>1. CASE UNCHANGED vars
  <2>1. /\ UNCHANGED <<bucket, irq, stat_data, stat_wptr, stat_rptr, irq_ev_cnt, lapped>>
        /\ UNCHANGED <<call, cnt, bufavail, bno, oob_cache, oob_idx>>
        /\ UNCHANGED <<held, oob, r_ts, last, buf, dseq, dlost, dbuf, dfree, run, reinits>>
    BY <1>1 DEF vars, kernel, cache, app, device, conf
  <2>2. /\ Out' = Out /\ Logged' = Logged /\ Pending' = Pending /\ Moved' = Moved
        /\ InHand' = InHand /\ \A k : Pos(k)' = Pos(k) /\ From(k)' = From(k)
    BY <2>1 DEF Out, Logged, InCall, Pending, Moved, InHand, Pos, From
  <2>3. TypeOK' = TypeOK /\ Bounds' = Bounds /\ HeldPaired' = HeldPaired
    BY <2>1, <2>2 DEF TypeOK, Bounds, HeldPaired
  <2>4. Counters' = Counters /\ Handler' = Handler /\ Drained' = Drained
    BY <2>1, <2>2 DEF Counters, Handler, Drained, Pos
  <2>5. Paired' = Paired /\ Chained' = Chained
    BY <2>1, <2>2 DEF Paired, Chained, Pos, From
  <2> QED BY <2>1, <2>3, <2>4, <2>5 DEF PcieInv
<1> QED
  BY <1>1, StepDeviceFill, StepDeviceDrop, StepIrqStore, StepIrqLog, StepIrqCount,
     StepWaitTake, StepWaitCopy, StepTakeBuffer, StepRelease,
     StepStop, StepConfFlush, StepConfClear
  DEF Next, Device, Irq, App, Conf

\* Whatever the size of the log, the record that dma_wait_or_alloc pairs with a
\* buffer is the one the device sent for it, although the handler logs and
\* counts while the ioctl copies, until the handler stores a record over one
\* that was not copied.  Setting the stream up empties the log and ends that.
THEOREM PcieOobMatches == Spec => []RecordsMatch
<1>1. PcieInv /\ [Next]_vars => PcieInv'
  BY StepInv
<1>2. PcieInv => RecordsMatch
  BY DEF PcieInv, HeldPaired, RecordsMatch, OobMatchesBuffer
<1> QED BY <1>1, <1>2, InitInv, PTL DEF Spec

\* No buffer leaks, none is counted twice, and the device never fills one the
\* application reads, also when the log loses records and when the stream is set
\* up again and again.
THEOREM PcieBuffersSafe == Spec => []BuffersSafe
<1>1. PcieInv /\ [Next]_vars => PcieInv'
  BY StepInv
<1>2. PcieInv => BuffersSafe
  <2> SUFFICES ASSUME PcieInv PROVE BuffersSafe
    OBVIOUS
  <2>1. TypeOK /\ NoOverwrite
    BY DEF PcieInv, HeldPaired, NoOverwrite
  <2>2. BuffersAccounted
    <3> SUFFICES ASSUME run = "on"
                 PROVE  dfree + Len(bucket) + irq_ev_cnt + bufavail + InCall + InHand
                          = DmaBufs
      BY DEF BuffersAccounted, InCall, InHand
    <3>1. Counters
      BY DEF PcieInv
    <3>2. /\ Out + InHand + dfree = DmaBufs /\ Out = bufavail + Logged + Len(bucket)
          /\ InHand \in {0, 1} /\ dfree \in Nat /\ bufavail \in Nat /\ Len(bucket) \in Nat
          /\ InCall \in Nat
      BY <2>1, <3>1, CountersOK
    <3>3. Logged = InCall + irq_ev_cnt /\ irq_ev_cnt \in Nat
      BY <2>1, Types DEF Logged
    <3> QED BY <3>2, <3>3
  <2> QED BY <2>1, <2>2 DEF BuffersSafe
<1> QED BY <1>1, <1>2, InitInv, PTL DEF Spec

\* Until the log loses a record or the stream is set up again it is a lossy
\* stream: packets come in the order the device made them and the stream time
\* is the packet's own time, every gap included.
THEOREM PcieImplementsLossyStream == Spec => ImplementsLossyStream
<1> USE PcieAssumption
<1> DEFINE Step == Lossy!Next \/ UNCHANGED <<dseq, last, r_ts>>
<1>1. PcieInv /\ [Next]_vars => PcieInv'
  BY StepInv
<1>2. Init => Lossy!Init
  BY DEF Init, Lossy!Init
<1>3. PcieInv /\ [Next]_vars => [reinits' = 0 /\ ~lapped' => Step]_vars
  <2> SUFFICES ASSUME PcieInv, Next, reinits' = 0, ~lapped' PROVE Step
    OBVIOUS
  <2>1. CASE Device
    BY <2>1 DEF Device, DeviceFill, DeviceDrop, app, Lossy!Next, Lossy!Make
  <2>2. CASE TakeBuffer
    <3> DEFINE n == Pending[1].seq
    <3>1. reinits = 0 /\ run = "on" /\ dseq' = dseq /\ ~lapped
      BY <2>2 DEF TakeBuffer, conf, device, kernel
    <3>2. TypeOK /\ Chained /\ dseq \in Nat /\ r_ts \in Nat
      BY <3>1, Types DEF PcieInv
    <3>3. /\ Out \in Nat /\ 1 \in 1..Out /\ oob' = Pending[1] /\ Pending[1] \in Record
          /\ n = buf[bno]
      BY <2>2, <3>1, TakeIsHead
    <3>4. n \in Int /\ Pending[1].lost \in Nat
      BY <3>3, RecordFields
    <3>5. n = r_ts + Pending[1].lost /\ n < dseq
      BY <3>1, <3>2, <3>3 DEF Chained, From
    <3>6. last' = n /\ r_ts' = r_ts + Pending[1].lost + 1
      BY <2>2, <3>3 DEF TakeBuffer, StreamTime
    <3> HIDE DEF n
    <3>7. n \in r_ts..dseq-1 /\ r_ts' = n + 1
      BY <3>2, <3>4, <3>5, <3>6
    <3> QED BY <3>1, <3>6, <3>7 DEF Lossy!Next, Lossy!Deliver
  <2>3. CASE Irq \/ WaitTake \/ WaitCopy \/ Release \/ Conf
    BY <2>3 DEF Irq, IrqStore, IrqLog, IrqCount, WaitTake, WaitCopy, Release, Conf,
                Stop, ConfFlush, ConfClear, app, device
  <2> QED BY <2>1, <2>2, <2>3 DEF Next, App
<1> QED BY <1>1, <1>2, <1>3, InitInv, PTL DEF Spec, ImplementsLossyStream
-----------------------------------------------------------------------------
(***************************************************************************)
(* SfeStream, for every number of calls, failed accesses and packets and   *)
(* every queue of the transport.                                           *)
(*                                                                         *)
(* A call is a sequence of accesses any of which may fail and end it, so   *)
(* SfeInv has to hold after every prefix of every call, not only after the *)
(* calls.  What SfeConsistent says of a moment rests on what SfeInv says   *)
(* of the history: the size a made stream has told front end, DMA and      *)
(* transport, the chain of packet numbers from the last packet received to *)
(* the next one started (SfeFollow), and what the host believes of the     *)
(* transmit register, also while the stream is stopped (SfeTxHeld).        *)
(***************************************************************************)
SfeLanes == {"a", "b"}
SfeRxd == [made : BOOLEAN, size : SfeSizes \cup {0}, ts : Nat, rcnt : Nat, drop : Nat]
SfeTxd == [made : BOOLEAN, chans : 0..2, swap : BOOLEAN, mute : SUBSET SfeLanes]
SfeCommands == {"idle", "reset", "start", "stop"}
SfeClocks == {"stop", "free", "pps", "adc", "dac", "either", "both"}
SfePk == [pk : Nat, lost : Nat]
SfeState ==
    [faults : Nat, calls : Int, core : SfeCores, failed : BOOLEAN, touched : BOOLEAN,
     fe : SfeCommands, fesize : Nat, dma : BOOLEAN, dmasize : Nat, ready : BOOLEAN, retimer : SfeClocks,
     txrun : BOOLEAN, txmute : SUBSET SfeLanes, txswap : BOOLEAN,
     ll : SUBSET {"rx", "tx"}, llsize : Nat, rx : SfeRxd, tx : SfeTxd,
     n : Nat, lost : Nat, queue : Seq(SfePk), out : [pk : Nat, ts : Nat]]

\* A receive stream has told its size to everyone; without one nothing runs.
SfeRxHeld(s) ==
    IF s.rx.made THEN s.rx.size \in SfeSizes /\ s.fesize = s.rx.size /\ s.dmasize = s.rx.size /\ s.llsize = s.rx.size
    ELSE s.fe # "start" /\ ~s.dma /\ s.rx = SfeNoRx

\* The packets of a stream follow the ones it has accounted for: m received
\* and lost, the packets of the queue, those lost since, up to n.
SfeFollow(m, q, lost, n) ==
    /\ \A j \in 1..Len(q) : q[j].pk = q[j].lost + (IF j = 1 THEN m ELSE q[j - 1].pk + 1)
    /\ n = lost + (IF Len(q) = 0 THEN m ELSE q[Len(q)].pk + 1)

SfeTimed(s) ==
    s.rx.made => /\ s.rx.ts = s.rx.size * (s.rx.rcnt + s.rx.drop)
                 /\ SfeFollow(s.rx.rcnt + s.rx.drop, s.queue, s.lost, s.n)
                 /\ s.rx.rcnt > 0 => s.out.ts = s.rx.size * s.out.pk

\* What a transmit stream of the simple core believes, and the register.
SfeTxHeld(s) ==
    /\ s.txrun => s.tx.made
    /\ s.core = "sfe" /\ s.tx.made =>
        /\ s.tx.chans = 1 /\ ~s.touched => s.tx.mute = SfeUnused(s.tx.swap)
        /\ s.txrun /\ s.tx.chans = 1 /\ ~s.touched => s.txmute = SfeUnused(s.txswap)
        /\ s.txrun /\ ~s.failed => s.txmute = s.tx.mute /\ s.txswap = s.tx.swap

SfeInv(s) == s \in SfeState /\ SfeRxHeld(s) /\ SfeTimed(s) /\ SfeTxHeld(s)
-----------------------------------------------------------------------------
(* Sequences of accesses.                                                  *)
\* v is the states a sequence of accesses goes through.
RunIs(v, s, us) == v[0] = s /\ \A n \in 1..Len(us) : v[n] = Upd(v[n - 1], us[n])

LEMMA RunOf ==
    ASSUME NEW s, NEW us, Len(us) \in Nat, NEW v, RunIs(v, s, us)
    PROVE  Run(s, us) = Ok(v[Len(us)]) \cup UNION {Faulty(v[n]) : n \in 0..(Len(us) - 1)}
<1> DEFINE N == Len(us)
           Eq(f) == f = [n \in 0..N |-> IF n = 0 THEN s ELSE Upd(f[n - 1], us[n])]
           at == CHOOSE f : Eq(f)
           f0 == [n \in 0..N |-> v[n]]
<1>1. Run(s, us) = Ok(at[N]) \cup UNION {Faulty(at[n]) : n \in 0..(N - 1)}
  BY DEF Run, RunBy
<1>2. v[0] = s /\ \A n \in 1..N : v[n] = Upd(v[n - 1], us[n])
  BY DEF RunIs
<1>3. \A n \in 1..N : n - 1 \in 0..N /\ n \in 0..N /\ n # 0
  OBVIOUS
<1>4. Eq(f0)
  <2>1. ASSUME NEW n \in 0..N PROVE v[n] = IF n = 0 THEN s ELSE Upd(f0[n - 1], us[n])
    <3>1. CASE n # 0
      <4>1. n \in 1..N /\ n - 1 \in 0..N
        BY <3>1
      <4>2. f0[n - 1] = v[n - 1]
        BY <4>1
      <4> QED BY <1>2, <3>1, <4>1, <4>2
    <3> QED BY <1>2, <3>1
  <2> QED BY <2>1, Zenon
<1> HIDE DEF f0, Eq
<1>5. Eq(at)
  BY <1>4
<1> HIDE DEF at
<1>6. at[0] = s /\ \A n \in 1..N : at[n] = Upd(at[n - 1], us[n])
  <2>1. at = [n \in 0..N |-> IF n = 0 THEN s ELSE Upd(at[n - 1], us[n])]
    BY <1>5 DEF Eq
  <2>2. 0 \in 0..N
    OBVIOUS
  <2> QED BY <1>3, <2>1, <2>2, Zenon
<1> DEFINE Q == {n \in 0..N : at[n] = v[n]}
<1>7. 0 \in Q /\ \A n \in 1..N : n - 1 \in Q => n \in Q
  BY <1>2, <1>3, <1>6
<1>8. \A n \in 0..N : n \in Q
  <2> HIDE DEF Q
  <2> QED BY <1>7, UpTo
<1>9. \A n \in 0..N : at[n] = v[n]
  BY <1>8
<1>10. N \in 0..N /\ \A n \in 0..(N - 1) : n \in 0..N
  OBVIOUS
<1>11. at[N] = v[N] /\ {Faulty(at[n]) : n \in 0..(N - 1)} = {Faulty(v[n]) : n \in 0..(N - 1)}
  <2> HIDE DEF N
  <2> QED BY <1>9, <1>10
<1> QED BY <1>1, <1>11

\* What an access that failed leaves.
SfeMiss(s) == [s EXCEPT !.faults = s.faults - 1, !.failed = TRUE]

LEMMA SfeMissOk ==
    ASSUME NEW s, SfeInv(s), s.faults # 0
    PROVE  /\ SfeInv(SfeMiss(s)) /\ SfeMiss(s).rx = s.rx /\ SfeMiss(s).fe = s.fe /\ SfeMiss(s).dma = s.dma
           /\ SfeMiss(s).txrun = s.txrun
<1> DEFINE t == SfeMiss(s)
<1>1. s \in SfeState /\ s.faults - 1 \in Nat
  BY DEF SfeInv, SfeState
<1>2. /\ t \in SfeState /\ t.failed = TRUE /\ t.core = s.core /\ t.touched = s.touched /\ t.fe = s.fe
      /\ t.fesize = s.fesize /\ t.dma = s.dma /\ t.dmasize = s.dmasize /\ t.llsize = s.llsize /\ t.rx = s.rx /\ t.tx = s.tx
      /\ t.txrun = s.txrun /\ t.txmute = s.txmute /\ t.txswap = s.txswap
      /\ t.n = s.n /\ t.lost = s.lost /\ t.queue = s.queue /\ t.out = s.out
  BY <1>1 DEF SfeState, SfeMiss
<1> HIDE DEF t
<1>3. SfeRxHeld(t)
  BY <1>2 DEF SfeRxHeld, SfeInv
<1>4. SfeTimed(t)
  BY <1>2 DEF SfeTimed, SfeInv
<1>5. SfeTxHeld(t)
  BY <1>2 DEF SfeTxHeld, SfeInv
<1>6. SfeInv(t)
  BY <1>2, <1>3, <1>4, <1>5 DEF SfeInv
<1> QED BY <1>2, <1>6 DEF t

SfeNote(p) == [p EXCEPT !.s.failed = p.s.failed \/ ~p.ok]

LEMMA SfeNoted ==
    ASSUME NEW x \in SfeState, NEW p, NEW o, o = SfeNote(p)
    PROVE  /\ p = [s |-> x, ok |-> TRUE] => o = [s |-> x, ok |-> TRUE]
           /\ x.faults # 0 /\ p = [s |-> [x EXCEPT !.faults = x.faults - 1], ok |-> FALSE] =>
                  o = [s |-> SfeMiss(x), ok |-> FALSE]
<1>0. o = [p EXCEPT !.s.failed = p.s.failed \/ ~p.ok]
  BY DEF SfeNote
<1>1. ASSUME p = [s |-> x, ok |-> TRUE] PROVE o = [s |-> x, ok |-> TRUE]
  <2>1. CASE x.failed = TRUE
    <3>1. [x EXCEPT !.failed = TRUE] = x
      BY <2>1 DEF SfeState
    <3>2. p.s = x /\ p.ok = TRUE
      BY <1>1
    <3>3. (p.s.failed \/ ~p.ok) = TRUE
      BY <2>1, <3>2
    <3>4. o = [p EXCEPT !.s.failed = TRUE]
      BY <1>0, <3>3
    <3> QED BY <1>1, <3>1, <3>4
  <2>2. CASE x.failed = FALSE
    <3>1. [x EXCEPT !.failed = FALSE] = x
      BY <2>2 DEF SfeState
    <3>2. p.s = x /\ p.ok = TRUE
      BY <1>1
    <3>3. (p.s.failed \/ ~p.ok) = FALSE
      BY <2>2, <3>2
    <3>4. o = [p EXCEPT !.s.failed = FALSE]
      BY <1>0, <3>3
    <3> QED BY <1>1, <3>1, <3>4
  <2> QED BY <2>1, <2>2 DEF SfeState
<1>2. ASSUME x.faults # 0, p = [s |-> [x EXCEPT !.faults = x.faults - 1], ok |-> FALSE]
      PROVE  o = [s |-> SfeMiss(x), ok |-> FALSE]
  <2>1. p.ok = FALSE /\ p.s = [x EXCEPT !.faults = x.faults - 1]
    BY <1>2
  <2>2. (p.s.failed \/ ~p.ok) = TRUE
    BY <2>1
  <2>3. o = [p EXCEPT !.s.failed = TRUE]
    BY <1>0, <2>2
  <2> QED BY <1>2, <2>3 DEF SfeMiss, SfeState
<1> QED BY <1>1, <1>2

\* An outcome of accesses us that go through the states v.
SfeRan(o, v, s, us) ==
    /\ o.ok => o.s = v[Len(us)]
    /\ \E n \in 0..Len(us) : o.s = v[n] \/ (o.s = SfeMiss(v[n]) /\ v[n].faults # 0)

LEMMA SfeDoOf ==
    ASSUME NEW s, NEW us, Len(us) \in Nat, NEW v, RunIs(v, s, us),
           \A n \in 0..Len(us) : v[n] \in SfeState, NEW o \in SfeDo(s, us)
    PROVE  SfeRan(o, v, s, us)
<1>1. PICK p \in Run(s, us) : o = SfeNote(p)
  BY DEF SfeDo, SfeNote
<1>2. p \in Ok(v[Len(us)]) \/ \E n \in 0..(Len(us) - 1) : p \in Faulty(v[n])
  BY RunOf
<1>3. CASE p \in Ok(v[Len(us)])
  <2>1. v[Len(us)] \in SfeState /\ Len(us) \in 0..Len(us)
    OBVIOUS
  <2>2. p = [s |-> v[Len(us)], ok |-> TRUE]
    BY <1>3 DEF Ok
  <2>3. o = [s |-> v[Len(us)], ok |-> TRUE]
    BY <1>1, <2>1, <2>2, SfeNoted
  <2> QED BY <2>1, <2>3 DEF SfeRan
<1>4. CASE \E n \in 0..(Len(us) - 1) : p \in Faulty(v[n])
  <2>1. PICK n \in 0..(Len(us) - 1) : p \in Faulty(v[n])
    BY <1>4
  <2>2. n \in 0..Len(us) /\ v[n] \in SfeState
    OBVIOUS
  <2>3. v[n].faults # 0 /\ p = [s |-> [v[n] EXCEPT !.faults = v[n].faults - 1], ok |-> FALSE]
    BY <2>1 DEF Faulty, Fail
  <2>4. o = [s |-> SfeMiss(v[n]), ok |-> FALSE]
    BY <1>1, <2>2, <2>3, SfeNoted
  <2> QED BY <2>2, <2>3, <2>4 DEF SfeRan
<1> QED BY <1>2, <1>3, <1>4

\* A single access to a state that need not be one between calls.
LEMMA SfeTried ==
    ASSUME NEW s \in SfeState, NEW u1, Upd(s, u1) \in SfeState, NEW o \in SfeDo(s, <<u1>>)
    PROVE  o.s = Upd(s, u1) \/ (o.s = SfeMiss(s) /\ s.faults # 0)
<1> DEFINE w == [n \in 0..1 |-> IF n = 0 THEN s ELSE Upd(s, u1)]
<1>1. PICK us : us = <<u1>>
  OBVIOUS
<1>2. Len(us) = 1 /\ us[1] = u1 /\ o \in SfeDo(s, us)
  BY <1>1
<1>3. PICK v : v = w
  OBVIOUS
<1>4. v[0] = s /\ v[1] = Upd(s, u1) /\ 0..1 = {0, 1} /\ 1..1 = {1} /\ 0..0 = {0}
  BY <1>3
<1> HIDE DEF w
<1>5. RunIs(v, s, us)
  BY <1>2, <1>4 DEF RunIs
<1>6. PICK p \in Run(s, us) : o = SfeNote(p)
  BY <1>2 DEF SfeDo, SfeNote
<1>7. p \in Ok(v[Len(us)]) \/ \E n \in 0..(Len(us) - 1) : p \in Faulty(v[n])
  <2>1. Len(us) \in Nat
    BY <1>2
  <2> QED BY <1>5, <2>1, RunOf
<1>8. p \in Ok(v[1]) \/ p \in Faulty(s)
  BY <1>2, <1>4, <1>7
<1>9. CASE p \in Ok(v[1])
  <2>1. p = [s |-> v[1], ok |-> TRUE]
    BY <1>9 DEF Ok
  <2> QED BY <1>4, <1>6, <2>1, SfeNoted
<1>10. CASE p \in Faulty(s)
  <2>1. s.faults # 0 /\ p = [s |-> [s EXCEPT !.faults = s.faults - 1], ok |-> FALSE]
    BY <1>10 DEF Faulty, Fail
  <2> QED BY <1>6, <2>1, SfeNoted
<1> QED BY <1>8, <1>9, <1>10

\* One to four accesses.
LEMMA SfeDo1 ==
    ASSUME NEW s, SfeInv(s), NEW u1, SfeInv(Upd(s, u1)), NEW o \in SfeDo(s, <<u1>>)
    PROVE  /\ SfeInv(o.s) /\ (o.ok => o.s = Upd(s, u1))
           /\ \E x \in {s, Upd(s, u1)} : o.s = x \/ (o.s = SfeMiss(x) /\ x.faults # 0)
<1> DEFINE w == [n \in 0..1 |-> IF n = 0 THEN s ELSE Upd(s, u1)]
<1>1. PICK us : us = <<u1>>
  OBVIOUS
<1>2. Len(us) = 1 /\ us[1] = u1 /\ o \in SfeDo(s, us)
  BY <1>1
<1>3. PICK v : v = w
  OBVIOUS
<1>4. /\ v[0] = s /\ v[1] = Upd(s, u1)
      /\ 0..1 = {0, 1} /\ 1..1 = {1}
  BY <1>3
<1> HIDE DEF w
<1>5. RunIs(v, s, us)
  BY <1>2, <1>4 DEF RunIs
<1>6. \A n \in 0..1 : SfeInv(v[n])
  BY <1>4
<1>7. Len(us) \in Nat /\ \A n \in 0..Len(us) : v[n] \in SfeState
  BY <1>2, <1>6 DEF SfeInv
<1>8. SfeRan(o, v, s, us)
  BY <1>2, <1>5, <1>7, SfeDoOf
<1> QED BY <1>2, <1>4, <1>6, <1>8, SfeMissOk DEF SfeRan

LEMMA SfeDo2 ==
    ASSUME NEW s, SfeInv(s), NEW u1, NEW u2, SfeInv(Upd(s, u1)), SfeInv(Upd(Upd(s, u1), u2)), NEW o \in SfeDo(s, <<u1, u2>>)
    PROVE  /\ SfeInv(o.s) /\ (o.ok => o.s = Upd(Upd(s, u1), u2))
           /\ \E x \in {s, Upd(s, u1), Upd(Upd(s, u1), u2)} : o.s = x \/ (o.s = SfeMiss(x) /\ x.faults # 0)
<1> DEFINE w == [n \in 0..2 |-> IF n = 0 THEN s ELSE IF n = 1 THEN Upd(s, u1) ELSE Upd(Upd(s, u1), u2)]
<1>1. PICK us : us = <<u1, u2>>
  OBVIOUS
<1>2. Len(us) = 2 /\ us[1] = u1 /\ us[2] = u2 /\ o \in SfeDo(s, us)
  BY <1>1
<1>3. PICK v : v = w
  OBVIOUS
<1>4. /\ v[0] = s /\ v[1] = Upd(s, u1) /\ v[2] = Upd(Upd(s, u1), u2)
      /\ 0..2 = {0, 1, 2} /\ 1..2 = {1, 2}
  BY <1>3
<1> HIDE DEF w
<1>5. RunIs(v, s, us)
  BY <1>2, <1>4 DEF RunIs
<1>6. \A n \in 0..2 : SfeInv(v[n])
  BY <1>4
<1>7. Len(us) \in Nat /\ \A n \in 0..Len(us) : v[n] \in SfeState
  BY <1>2, <1>6 DEF SfeInv
<1>8. SfeRan(o, v, s, us)
  BY <1>2, <1>5, <1>7, SfeDoOf
<1> QED BY <1>2, <1>4, <1>6, <1>8, SfeMissOk DEF SfeRan

LEMMA SfeDo3 ==
    ASSUME NEW s, SfeInv(s), NEW u1, NEW u2, NEW u3,
           SfeInv(Upd(s, u1)), SfeInv(Upd(Upd(s, u1), u2)), SfeInv(Upd(Upd(Upd(s, u1), u2), u3)),
           NEW o \in SfeDo(s, <<u1, u2, u3>>)
    PROVE  /\ SfeInv(o.s) /\ (o.ok => o.s = Upd(Upd(Upd(s, u1), u2), u3))
           /\ \E x \in {s, Upd(s, u1), Upd(Upd(s, u1), u2), Upd(Upd(Upd(s, u1), u2), u3)} :
                  o.s = x \/ (o.s = SfeMiss(x) /\ x.faults # 0)
<1> DEFINE w == [n \in 0..3 |-> IF n = 0 THEN s ELSE IF n = 1 THEN Upd(s, u1) ELSE
                          IF n = 2 THEN Upd(Upd(s, u1), u2) ELSE Upd(Upd(Upd(s, u1), u2), u3)]
<1>1. PICK us : us = <<u1, u2, u3>>
  OBVIOUS
<1>2. Len(us) = 3 /\ us[1] = u1 /\ us[2] = u2 /\ us[3] = u3 /\ o \in SfeDo(s, us)
  BY <1>1
<1>3. PICK v : v = w
  OBVIOUS
<1>4. /\ v[0] = s /\ v[1] = Upd(s, u1) /\ v[2] = Upd(Upd(s, u1), u2) /\ v[3] = Upd(Upd(Upd(s, u1), u2), u3)
      /\ 0..3 = {0, 1, 2, 3} /\ 1..3 = {1, 2, 3}
  BY <1>3
<1> HIDE DEF w
<1>5. RunIs(v, s, us)
  BY <1>2, <1>4 DEF RunIs
<1>6. \A n \in 0..3 : SfeInv(v[n])
  BY <1>4
<1>7. Len(us) \in Nat /\ \A n \in 0..Len(us) : v[n] \in SfeState
  BY <1>2, <1>6 DEF SfeInv
<1>8. SfeRan(o, v, s, us)
  BY <1>2, <1>5, <1>7, SfeDoOf
<1> QED BY <1>2, <1>4, <1>6, <1>8, SfeMissOk DEF SfeRan

LEMMA SfeDo4 ==
    ASSUME NEW s, SfeInv(s), NEW u1, NEW u2, NEW u3, NEW u4,
           SfeInv(Upd(s, u1)), SfeInv(Upd(Upd(s, u1), u2)), SfeInv(Upd(Upd(Upd(s, u1), u2), u3)),
           SfeInv(Upd(Upd(Upd(Upd(s, u1), u2), u3), u4)), NEW o \in SfeDo(s, <<u1, u2, u3, u4>>)
    PROVE  /\ SfeInv(o.s) /\ (o.ok => o.s = Upd(Upd(Upd(Upd(s, u1), u2), u3), u4))
           /\ \E x \in {s, Upd(s, u1), Upd(Upd(s, u1), u2), Upd(Upd(Upd(s, u1), u2), u3),
                     Upd(Upd(Upd(Upd(s, u1), u2), u3), u4)} :
                  o.s = x \/ (o.s = SfeMiss(x) /\ x.faults # 0)
<1> DEFINE w == [n \in 0..4 |-> IF n = 0 THEN s ELSE IF n = 1 THEN Upd(s, u1) ELSE
                          IF n = 2 THEN Upd(Upd(s, u1), u2) ELSE IF n = 3 THEN Upd(Upd(Upd(s, u1), u2), u3) ELSE
                          Upd(Upd(Upd(Upd(s, u1), u2), u3), u4)]
<1>1. PICK us : us = <<u1, u2, u3, u4>>
  OBVIOUS
<1>2. Len(us) = 4 /\ us[1] = u1 /\ us[2] = u2 /\ us[3] = u3 /\ us[4] = u4 /\ o \in SfeDo(s, us)
  BY <1>1
<1>3. PICK v : v = w
  OBVIOUS
<1>4. /\ v[0] = s /\ v[1] = Upd(s, u1) /\ v[2] = Upd(Upd(s, u1), u2) /\ v[3] = Upd(Upd(Upd(s, u1), u2), u3)
      /\ v[4] = Upd(Upd(Upd(Upd(s, u1), u2), u3), u4)
      /\ 0..4 = {0, 1, 2, 3, 4} /\ 1..4 = {1, 2, 3, 4}
  BY <1>3
<1> HIDE DEF w
<1>5. RunIs(v, s, us)
  BY <1>2, <1>4 DEF RunIs
<1>6. \A n \in 0..4 : SfeInv(v[n])
  BY <1>4
<1>7. Len(us) \in Nat /\ \A n \in 0..Len(us) : v[n] \in SfeState
  BY <1>2, <1>6 DEF SfeInv
<1>8. SfeRan(o, v, s, us)
  BY <1>2, <1>5, <1>7, SfeDoOf
<1> QED BY <1>2, <1>4, <1>6, <1>8, SfeMissOk DEF SfeRan

-----------------------------------------------------------------------------
(* What an access changes.                                                 *)
SfeRxSame(s, t) ==
    /\ t.fe = s.fe /\ t.fesize = s.fesize /\ t.dma = s.dma /\ t.dmasize = s.dmasize /\ t.llsize = s.llsize
    /\ t.rx = s.rx /\ t.n = s.n /\ t.lost = s.lost /\ t.queue = s.queue /\ t.out = s.out
SfeTxSame(s, t) ==
    /\ t.core = s.core /\ t.touched = s.touched /\ t.failed = s.failed /\ t.tx = s.tx
    /\ t.txrun = s.txrun /\ t.txmute = s.txmute /\ t.txswap = s.txswap

LEMMA SfeParts ==
    ASSUME NEW s, SfeInv(s), NEW t \in SfeState
    PROVE  /\ SfeRxSame(s, t) => SfeRxHeld(t) /\ SfeTimed(t)
           /\ SfeTxSame(s, t) => SfeTxHeld(t)
           /\ SfeRxSame(s, t) /\ SfeTxSame(s, t) => SfeInv(t)
<1>1. ASSUME SfeRxSame(s, t) PROVE SfeRxHeld(t)
  BY <1>1 DEF SfeInv, SfeRxSame, SfeRxHeld
<1>2. ASSUME SfeRxSame(s, t) PROVE SfeTimed(t)
  BY <1>2 DEF SfeInv, SfeRxSame, SfeTimed
<1>3. ASSUME SfeTxSame(s, t) PROVE SfeTxHeld(t)
  BY <1>3 DEF SfeInv, SfeTxSame, SfeTxHeld
<1> QED BY <1>1, <1>2, <1>3 DEF SfeInv

\* Fields set at once are fields set one after the other.
LEMMA UpdOne ==
    ASSUME NEW s, s = [y \in DOMAIN s |-> s[y]], NEW k \in DOMAIN s, NEW x
    PROVE  Upd(s, [y \in {k} |-> x]) = [s EXCEPT ![k] = x]
<1>1. Upd(s, [y \in {k} |-> x]) = [y \in DOMAIN s |-> IF y = k THEN x ELSE s[y]]
  BY DEF Upd
<1> QED BY <1>1

LEMMA UpdMore ==
    ASSUME NEW s, s = [y \in DOMAIN s |-> s[y]], NEW u, DOMAIN u \subseteq DOMAIN s, NEW v,
           NEW k \in DOMAIN s, k \notin DOMAIN u, DOMAIN v = DOMAIN u \cup {k}, \A y \in DOMAIN u : v[y] = u[y]
    PROVE  Upd(s, v) = [Upd(s, u) EXCEPT ![k] = v[k]]
<1>1. Upd(s, v) = [y \in DOMAIN s |-> IF y = k THEN v[k] ELSE IF y \in DOMAIN u THEN u[y] ELSE s[y]]
  <2>1. DOMAIN s \cup DOMAIN v = DOMAIN s
    OBVIOUS
  <2> QED BY <2>1 DEF Upd
<1>2. Upd(s, u) = [y \in DOMAIN s |-> IF y \in DOMAIN u THEN u[y] ELSE s[y]]
  <2>1. DOMAIN s \cup DOMAIN u = DOMAIN s
    OBVIOUS
  <2> QED BY <2>1 DEF Upd
<1> QED BY <1>1, <1>2

LEMMA SfeFields ==
    ASSUME NEW s \in SfeState
    PROVE  /\ s = [y \in DOMAIN s |-> s[y]]
           /\ {"fe", "fesize", "dma", "dmasize", "ready", "retimer", "txrun", "txmute", "txswap",
               "ll", "llsize", "queue", "n", "lost"} \subseteq DOMAIN s
BY DEF SfeState

LEMMA SfeNothing == ASSUME NEW s \in SfeState PROVE Upd(s, <<>>) = s
BY DEF Upd, SfeState

LEMMA SfeToRetimer == ASSUME NEW s \in SfeState, NEW x PROVE Upd(s, [retimer |-> x]) = [s EXCEPT !.retimer = x]
<1>1. [retimer |-> x] = [y \in {"retimer"} |-> x]
  OBVIOUS
<1>2. Upd(s, [y \in {"retimer"} |-> x]) = [s EXCEPT !["retimer"] = x]
  BY SfeFields, UpdOne
<1> QED BY <1>1, <1>2

LEMMA SfeToFe == ASSUME NEW s \in SfeState, NEW x PROVE Upd(s, [fe |-> x]) = [s EXCEPT !.fe = x]
<1>1. [fe |-> x] = [y \in {"fe"} |-> x]
  OBVIOUS
<1>2. Upd(s, [y \in {"fe"} |-> x]) = [s EXCEPT !["fe"] = x]
  BY SfeFields, UpdOne
<1> QED BY <1>1, <1>2

LEMMA SfeToFesize == ASSUME NEW s \in SfeState, NEW x PROVE Upd(s, [fesize |-> x]) = [s EXCEPT !.fesize = x]
<1>1. [fesize |-> x] = [y \in {"fesize"} |-> x]
  OBVIOUS
<1>2. Upd(s, [y \in {"fesize"} |-> x]) = [s EXCEPT !["fesize"] = x]
  BY SfeFields, UpdOne
<1> QED BY <1>1, <1>2

LEMMA SfeToDmasize == ASSUME NEW s \in SfeState, NEW x PROVE Upd(s, [dmasize |-> x]) = [s EXCEPT !.dmasize = x]
<1>1. [dmasize |-> x] = [y \in {"dmasize"} |-> x]
  OBVIOUS
<1>2. Upd(s, [y \in {"dmasize"} |-> x]) = [s EXCEPT !["dmasize"] = x]
  BY SfeFields, UpdOne
<1> QED BY <1>1, <1>2

LEMMA SfeToDma == ASSUME NEW s \in SfeState, NEW x PROVE Upd(s, [dma |-> x]) = [s EXCEPT !.dma = x]
<1>1. [dma |-> x] = [y \in {"dma"} |-> x]
  OBVIOUS
<1>2. Upd(s, [y \in {"dma"} |-> x]) = [s EXCEPT !["dma"] = x]
  BY SfeFields, UpdOne
<1> QED BY <1>1, <1>2

LEMMA SfeToReady == ASSUME NEW s \in SfeState, NEW x PROVE Upd(s, [ready |-> x]) = [s EXCEPT !.ready = x]
<1>1. [ready |-> x] = [y \in {"ready"} |-> x]
  OBVIOUS
<1>2. Upd(s, [y \in {"ready"} |-> x]) = [s EXCEPT !["ready"] = x]
  BY SfeFields, UpdOne
<1> QED BY <1>1, <1>2

LEMMA SfeToLl == ASSUME NEW s \in SfeState, NEW x PROVE Upd(s, [ll |-> x]) = [s EXCEPT !.ll = x]
<1>1. [ll |-> x] = [y \in {"ll"} |-> x]
  OBVIOUS
<1>2. Upd(s, [y \in {"ll"} |-> x]) = [s EXCEPT !["ll"] = x]
  BY SfeFields, UpdOne
<1> QED BY <1>1, <1>2

LEMMA SfeToMute == ASSUME NEW s \in SfeState, NEW x PROVE Upd(s, [txmute |-> x]) = [s EXCEPT !.txmute = x]
<1>1. [txmute |-> x] = [y \in {"txmute"} |-> x]
  OBVIOUS
<1>2. Upd(s, [y \in {"txmute"} |-> x]) = [s EXCEPT !["txmute"] = x]
  BY SfeFields, UpdOne
<1> QED BY <1>1, <1>2

SfeAllReset(x0, x1) == [dma |-> x0, fe |-> x1]
SfeWithReset(s, x0, x1) == [s EXCEPT !.dma = x0, !.fe = x1]
LEMMA SfeToReset ==
    ASSUME NEW s \in SfeState, NEW x0, NEW x1
    PROVE  Upd(s, SfeAllReset(x0, x1)) = SfeWithReset(s, x0, x1)
<1>1. Upd(s, [dma |-> x0]) = [s EXCEPT !.dma = x0]
  <2>1. [dma |-> x0] = [y \in {"dma"} |-> x0]
    OBVIOUS
  <2>2. Upd(s, [y \in {"dma"} |-> x0]) = [s EXCEPT !["dma"] = x0]
    BY SfeFields, UpdOne
  <2> QED BY <2>1, <2>2
<1>2. Upd(s, [dma |-> x0, fe |-> x1]) = [s EXCEPT !.dma = x0, !.fe = x1]
  <2>1. PICK u : u = [dma |-> x0]
    OBVIOUS
  <2>2. PICK v : v = [dma |-> x0, fe |-> x1]
    OBVIOUS
  <2>3. DOMAIN u = {"dma"} /\ DOMAIN v = DOMAIN u \cup {"fe"} /\ v["fe"] = x1
    BY <2>1, <2>2
  <2>4. \A y \in DOMAIN u : v[y] = u[y]
    BY <2>1, <2>2
  <2>5. Upd(s, v) = [Upd(s, u) EXCEPT !["fe"] = v["fe"]]
    BY <2>3, <2>4, SfeFields, UpdMore
  <2>6. Upd(s, u) = [s EXCEPT !.dma = x0]
    BY <1>1, <2>1
  <2> QED BY <2>2, <2>3, <2>5, <2>6
<1> QED BY <1>2 DEF SfeAllReset, SfeWithReset

SfeAllMap(x0, x1) == [txmute |-> x0, txswap |-> x1]
SfeWithMap(s, x0, x1) == [s EXCEPT !.txmute = x0, !.txswap = x1]
LEMMA SfeToMap ==
    ASSUME NEW s \in SfeState, NEW x0, NEW x1
    PROVE  Upd(s, SfeAllMap(x0, x1)) = SfeWithMap(s, x0, x1)
<1>1. Upd(s, [txmute |-> x0]) = [s EXCEPT !.txmute = x0]
  <2>1. [txmute |-> x0] = [y \in {"txmute"} |-> x0]
    OBVIOUS
  <2>2. Upd(s, [y \in {"txmute"} |-> x0]) = [s EXCEPT !["txmute"] = x0]
    BY SfeFields, UpdOne
  <2> QED BY <2>1, <2>2
<1>2. Upd(s, [txmute |-> x0, txswap |-> x1]) = [s EXCEPT !.txmute = x0, !.txswap = x1]
  <2>1. PICK u : u = [txmute |-> x0]
    OBVIOUS
  <2>2. PICK v : v = [txmute |-> x0, txswap |-> x1]
    OBVIOUS
  <2>3. DOMAIN u = {"txmute"} /\ DOMAIN v = DOMAIN u \cup {"txswap"} /\ v["txswap"] = x1
    BY <2>1, <2>2
  <2>4. \A y \in DOMAIN u : v[y] = u[y]
    BY <2>1, <2>2
  <2>5. Upd(s, v) = [Upd(s, u) EXCEPT !["txswap"] = v["txswap"]]
    BY <2>3, <2>4, SfeFields, UpdMore
  <2>6. Upd(s, u) = [s EXCEPT !.txmute = x0]
    BY <1>1, <2>1
  <2> QED BY <2>2, <2>3, <2>5, <2>6
<1> QED BY <1>2 DEF SfeAllMap, SfeWithMap

SfeAllTx(x0, x1, x2) == [txrun |-> x0, txmute |-> x1, txswap |-> x2]
SfeWithTx(s, x0, x1, x2) == [s EXCEPT !.txrun = x0, !.txmute = x1, !.txswap = x2]
LEMMA SfeToTx ==
    ASSUME NEW s \in SfeState, NEW x0, NEW x1, NEW x2
    PROVE  Upd(s, SfeAllTx(x0, x1, x2)) = SfeWithTx(s, x0, x1, x2)
<1>1. Upd(s, [txrun |-> x0]) = [s EXCEPT !.txrun = x0]
  <2>1. [txrun |-> x0] = [y \in {"txrun"} |-> x0]
    OBVIOUS
  <2>2. Upd(s, [y \in {"txrun"} |-> x0]) = [s EXCEPT !["txrun"] = x0]
    BY SfeFields, UpdOne
  <2> QED BY <2>1, <2>2
<1>2. Upd(s, [txrun |-> x0, txmute |-> x1]) = [s EXCEPT !.txrun = x0, !.txmute = x1]
  <2>1. PICK u : u = [txrun |-> x0]
    OBVIOUS
  <2>2. PICK v : v = [txrun |-> x0, txmute |-> x1]
    OBVIOUS
  <2>3. DOMAIN u = {"txrun"} /\ DOMAIN v = DOMAIN u \cup {"txmute"} /\ v["txmute"] = x1
    BY <2>1, <2>2
  <2>4. \A y \in DOMAIN u : v[y] = u[y]
    BY <2>1, <2>2
  <2>5. Upd(s, v) = [Upd(s, u) EXCEPT !["txmute"] = v["txmute"]]
    BY <2>3, <2>4, SfeFields, UpdMore
  <2>6. Upd(s, u) = [s EXCEPT !.txrun = x0]
    BY <1>1, <2>1
  <2> QED BY <2>2, <2>3, <2>5, <2>6
<1>3. Upd(s, [txrun |-> x0, txmute |-> x1, txswap |-> x2]) = [s EXCEPT !.txrun = x0, !.txmute = x1, !.txswap = x2]
  <2>1. PICK u : u = [txrun |-> x0, txmute |-> x1]
    OBVIOUS
  <2>2. PICK v : v = [txrun |-> x0, txmute |-> x1, txswap |-> x2]
    OBVIOUS
  <2>3. DOMAIN u = {"txrun", "txmute"} /\ DOMAIN v = DOMAIN u \cup {"txswap"} /\ v["txswap"] = x2
    BY <2>1, <2>2
  <2>4. \A y \in DOMAIN u : v[y] = u[y]
    BY <2>1, <2>2
  <2>5. Upd(s, v) = [Upd(s, u) EXCEPT !["txswap"] = v["txswap"]]
    BY <2>3, <2>4, SfeFields, UpdMore
  <2>6. Upd(s, u) = [s EXCEPT !.txrun = x0, !.txmute = x1]
    BY <1>2, <2>1
  <2> QED BY <2>2, <2>3, <2>5, <2>6
<1> QED BY <1>3 DEF SfeAllTx, SfeWithTx

SfeAllLlRx(x0, x1, x2, x3, x4) == [ll |-> x0, llsize |-> x1, queue |-> x2, n |-> x3, lost |-> x4]
SfeWithLlRx(s, x0, x1, x2, x3, x4) == [s EXCEPT !.ll = x0, !.llsize = x1, !.queue = x2, !.n = x3, !.lost = x4]
LEMMA SfeToLlRx ==
    ASSUME NEW s \in SfeState, NEW x0, NEW x1, NEW x2, NEW x3, NEW x4
    PROVE  Upd(s, SfeAllLlRx(x0, x1, x2, x3, x4)) = SfeWithLlRx(s, x0, x1, x2, x3, x4)
<1>1. Upd(s, [ll |-> x0]) = [s EXCEPT !.ll = x0]
  <2>1. [ll |-> x0] = [y \in {"ll"} |-> x0]
    OBVIOUS
  <2>2. Upd(s, [y \in {"ll"} |-> x0]) = [s EXCEPT !["ll"] = x0]
    BY SfeFields, UpdOne
  <2> QED BY <2>1, <2>2
<1>2. Upd(s, [ll |-> x0, llsize |-> x1]) = [s EXCEPT !.ll = x0, !.llsize = x1]
  <2>1. PICK u : u = [ll |-> x0]
    OBVIOUS
  <2>2. PICK v : v = [ll |-> x0, llsize |-> x1]
    OBVIOUS
  <2>3. DOMAIN u = {"ll"} /\ DOMAIN v = DOMAIN u \cup {"llsize"} /\ v["llsize"] = x1
    BY <2>1, <2>2
  <2>4. \A y \in DOMAIN u : v[y] = u[y]
    BY <2>1, <2>2
  <2>5. Upd(s, v) = [Upd(s, u) EXCEPT !["llsize"] = v["llsize"]]
    BY <2>3, <2>4, SfeFields, UpdMore
  <2>6. Upd(s, u) = [s EXCEPT !.ll = x0]
    BY <1>1, <2>1
  <2> QED BY <2>2, <2>3, <2>5, <2>6
<1>3. Upd(s, [ll |-> x0, llsize |-> x1, queue |-> x2]) = [s EXCEPT !.ll = x0, !.llsize = x1, !.queue = x2]
  <2>1. PICK u : u = [ll |-> x0, llsize |-> x1]
    OBVIOUS
  <2>2. PICK v : v = [ll |-> x0, llsize |-> x1, queue |-> x2]
    OBVIOUS
  <2>3. DOMAIN u = {"ll", "llsize"} /\ DOMAIN v = DOMAIN u \cup {"queue"} /\ v["queue"] = x2
    BY <2>1, <2>2
  <2>4. \A y \in DOMAIN u : v[y] = u[y]
    BY <2>1, <2>2
  <2>5. Upd(s, v) = [Upd(s, u) EXCEPT !["queue"] = v["queue"]]
    BY <2>3, <2>4, SfeFields, UpdMore
  <2>6. Upd(s, u) = [s EXCEPT !.ll = x0, !.llsize = x1]
    BY <1>2, <2>1
  <2> QED BY <2>2, <2>3, <2>5, <2>6
<1>4. Upd(s, [ll |-> x0, llsize |-> x1, queue |-> x2, n |-> x3]) = [s EXCEPT !.ll = x0, !.llsize = x1, !.queue = x2, !.n = x3]
  <2>1. PICK u : u = [ll |-> x0, llsize |-> x1, queue |-> x2]
    OBVIOUS
  <2>2. PICK v : v = [ll |-> x0, llsize |-> x1, queue |-> x2, n |-> x3]
    OBVIOUS
  <2>3. DOMAIN u = {"ll", "llsize", "queue"} /\ DOMAIN v = DOMAIN u \cup {"n"} /\ v["n"] = x3
    BY <2>1, <2>2
  <2>4. \A y \in DOMAIN u : v[y] = u[y]
    BY <2>1, <2>2
  <2>5. Upd(s, v) = [Upd(s, u) EXCEPT !["n"] = v["n"]]
    BY <2>3, <2>4, SfeFields, UpdMore
  <2>6. Upd(s, u) = [s EXCEPT !.ll = x0, !.llsize = x1, !.queue = x2]
    BY <1>3, <2>1
  <2> QED BY <2>2, <2>3, <2>5, <2>6
<1>5. Upd(s, [ll |-> x0, llsize |-> x1, queue |-> x2, n |-> x3, lost |-> x4]) =
          [s EXCEPT !.ll = x0, !.llsize = x1, !.queue = x2, !.n = x3, !.lost = x4]
  <2>1. PICK u : u = [ll |-> x0, llsize |-> x1, queue |-> x2, n |-> x3]
    OBVIOUS
  <2>2. PICK v : v = [ll |-> x0, llsize |-> x1, queue |-> x2, n |-> x3, lost |-> x4]
    OBVIOUS
  <2>3. DOMAIN u = {"ll", "llsize", "queue", "n"} /\ DOMAIN v = DOMAIN u \cup {"lost"} /\ v["lost"] = x4
    BY <2>1, <2>2
  <2>4. \A y \in DOMAIN u : v[y] = u[y]
    BY <2>1, <2>2
  <2>5. Upd(s, v) = [Upd(s, u) EXCEPT !["lost"] = v["lost"]]
    BY <2>3, <2>4, SfeFields, UpdMore, SMTT(30)
  <2>6. Upd(s, u) = [s EXCEPT !.ll = x0, !.llsize = x1, !.queue = x2, !.n = x3]
    BY <1>4, <2>1, SMTT(30)
  <2> QED BY <2>2, <2>3, <2>5, <2>6
<1> QED BY <1>5 DEF SfeAllLlRx, SfeWithLlRx

\* An access that is nothing to the invariant.
LEMMA SfeNeutral ==
    ASSUME NEW s, SfeInv(s), NEW u1, Upd(s, u1) \in SfeState, SfeRxSame(s, Upd(s, u1)), SfeTxSame(s, Upd(s, u1)),
           NEW o \in SfeDo(s, <<u1>>)
    PROVE  SfeInv(o.s) /\ SfeRxSame(s, o.s) /\ (o.ok => SfeTxSame(s, o.s)) /\ (o.ok => o.s = Upd(s, u1))
<1>1. SfeInv(Upd(s, u1))
  BY SfeParts
<1>2. /\ SfeInv(o.s) /\ (o.ok => o.s = Upd(s, u1))
      /\ \E x \in {s, Upd(s, u1)} : o.s = x \/ (o.s = SfeMiss(x) /\ x.faults # 0)
  BY <1>1, SfeDo1
<1>3. \A x \in SfeState : SfeRxSame(x, SfeMiss(x))
  BY DEF SfeState, SfeMiss, SfeRxSame
<1>4. s \in SfeState
  BY DEF SfeInv
<1>5. SfeRxSame(s, s)
  BY DEF SfeRxSame
<1>6. PICK t : t = Upd(s, u1)
  OBVIOUS
<1>7. t \in SfeState /\ SfeRxSame(s, t) /\ SfeTxSame(s, t)
  BY <1>6
<1>8. PICK y : y = o.s
  OBVIOUS
<1>9. y = s \/ y = t \/ y = SfeMiss(s) \/ y = SfeMiss(t)
  BY <1>2, <1>6, <1>8
<1>10. SfeRxSame(s, SfeMiss(s)) /\ SfeRxSame(t, SfeMiss(t))
  BY <1>3, <1>4, <1>7
<1>11. SfeRxSame(s, y)
  BY <1>5, <1>7, <1>9, <1>10 DEF SfeRxSame
<1> QED BY <1>2, <1>6, <1>7, <1>8, <1>11

LEMMA SfeSyncOk ==
    ASSUME NEW s, SfeInv(s), NEW x \in SfeClocks, NEW o \in SfeDo(s, <<[retimer |-> x]>>)
    PROVE  SfeInv(o.s) /\ SfeRxSame(s, o.s) /\ (o.ok => SfeTxSame(s, o.s))
<1>1. s \in SfeState
  BY DEF SfeInv
<1>2. PICK t : t = Upd(s, [retimer |-> x])
  OBVIOUS
<1>3. t = [s EXCEPT !.retimer = x]
  BY <1>1, <1>2, SfeToRetimer
<1>4. t \in SfeState /\ SfeRxSame(s, t) /\ SfeTxSame(s, t)
  BY <1>1, <1>3 DEF SfeState, SfeRxSame, SfeTxSame
<1> QED BY <1>2, <1>4, SfeNeutral

LEMMA SfeReadyOk ==
    ASSUME NEW s, SfeInv(s), NEW o \in SfeReady(s) \cup SfeThrottle(s)
    PROVE  SfeInv(o.s) /\ SfeRxSame(s, o.s) /\ (o.ok => SfeTxSame(s, o.s))
<1>1. s \in SfeState
  BY DEF SfeInv
<1>2. CASE o \in SfeReady(s)
  <2>2. PICK t : t = Upd(s, [ready |-> TRUE])
    OBVIOUS
  <2>3. t = [s EXCEPT !.ready = TRUE]
    BY <1>1, <2>2, SfeToReady
  <2>4. t \in SfeState /\ SfeRxSame(s, t) /\ SfeTxSame(s, t)
    BY <1>1, <2>3 DEF SfeState, SfeRxSame, SfeTxSame
  <2> QED BY <1>2, <2>2, <2>4, SfeNeutral DEF SfeReady
<1>3. CASE o \in SfeThrottle(s)
  <2>1. Upd(s, <<>>) = s
    BY <1>1, SfeNothing
  <2>2. SfeRxSame(s, s) /\ SfeTxSame(s, s)
    BY DEF SfeRxSame, SfeTxSame
  <2> QED BY <1>1, <1>3, <2>1, <2>2, SfeNeutral DEF SfeThrottle
<1> QED BY <1>2, <1>3

LEMMA SfeLlOk ==
    ASSUME NEW s, SfeInv(s), NEW x \in SUBSET {"rx", "tx"}, NEW o \in SfeDo(s, <<[ll |-> x]>>)
    PROVE  SfeInv(o.s) /\ SfeRxSame(s, o.s) /\ (o.ok => SfeTxSame(s, o.s))
<1>1. s \in SfeState
  BY DEF SfeInv
<1>2. PICK t : t = Upd(s, [ll |-> x])
  OBVIOUS
<1>3. t = [s EXCEPT !.ll = x]
  BY <1>1, <1>2, SfeToLl
<1>4. t \in SfeState /\ SfeRxSame(s, t) /\ SfeTxSame(s, t)
  BY <1>1, <1>3 DEF SfeState, SfeRxSame, SfeTxSame
<1> QED BY <1>2, <1>4, SfeNeutral
-----------------------------------------------------------------------------
(* The receive stream.                                                     *)

\* Without a stream everything but the start of the front end and the DMA is
\* open.
LEMMA SfeLoose ==
    ASSUME NEW s, SfeInv(s), ~s.rx.made, NEW t \in SfeState, SfeTxSame(s, t), t.rx = s.rx, t.fe # "start", ~t.dma
    PROVE  SfeInv(t)
<1>1. SfeRxHeld(t) /\ SfeTimed(t)
  BY DEF SfeInv, SfeRxHeld, SfeTimed
<1> QED BY <1>1, SfeParts DEF SfeInv

\* The commands of the front end.
LEMMA SfeFeIs ==
    ASSUME NEW s \in SfeState, NEW x \in SfeCommands, NEW t, t = Upd(s, [fe |-> x])
    PROVE  /\ t \in SfeState /\ SfeTxSame(s, t) /\ t.rx = s.rx /\ t.fe = x /\ t.dma = s.dma /\ t.fesize = s.fesize
           /\ t.dmasize = s.dmasize /\ t.llsize = s.llsize /\ t.n = s.n /\ t.lost = s.lost /\ t.queue = s.queue
           /\ t.out = s.out
<1>1. t = [s EXCEPT !.fe = x]
  BY SfeToFe
<1> QED BY <1>1 DEF SfeState, SfeTxSame

LEMMA SfeResetOk ==
    ASSUME NEW s, SfeInv(s), ~s.rx.made, NEW o \in dma_rx32_reset(s)
    PROVE  SfeInv(o.s) /\ (o.ok => ~o.s.rx.made)
<1>1. s \in SfeState
  BY DEF SfeInv
<1>2. PICK f \in BOOLEAN : f = FALSE
  OBVIOUS
<1>3. PICK x \in SfeCommands : x = "reset" /\ x # "start"
  BY DEF SfeCommands
<1>4. PICK u : u = SfeAllReset(f, x)
  OBVIOUS
<1>5. PICK t : t = Upd(s, u)
  OBVIOUS
<1>6. t = SfeWithReset(s, f, x)
  BY <1>1, <1>4, <1>5, SfeToReset
<1>7. t \in SfeState /\ t.fe # "start" /\ t.rx = s.rx /\ ~t.dma
  BY <1>1, <1>2, <1>3, <1>6 DEF SfeWithReset, SfeState
<1>8. SfeTxSame(s, t)
  BY <1>1, <1>6 DEF SfeWithReset, SfeState, SfeTxSame
<1>9. SfeInv(t)
  BY <1>7, <1>8, SfeLoose
<1>10. Upd(s, <<>>) = s /\ Upd(Upd(s, <<>>), u) = t /\ Upd(Upd(Upd(s, <<>>), u), <<>>) = t
  BY <1>1, <1>5, <1>7, SfeNothing
<1>11. o \in SfeDo(s, << <<>>, u, <<>> >>)
  <2>1. u = [dma |-> FALSE, fe |-> "reset"]
    BY <1>2, <1>3, <1>4 DEF SfeAllReset
  <2> QED BY <2>1 DEF dma_rx32_reset
<1>12. SfeInv(o.s) /\ (o.ok => o.s = Upd(Upd(Upd(s, <<>>), u), <<>>))
  BY <1>9, <1>10, <1>11, SfeDo3
<1> QED BY <1>7, <1>10, <1>12

LEMMA SfeConfigureOk ==
    ASSUME NEW s, SfeInv(s), ~s.rx.made, NEW size \in Nat, NEW o \in SfeRxConfigure(s, size)
    PROVE  SfeInv(o.s) /\ (o.ok => ~o.s.rx.made /\ o.s.fesize = size)
<1> DEFINE u1 == [fe |-> "reset"]
           u2 == [fesize |-> size]
           u3 == [fe |-> "idle"]
<1>0. ~s.dma /\ s \in SfeState
  BY DEF SfeInv, SfeRxHeld
<1>1. PICK a : a = Upd(s, u1)
  OBVIOUS
<1>2. a \in SfeState /\ SfeTxSame(s, a) /\ a.rx = s.rx /\ a.fe # "start" /\ ~a.dma
  <2>1. "reset" \in SfeCommands /\ "reset" # "start"
    BY DEF SfeCommands
  <2> QED BY <1>0, <1>1, <2>1, SfeFeIs
<1>3. SfeInv(a)
  BY <1>2, SfeLoose
<1>4. PICK b : b = Upd(a, u2)
  OBVIOUS
<1>5. b \in SfeState /\ SfeTxSame(a, b) /\ b.rx = a.rx /\ b.fe # "start" /\ ~b.dma /\ b.fesize = size
  <2>1. b = [a EXCEPT !.fesize = size]
    BY <1>2, <1>4, SfeToFesize
  <2> QED BY <1>2, <2>1 DEF SfeState, SfeTxSame
<1>6. SfeInv(b)
  BY <1>2, <1>3, <1>5, SfeLoose
<1>7. PICK c : c = Upd(b, u3)
  OBVIOUS
<1>8. c \in SfeState /\ SfeTxSame(b, c) /\ c.rx = b.rx /\ c.fe # "start" /\ ~c.dma /\ c.fesize = size
  <2>1. "idle" \in SfeCommands /\ "idle" # "start"
    BY DEF SfeCommands
  <2> QED BY <1>5, <1>7, <2>1, SfeFeIs
<1>9. SfeInv(c)
  BY <1>2, <1>5, <1>6, <1>8, SfeLoose
<1> HIDE DEF u1, u2, u3
<1>10. o \in SfeDo(s, <<u1, u2, u3, <<>> >>)
  BY DEF SfeRxConfigure, u1, u2, u3
<1>11. /\ Upd(s, u1) = a /\ Upd(Upd(s, u1), u2) = b /\ Upd(Upd(Upd(s, u1), u2), u3) = c
       /\ Upd(Upd(Upd(Upd(s, u1), u2), u3), <<>>) = c
  BY <1>1, <1>4, <1>7, <1>8, SfeNothing
<1>12. SfeInv(o.s) /\ (o.ok => o.s = Upd(Upd(Upd(Upd(s, u1), u2), u3), <<>>))
  BY <1>3, <1>6, <1>9, <1>10, <1>11, SfeDo4
<1> QED BY <1>2, <1>5, <1>8, <1>11, <1>12

LEMMA SfeDmaSizeOk ==
    ASSUME NEW s, SfeInv(s), ~s.rx.made, NEW size \in Nat, NEW o \in dma_rx32_configure(s, size)
    PROVE  SfeInv(o.s) /\ (o.ok => ~o.s.rx.made /\ o.s.fesize = s.fesize /\ o.s.dmasize = size)
<1> DEFINE u1 == [dmasize |-> size]
<1>0. ~s.dma /\ s.fe # "start" /\ s \in SfeState
  BY DEF SfeInv, SfeRxHeld
<1>1. PICK a : a = Upd(s, u1)
  OBVIOUS
<1>2. a \in SfeState /\ SfeTxSame(s, a) /\ a.rx = s.rx /\ a.fe # "start" /\ ~a.dma /\ a.fesize = s.fesize /\ a.dmasize = size
  <2>1. a = [s EXCEPT !.dmasize = size]
    BY <1>0, <1>1, SfeToDmasize
  <2> QED BY <1>0, <2>1 DEF SfeState, SfeTxSame
<1>3. SfeInv(a)
  BY <1>2, SfeLoose
<1> HIDE DEF u1
<1>4. o \in SfeDo(s, <<u1, <<>> >>)
  BY DEF dma_rx32_configure, u1
<1>5. Upd(s, u1) = a /\ Upd(Upd(s, u1), <<>>) = a
  BY <1>1, <1>2, SfeNothing
<1>6. SfeInv(o.s) /\ (o.ok => o.s = Upd(Upd(s, u1), <<>>))
  BY <1>3, <1>4, <1>5, SfeDo2
<1> QED BY <1>2, <1>5, <1>6

\* The transport is told, and the stream object made.
SfeRxNew(size) == [SfeNoRx EXCEPT !.made = TRUE, !.size = size]

LEMMA SfeMadeOk ==
    ASSUME NEW s, SfeInv(s), ~s.rx.made, NEW size \in SfeSizes, s.fesize = size, s.dmasize = size,
           NEW o \in SfeLlInit(s, [ll |-> s.ll \cup {"rx"}, llsize |-> size, queue |-> <<>>, n |-> 0, lost |-> 0])
    PROVE  SfeInv(o.s) /\ (o.ok => SfeInv([o.s EXCEPT !.rx = SfeRxNew(size)]))
<1>1. s \in SfeState /\ s.fe # "start" /\ ~s.dma /\ size \in Nat /\ s.rx = SfeNoRx
  BY DEF SfeInv, SfeRxHeld, SfeSizes
<1>2. PICK x : x = s.ll \cup {"rx"}
  OBVIOUS
<1>3. x \in SUBSET {"rx", "tx"}
  BY <1>1, <1>2 DEF SfeState
<1>4. PICK q \in Seq(SfePk) : q = <<>>
  <2>1. <<>> \in Seq(SfePk)
    OBVIOUS
  <2> QED BY <2>1
<1>5. PICK u : u = SfeAllLlRx(x, size, q, 0, 0)
  OBVIOUS
<1>6. PICK t : t = Upd(s, u)
  OBVIOUS
<1>7. t = SfeWithLlRx(s, x, size, q, 0, 0)
  BY <1>1, <1>5, <1>6, SfeToLlRx
<1>8. /\ t \in SfeState /\ t.fe # "start" /\ ~t.dma /\ t.rx = s.rx /\ t.fesize = size /\ t.dmasize = size /\ t.llsize = size
      /\ t.queue = q /\ t.n = 0 /\ t.lost = 0
  BY <1>1, <1>3, <1>7 DEF SfeWithLlRx, SfeState
<1>9. SfeTxSame(s, t)
  BY <1>1, <1>7 DEF SfeWithLlRx, SfeState, SfeTxSame
<1>10. SfeInv(t)
  BY <1>8, <1>9, SfeLoose
<1>11. o \in SfeDo(s, <<u>>)
  BY <1>2, <1>4, <1>5 DEF SfeLlInit, SfeAllLlRx
<1>12. SfeInv(o.s) /\ (o.ok => o.s = t)
  BY <1>6, <1>10, <1>11, SfeDo1
<1>13. SfeInv([t EXCEPT !.rx = SfeRxNew(size)])
  <2> DEFINE r == SfeRxNew(size)
             y == [t EXCEPT !.rx = r]
  <2>1. r \in SfeRxd /\ r.made /\ r.size = size /\ r.ts = 0 /\ r.rcnt = 0 /\ r.drop = 0
    BY DEF SfeRxNew, SfeNoRx, SfeRxd
  <2> HIDE DEF r
  <2>2. /\ y \in SfeState /\ y.rx = r /\ y.fesize = size /\ y.dmasize = size /\ y.llsize = size /\ y.queue = q
        /\ y.n = 0 /\ y.lost = 0
    BY <1>8, <2>1 DEF SfeState
  <2>3. SfeTxSame(t, y)
    BY <1>8 DEF SfeState, SfeTxSame
  <2> HIDE DEF y
  <2>4. SfeRxHeld(y)
    BY <2>1, <2>2 DEF SfeRxHeld
  <2>5. SfeFollow(0, q, 0, 0)
    BY <1>4 DEF SfeFollow
  <2>6. y.rx.ts = y.rx.size * (y.rx.rcnt + y.rx.drop) /\ y.rx.rcnt + y.rx.drop = 0
    BY <1>1, <2>1, <2>2
  <2>7. SfeTimed(y)
    BY <2>1, <2>2, <2>5, <2>6 DEF SfeTimed
  <2>8. SfeTxHeld(y)
    BY <1>10, <2>2, <2>3, SfeParts
  <2>9. SfeInv(y)
    BY <2>2, <2>4, <2>7, <2>8 DEF SfeInv
  <2> QED BY <2>9 DEF y, r
<1> QED BY <1>12, <1>13

LEMMA SfeCreateRxOk ==
    ASSUME NEW s, SfeInv(s), ~s.rx.made, NEW size \in SfeSizes, NEW z \in initialize_stream_rx_32(s, size)
    PROVE  SfeInv(z.s)
<1> DEFINE LlRec(w) == [ll |-> w.ll \cup {"rx"}, llsize |-> size, queue |-> <<>>, n |-> 0, lost |-> 0]
           E4(w) == UNION {IF o.ok THEN Ok([o.s EXCEPT !.rx = SfeRxNew(size)]) ELSE {o} : o \in SfeLlInit(w, LlRec(w))}
           E3(v) == UNION {IF o.ok THEN E4(o.s) ELSE {o} : o \in sfetrx4_stream_sync(v, "off", {})}
           E2(u) == UNION {IF o.ok THEN E3(o.s) ELSE {o} : o \in dma_rx32_configure(u, size)}
           E1(t) == Fail(t) \cup UNION {IF o.ok THEN E2(o.s) ELSE {o} : o \in SfeRxConfigure(t, size)}
<1>z. z \in UNION {IF o.ok THEN E1(o.s) ELSE {o} : o \in dma_rx32_reset(s)}
  BY Zenon DEF initialize_stream_rx_32, Then, SfeRxNew
<1>0. size \in Nat
  BY DEF SfeSizes
<1>4. ASSUME NEW w, SfeInv(w), ~w.rx.made, w.fesize = size, w.dmasize = size, NEW y \in E4(w) PROVE SfeInv(y.s)
  <2>1. PICK o \in SfeLlInit(w, LlRec(w)) : y \in IF o.ok THEN Ok([o.s EXCEPT !.rx = SfeRxNew(size)]) ELSE {o}
    BY <1>4
  <2>2. SfeInv(o.s) /\ (o.ok => SfeInv([o.s EXCEPT !.rx = SfeRxNew(size)]))
    BY <1>4, SfeMadeOk
  <2> QED BY <2>1, <2>2 DEF Ok
<1> HIDE DEF E4
<1>3. ASSUME NEW w, SfeInv(w), ~w.rx.made, w.fesize = size, w.dmasize = size, NEW y \in E3(w) PROVE SfeInv(y.s)
  <2>1. PICK o \in sfetrx4_stream_sync(w, "off", {}) : y \in IF o.ok THEN E4(o.s) ELSE {o}
    BY <1>3
  <2>2. PICK x \in SfeClocks : x = SfeSyncCmd(w, "off", {})
    BY DEF SfeSyncCmd, SfeClocks
  <2>3. SfeInv(o.s) /\ SfeRxSame(w, o.s)
    BY <1>3, <2>2, SfeSyncOk DEF sfetrx4_stream_sync
  <2>4. ~o.s.rx.made /\ o.s.fesize = size /\ o.s.dmasize = size
    BY <1>3, <2>3 DEF SfeRxSame
  <2> QED BY <1>4, <2>1, <2>3, <2>4
<1> HIDE DEF E3
<1>2. ASSUME NEW w, SfeInv(w), ~w.rx.made, w.fesize = size, NEW y \in E2(w) PROVE SfeInv(y.s)
  <2>1. PICK o \in dma_rx32_configure(w, size) : y \in IF o.ok THEN E3(o.s) ELSE {o}
    BY <1>2
  <2>2. SfeInv(o.s) /\ (o.ok => ~o.s.rx.made /\ o.s.fesize = size /\ o.s.dmasize = size)
    BY <1>0, <1>2, SfeDmaSizeOk
  <2> QED BY <1>3, <2>1, <2>2
<1> HIDE DEF E2
<1>1. ASSUME NEW w, SfeInv(w), ~w.rx.made, NEW y \in E1(w) PROVE SfeInv(y.s)
  <2>1. CASE y \in Fail(w)
    BY <1>1, <2>1 DEF Fail
  <2>2. CASE y \notin Fail(w)
    <3>1. PICK o \in SfeRxConfigure(w, size) : y \in IF o.ok THEN E2(o.s) ELSE {o}
      BY <1>1, <2>2
    <3>2. SfeInv(o.s) /\ (o.ok => ~o.s.rx.made /\ o.s.fesize = size)
      BY <1>0, <1>1, SfeConfigureOk
    <3> QED BY <1>2, <3>1, <3>2
  <2> QED BY <2>1, <2>2
<1> HIDE DEF E1
<1>5. PICK o \in dma_rx32_reset(s) : z \in IF o.ok THEN E1(o.s) ELSE {o}
  BY <1>z
<1>6. SfeInv(o.s) /\ (o.ok => ~o.s.rx.made)
  BY SfeResetOk
<1> QED BY <1>1, <1>5, <1>6

\* While there is a receive stream the front end and the DMA run or do not.
LEMMA SfeMoves ==
    ASSUME NEW s, SfeInv(s), s.rx.made, NEW t \in SfeState, SfeTxSame(s, t), t.rx = s.rx, t.fesize = s.fesize,
           t.dmasize = s.dmasize, t.llsize = s.llsize, t.n = s.n, t.lost = s.lost, t.queue = s.queue, t.out = s.out
    PROVE  SfeInv(t)
<1>1. SfeRxHeld(t)
  BY DEF SfeInv, SfeRxHeld
<1>2. SfeTimed(t)
  BY DEF SfeInv, SfeTimed
<1> QED BY <1>1, <1>2, SfeParts DEF SfeInv

LEMMA SfeDmaOk ==
    ASSUME NEW s, SfeInv(s), s.rx.made, NEW b \in BOOLEAN, NEW o \in SfeDo(s, <<[dma |-> b]>>)
    PROVE  SfeInv(o.s) /\ o.s.rx.made /\ (o.ok /\ ~b => ~o.s.dma)
<1>1. s \in SfeState
  BY DEF SfeInv
<1>2. PICK t : t = Upd(s, [dma |-> b])
  OBVIOUS
<1>3. t = [s EXCEPT !.dma = b]
  BY <1>1, <1>2, SfeToDma
<1>4. /\ t \in SfeState /\ t.rx = s.rx /\ t.fesize = s.fesize /\ t.dmasize = s.dmasize /\ t.llsize = s.llsize
      /\ t.n = s.n /\ t.lost = s.lost /\ t.queue = s.queue /\ t.out = s.out /\ (~b => ~t.dma)
  BY <1>1, <1>3 DEF SfeState
<1>5. SfeTxSame(s, t)
  BY <1>1, <1>3 DEF SfeState, SfeTxSame
<1>6. SfeInv(t)
  BY <1>4, <1>5, SfeMoves
<1>7. /\ SfeInv(o.s) /\ (o.ok => o.s = t)
      /\ \E x \in {s, t} : o.s = x \/ (o.s = SfeMiss(x) /\ x.faults # 0)
  BY <1>2, <1>6, SfeDo1
<1>8. \A x \in {s, t} : x.faults # 0 => SfeMiss(x).rx = x.rx
  BY <1>6, SfeMissOk
<1> QED BY <1>4, <1>7, <1>8

LEMMA SfeStartStopOk ==
    ASSUME NEW s, SfeInv(s), s.rx.made, NEW b \in BOOLEAN, NEW o \in sfe_rx4_startstop(s, b)
    PROVE  SfeInv(o.s) /\ (o.ok /\ ~b => o.s.fe # "start" /\ o.s.dma = s.dma)
<1>1. s \in SfeState
  BY DEF SfeInv
<1>2. PICK x \in SfeCommands : x = (IF b THEN "start" ELSE "stop") /\ (~b => x # "start")
  BY DEF SfeCommands
<1>3. PICK t : t = Upd(s, [fe |-> x])
  OBVIOUS
<1>4. /\ t \in SfeState /\ SfeTxSame(s, t) /\ t.rx = s.rx /\ t.fe = x /\ t.dma = s.dma /\ t.fesize = s.fesize
      /\ t.dmasize = s.dmasize /\ t.llsize = s.llsize /\ t.n = s.n /\ t.lost = s.lost /\ t.queue = s.queue
      /\ t.out = s.out
  BY <1>1, <1>3, SfeFeIs
<1>5. SfeInv(t)
  BY <1>4, SfeMoves
<1>6. o \in SfeDo(s, <<[fe |-> x]>>)
  BY <1>2 DEF sfe_rx4_startstop
<1>7. SfeInv(o.s) /\ (o.ok => o.s = t)
  BY <1>3, <1>5, <1>6, SfeDo1
<1> QED BY <1>2, <1>4, <1>7

LEMMA SfeOpRxOk ==
    ASSUME NEW s, SfeInv(s), s.rx.made, NEW b \in BOOLEAN, NEW z \in _sfetrx4_op(s, "rx", b)
    PROVE  SfeInv(z.s) /\ (z.ok /\ ~b => z.s.fe # "start" /\ ~z.s.dma)
<1>1. PICK o \in SfeDo(s, <<[dma |-> b]>>) : z \in IF o.ok THEN sfe_rx4_startstop(o.s, b) ELSE {o}
  <2>1. z \in Then(SfeDo(s, <<[dma |-> b]>>), LAMBDA t : sfe_rx4_startstop(t, b))
    BY DEF _sfetrx4_op
  <2> QED BY <2>1, Zenon DEF Then
<1>2. SfeInv(o.s) /\ o.s.rx.made /\ (o.ok /\ ~b => ~o.s.dma)
  BY SfeDmaOk
<1>3. CASE o.ok
  <2>1. z \in sfe_rx4_startstop(o.s, b)
    BY <1>1, <1>3
  <2>2. SfeInv(z.s) /\ (z.ok /\ ~b => z.s.fe # "start" /\ z.s.dma = o.s.dma)
    BY <1>2, <2>1, SfeStartStopOk
  <2> QED BY <1>2, <1>3, <2>2
<1>4. CASE ~o.ok
  BY <1>1, <1>2, <1>4
<1> QED BY <1>3, <1>4

\* A receive stream that is stopped may go.
LEMMA SfeGoneRx ==
    ASSUME NEW s, SfeInv(s), s.fe # "start", ~s.dma
    PROVE  SfeInv([s EXCEPT !.rx = SfeNoRx])
<1> DEFINE t == [s EXCEPT !.rx = SfeNoRx]
<1>1. s \in SfeState /\ SfeNoRx \in SfeRxd /\ ~SfeNoRx.made
  BY DEF SfeInv, SfeNoRx, SfeRxd
<1>2. t \in SfeState /\ t.rx = SfeNoRx /\ t.fe = s.fe /\ t.dma = s.dma
  BY <1>1 DEF SfeState
<1>3. SfeTxSame(s, t)
  BY <1>1 DEF SfeState, SfeTxSame
<1> HIDE DEF t
<1>4. SfeRxHeld(t) /\ SfeTimed(t)
  BY <1>1, <1>2 DEF SfeRxHeld, SfeTimed
<1>5. SfeInv(t)
  BY <1>2, <1>3, <1>4, SfeParts DEF SfeInv
<1> QED BY <1>5 DEF t

\* What the destruction of a stream comes to.
SfeStopped(s, d) == IF d = "tx" THEN sfe_tx4_ctl(s, FALSE) ELSE _sfetrx4_op(s, "rx", FALSE)
SfeWithout(s, d) == IF d = "tx" THEN [s EXCEPT !.tx = SfeNoTx] ELSE [s EXCEPT !.rx = SfeNoRx]
SfeGone(o, z, d) == IF o.ok THEN \E q \in SfeDo(o.s, <<[ll |-> o.s.ll \ {d}]>>) : z.s = SfeWithout(q.s, d) ELSE z = o

LEMMA SfeDestroyOf ==
    ASSUME NEW s, NEW d, NEW z \in _sfetrx4_destroy(s, d)
    PROVE  \E o \in SfeStopped(s, d) : SfeGone(o, z, d)
<1> DEFINE G(u) == Ok(IF d = "tx" THEN [u EXCEPT !.tx = SfeNoTx] ELSE [u EXCEPT !.rx = SfeNoRx])
           L(t) == SfeDo(t, <<[ll |-> t.ll \ {d}]>>)
           F(t) == UNION {{[p EXCEPT !.ok = q.ok] : p \in G(q.s)} : q \in L(t)}
<1>1. z \in UNION {IF o.ok THEN F(o.s) ELSE {o} : o \in SfeStopped(s, d)}
  BY Zenon DEF _sfetrx4_destroy, Then, Finally, SfeStopped
<1> HIDE DEF F
<1>2. PICK o \in SfeStopped(s, d) : z \in IF o.ok THEN F(o.s) ELSE {o}
  BY <1>1
<1>3. CASE o.ok
  <2>1. z \in F(o.s)
    BY <1>2, <1>3
  <2> HIDE DEF G, L
  <2>2. PICK q \in L(o.s) : \E p \in G(q.s) : z = [p EXCEPT !.ok = q.ok]
    BY <2>1 DEF F
  <2>3. PICK p \in G(q.s) : z = [p EXCEPT !.ok = q.ok]
    BY <2>2
  <2>4. z.s = SfeWithout(q.s, d)
    BY <2>3 DEF G, Ok, SfeWithout
  <2>5. SfeGone(o, z, d)
    BY <1>3, <2>2, <2>4 DEF L, SfeGone
  <2> QED BY <1>2, <2>5
<1>4. CASE ~o.ok
  BY <1>2, <1>4 DEF SfeGone
<1> QED BY <1>3, <1>4

LEMMA SfeDestroyRxOk ==
    ASSUME NEW s, SfeInv(s), s.rx.made, NEW z \in _sfetrx4_destroy(s, "rx")
    PROVE  SfeInv(z.s)
<1>1. PICK o \in _sfetrx4_op(s, "rx", FALSE) : SfeGone(o, z, "rx")
  <2>1. SfeStopped(s, "rx") = _sfetrx4_op(s, "rx", FALSE)
    BY DEF SfeStopped
  <2> QED BY <2>1, SfeDestroyOf
<1>2. SfeInv(o.s) /\ (o.ok => o.s.fe # "start" /\ ~o.s.dma)
  <2>1. PICK b \in BOOLEAN : b = FALSE
    OBVIOUS
  <2>2. o \in _sfetrx4_op(s, "rx", b)
    BY <2>1
  <2> QED BY <2>1, <2>2, SfeOpRxOk
<1>3. CASE ~o.ok
  BY <1>1, <1>2, <1>3 DEF SfeGone
<1>4. CASE o.ok
  <2>1. PICK q \in SfeDo(o.s, <<[ll |-> o.s.ll \ {"rx"}]>>) : z.s = [q.s EXCEPT !.rx = SfeNoRx]
    <3>1. \A x : SfeWithout(x, "rx") = [x EXCEPT !.rx = SfeNoRx]
      BY DEF SfeWithout
    <3> QED BY <1>1, <1>4, <3>1 DEF SfeGone
  <2>2. PICK x \in SUBSET {"rx", "tx"} : x = o.s.ll \ {"rx"}
    BY <1>2 DEF SfeInv, SfeState
  <2>3. SfeInv(q.s) /\ SfeRxSame(o.s, q.s)
    BY <1>2, <2>1, <2>2, SfeLlOk
  <2>4. q.s.fe # "start" /\ ~q.s.dma
    BY <1>2, <1>4, <2>3 DEF SfeRxSame
  <2> QED BY <2>1, <2>3, <2>4, SfeGoneRx
<1> QED BY <1>3, <1>4
-----------------------------------------------------------------------------
(* Packets.                                                                *)
LEMMA SfeFollowAppend ==
    ASSUME NEW q \in Seq(SfePk), NEW m \in Nat, NEW lost \in Nat, NEW n \in Nat, SfeFollow(m, q, lost, n),
           NEW p, p = [pk |-> n, lost |-> lost]
    PROVE  SfeFollow(m, Append(q, p), 0, n + 1)
<1> DEFINE r == Append(q, p)
           N == Len(q)
<1>1. N \in Nat /\ Len(r) = N + 1 /\ r[N + 1] = p /\ \A j \in 1..N : r[j] = q[j]
  OBVIOUS
<1>2. p.pk = n /\ p.lost = lost
  OBVIOUS
<1>3. ASSUME NEW j \in 1..(N + 1) PROVE r[j].pk = r[j].lost + (IF j = 1 THEN m ELSE r[j - 1].pk + 1)
  <2>1. CASE j \in 1..N
    <3>1. j = 1 \/ j - 1 \in 1..N
      BY <1>1, <2>1
    <3> QED BY <1>1, <2>1, <3>1 DEF SfeFollow
  <2>2. CASE j = N + 1
    <3>1. N = 0 \/ N \in 1..N
      BY <1>1
    <3> QED BY <1>1, <1>2, <2>2, <3>1 DEF SfeFollow
  <2> QED BY <1>1, <2>1, <2>2
<1>4. n + 1 = 0 + (IF Len(r) = 0 THEN m ELSE r[Len(r)].pk + 1)
  BY <1>1, <1>2
<1> QED BY <1>1, <1>3, <1>4 DEF SfeFollow

LEMMA SfeFollowDrop ==
    ASSUME NEW q, Len(q) \in Nat, NEW m \in Nat, NEW lost \in Nat, NEW n \in Nat, SfeFollow(m, q, lost, n),
           Len(q) # 0 => q[Len(q)].pk \in Nat
    PROVE  SfeFollow(m, q, lost + 1, n + 1)
<1>1. PICK x \in Nat : x = IF Len(q) = 0 THEN m ELSE q[Len(q)].pk + 1
  OBVIOUS
<1>2. n = lost + x
  BY <1>1 DEF SfeFollow
<1>3. n + 1 = (lost + 1) + x
  BY <1>2
<1> QED BY <1>1, <1>3 DEF SfeFollow

LEMMA SfeFollowTail ==
    ASSUME NEW q \in Seq(SfePk), q # <<>>, NEW m, NEW lost, NEW n, SfeFollow(m, q, lost, n)
    PROVE  q[1].pk = q[1].lost + m /\ SfeFollow(q[1].pk + 1, Tail(q), lost, n)
<1> DEFINE r == Tail(q)
           N == Len(q)
<1>1. N \in Nat /\ N # 0 /\ Len(r) = N - 1 /\ \A j \in 1..(N - 1) : r[j] = q[j + 1]
  OBVIOUS
<1>2. q[1].pk = q[1].lost + m
  BY <1>1 DEF SfeFollow
<1>3. ASSUME NEW j \in 1..(N - 1) PROVE r[j].pk = r[j].lost + (IF j = 1 THEN q[1].pk + 1 ELSE r[j - 1].pk + 1)
  <2>1. j + 1 \in 1..N /\ j + 1 # 1 /\ (j + 1) - 1 = j /\ (j = 1 \/ (j - 1 \in 1..(N - 1) /\ (j - 1) + 1 = j))
    BY <1>1
  <2>2. q[j + 1].pk = q[j + 1].lost + (q[j].pk + 1)
    BY <2>1 DEF SfeFollow
  <2> QED BY <1>1, <2>1, <2>2
<1>4. n = lost + (IF Len(r) = 0 THEN q[1].pk + 1 ELSE r[Len(r)].pk + 1)
  <2>1. n = lost + (q[N].pk + 1)
    BY <1>1 DEF SfeFollow
  <2>2. N = 1 \/ (N - 1 \in 1..(N - 1) /\ (N - 1) + 1 = N)
    BY <1>1
  <2> QED BY <1>1, <2>1, <2>2
<1> QED BY <1>1, <1>2, <1>3, <1>4 DEF SfeFollow

\* The size of a stream multiplies like a number.
LEMMA SfeTimesSize ==
    ASSUME NEW c \in SfeSizes \cup {0}, NEW a \in Nat, NEW b \in Nat
    PROVE  c * a \in Nat /\ c * a + c * b = c * (a + b) /\ c * a + c = c * (a + 1)
<1>1. c = 0 \/ c = 1 \/ c = 2
  BY DEF SfeSizes
<1> QED BY <1>1

\* What the receipt of a packet leaves.
SfeRxAfter(r, rcnt, drop, ts) == [r EXCEPT !.rcnt = rcnt, !.drop = drop, !.ts = ts]
SfeAfter(s, q, g, r) == [s EXCEPT !.queue = q, !.out = g, !.rx = r]
SfePut(s, n, lost, q) == [s EXCEPT !.n = n, !.lost = lost, !.queue = q]
SfeLose(s, n, lost) == [s EXCEPT !.n = n, !.lost = lost]

LEMMA SfePutIs ==
    ASSUME NEW s \in SfeState, NEW n \in Nat, NEW lost \in Nat, NEW q \in Seq(SfePk),
           NEW t, t = SfePut(s, n, lost, q) \/ (q = s.queue /\ t = SfeLose(s, n, lost))
    PROVE  /\ t \in SfeState /\ t.fe = s.fe /\ t.dma = s.dma /\ t.fesize = s.fesize /\ t.dmasize = s.dmasize
           /\ t.llsize = s.llsize /\ t.rx = s.rx /\ t.out = s.out /\ t.n = n /\ t.lost = lost /\ t.queue = q
           /\ SfeTxSame(s, t)
<1>1. CASE t = SfePut(s, n, lost, q)
  <2>1. /\ t \in SfeState /\ t.fe = s.fe /\ t.dma = s.dma /\ t.fesize = s.fesize /\ t.dmasize = s.dmasize
        /\ t.llsize = s.llsize /\ t.rx = s.rx /\ t.out = s.out /\ t.n = n /\ t.lost = lost /\ t.queue = q
    BY <1>1 DEF SfePut, SfeState
  <2>2. SfeTxSame(s, t)
    BY <1>1 DEF SfePut, SfeState, SfeTxSame
  <2> QED BY <2>1, <2>2
<1>2. CASE q = s.queue /\ t = SfeLose(s, n, lost)
  <2>1. /\ t \in SfeState /\ t.fe = s.fe /\ t.dma = s.dma /\ t.fesize = s.fesize /\ t.dmasize = s.dmasize
        /\ t.llsize = s.llsize /\ t.rx = s.rx /\ t.out = s.out /\ t.n = n /\ t.lost = lost /\ t.queue = q
    BY <1>2 DEF SfeLose, SfeState
  <2>2. SfeTxSame(s, t)
    BY <1>2 DEF SfeLose, SfeState, SfeTxSame
  <2> QED BY <2>1, <2>2
<1> QED BY <1>1, <1>2

LEMMA SfeTakeOk ==
    ASSUME NEW s, SfeInv(s), s.rx.made, s.queue # <<>>
    PROVE  SfeInv(SfeTake(s))
<1> DEFINE p == s.queue[1]
           c == s.rx.size
           m == s.rx.rcnt + s.rx.drop
           at == s.rx.ts + c * p.lost
           r == SfeRxAfter(s.rx, s.rx.rcnt + 1, s.rx.drop + p.lost, at + c)
           g == [pk |-> p.pk, ts |-> at]
           t == SfeAfter(s, Tail(s.queue), g, r)
<1>1. s \in SfeState /\ s.queue \in Seq(SfePk) /\ s.rx \in SfeRxd /\ s.n \in Nat /\ s.lost \in Nat
  BY DEF SfeInv, SfeState
<1>2. Head(s.queue) = p /\ p \in SfePk /\ Tail(s.queue) \in Seq(SfePk)
  BY <1>1
<1>3. p.pk \in Nat /\ p.lost \in Nat /\ c \in SfeSizes \cup {0} /\ m \in Nat /\ s.rx.rcnt \in Nat /\ s.rx.drop \in Nat
  BY <1>1, <1>2, SMTT(30) DEF SfePk, SfeRxd
<1>4. s.rx.ts = c * m /\ SfeFollow(m, s.queue, s.lost, s.n)
  BY DEF SfeInv, SfeTimed
<1>5. p.pk = p.lost + m /\ SfeFollow(p.pk + 1, Tail(s.queue), s.lost, s.n)
  BY <1>1, <1>4, SfeFollowTail
<1> HIDE DEF p, m, c
<1>6. at = c * p.pk /\ at \in Nat /\ c \in Nat /\ at + c = c * (p.pk + 1)
  <2>0. m + p.lost = p.pk
    BY <1>3, <1>5
  <2>1. c * m + c * p.lost = c * (m + p.lost)
    BY <1>3, SfeTimesSize
  <2>2. c * p.pk \in Nat /\ c * p.pk + c = c * (p.pk + 1)
    BY <1>3, SfeTimesSize
  <2>3. c \in Nat
    BY <1>3 DEF SfeSizes
  <2>4. at = c * m + c * p.lost
    BY <1>4
  <2> QED BY <2>0, <2>1, <2>2, <2>3, <2>4
<1>7. SfeTake(s) = t
  <2>1. Head(s.queue) = s.queue[1]
    BY <1>2 DEF p
  <2> QED BY <2>1 DEF SfeTake, SfeAfter, SfeRxAfter, p, c
<1> HIDE DEF at, g, r, t
<1>8. r \in SfeRxd /\ r.made = s.rx.made /\ r.size = s.rx.size /\ r.rcnt = s.rx.rcnt + 1
      /\ r.drop = s.rx.drop + p.lost /\ r.ts = at + c
  <2>1. PICK a \in Nat : a = s.rx.rcnt + 1
    BY <1>3
  <2>2. PICK b \in Nat : b = s.rx.drop + p.lost
    BY <1>3
  <2>3. at \in Nat /\ c \in Nat
    BY <1>6
  <2>4. PICK e \in Nat : e = at + c
    BY <2>3
  <2>5. r = SfeRxAfter(s.rx, a, b, e)
    BY <2>1, <2>2, <2>4 DEF r
  <2>6. PICK x : x = r
    OBVIOUS
  <2>7. x \in SfeRxd /\ x.made = s.rx.made /\ x.size = s.rx.size /\ x.rcnt = a /\ x.drop = b /\ x.ts = e
    <3>1. PICK y \in SfeRxd : y = s.rx
      BY <1>1
    <3>2. x = SfeRxAfter(y, a, b, e)
      BY <2>5, <2>6, <3>1
    <3>3. x \in SfeRxd /\ x.made = y.made /\ x.size = y.size /\ x.rcnt = a /\ x.drop = b /\ x.ts = e
      BY <3>2 DEF SfeRxAfter, SfeRxd
    <3> QED BY <3>1, <3>3
  <2> QED BY <2>1, <2>2, <2>4, <2>6, <2>7
<1>9. g \in [pk : Nat, ts : Nat] /\ g.pk = p.pk /\ g.ts = at
  BY <1>3, <1>6 DEF g
<1>10. /\ t \in SfeState /\ t.fe = s.fe /\ t.dma = s.dma /\ t.fesize = s.fesize /\ t.dmasize = s.dmasize
       /\ t.llsize = s.llsize /\ t.rx = r /\ t.n = s.n /\ t.lost = s.lost /\ t.queue = Tail(s.queue) /\ t.out = g
  BY <1>1, <1>2, <1>8, <1>9 DEF SfeState, SfeAfter, t
<1>11. SfeTxSame(s, t)
  BY <1>1 DEF SfeState, SfeTxSame, SfeAfter, t
<1>12. SfeRxHeld(t)
  BY <1>8, <1>10 DEF SfeInv, SfeRxHeld
<1>13. t.rx.rcnt + t.rx.drop = p.pk + 1 /\ t.rx.size = c
  <2>1. p.pk = p.lost + (s.rx.rcnt + s.rx.drop)
    BY <1>5 DEF m
  <2>2. t.rx.rcnt = s.rx.rcnt + 1 /\ t.rx.drop = s.rx.drop + p.lost /\ t.rx.size = s.rx.size
    BY <1>8, <1>10
  <2>3. s.rx.rcnt + 1 + (s.rx.drop + p.lost) = p.pk + 1
    BY <1>3, <2>1
  <2> QED BY <2>2, <2>3 DEF c
<1>14. SfeTimed(t)
  BY <1>5, <1>6, <1>8, <1>9, <1>10, <1>13 DEF SfeTimed
<1>15. SfeInv(t)
  BY <1>10, <1>11, <1>12, <1>14, SfeParts DEF SfeInv
<1> QED BY <1>7, <1>15

LEMMA SfeRecvOk ==
    ASSUME NEW s, SfeInv(s), s.rx.made, NEW z \in _sfetrx4_stream_recv(s)
    PROVE  SfeInv(z.s)
<1> DEFINE F(t) == IF t.queue = <<>> THEN Fail(t) ELSE SfeDo(SfeTake(t), << <<>> >>)
           S == IF s.rx.rcnt = 0 THEN SfeReady(s) ELSE Ok(s)
<1>1. z \in UNION {IF o.ok THEN F(o.s) ELSE {o} : o \in S}
  BY Zenon DEF _sfetrx4_stream_recv, Then
<1> HIDE DEF F, S
<1>2. PICK o \in S : z \in IF o.ok THEN F(o.s) ELSE {o}
  BY <1>1
<1>3. SfeInv(o.s) /\ SfeRxSame(s, o.s)
  <2>1. CASE o \in SfeReady(s)
    BY <2>1, SfeReadyOk
  <2>2. CASE o \in Ok(s)
    <3>1. o.s = s
      BY <2>2 DEF Ok
    <3> QED BY <3>1 DEF SfeRxSame
  <2> QED BY <2>1, <2>2 DEF S
<1>4. o.s.rx.made
  BY <1>3 DEF SfeRxSame
<1>5. CASE ~o.ok
  BY <1>2, <1>3, <1>5
<1>6. CASE o.ok /\ o.s.queue = <<>>
  <2>1. z \in Fail(o.s)
    BY <1>2, <1>6 DEF F
  <2> QED BY <1>3, <2>1 DEF Fail
<1>7. CASE o.ok /\ o.s.queue # <<>>
  <2>1. z \in SfeDo(SfeTake(o.s), << <<>> >>)
    BY <1>2, <1>7 DEF F
  <2>2. PICK y : y = SfeTake(o.s)
    OBVIOUS
  <2>3. SfeInv(y)
    BY <1>3, <1>4, <1>7, <2>2, SfeTakeOk
  <2>4. Upd(y, <<>>) = y
    BY <2>3, SfeNothing DEF SfeInv
  <2> QED BY <2>1, <2>2, <2>3, <2>4, SfeDo1
<1> QED BY <1>5, <1>6, <1>7

LEMMA SfePacketOk ==
    ASSUME SfeInv(sfe), SfePacket
    PROVE  SfeInv(sfe')
<1> DEFINE q == Append(sfe.queue, [pk |-> sfe.n, lost |-> sfe.lost])
           m == sfe.rx.rcnt + sfe.rx.drop
<1>1. sfe \in SfeState /\ sfe.queue \in Seq(SfePk) /\ sfe.rx \in SfeRxd /\ sfe.n \in Nat /\ sfe.lost \in Nat
  BY DEF SfeInv, SfeState
<1>2. sfe.rx.made
  BY DEF SfePacket, SfeInv, SfeRxHeld
<1>3. SfeFollow(m, sfe.queue, sfe.lost, sfe.n) /\ m \in Nat
  BY <1>1, <1>2 DEF SfeInv, SfeTimed, SfeRxd
<1>4. sfe' = SfePut(sfe, sfe.n + 1, 0, q) \/ sfe' = SfeLose(sfe, sfe.n + 1, sfe.lost + 1)
  BY DEF SfePacket, SfePut, SfeLose
<1>5. SfeFollow(m, q, 0, sfe.n + 1)
  BY <1>1, <1>3, SfeFollowAppend
<1>6. SfeFollow(m, sfe.queue, sfe.lost + 1, sfe.n + 1)
  <2>1. Len(sfe.queue) \in Nat /\ (Len(sfe.queue) # 0 => sfe.queue[Len(sfe.queue)] \in SfePk)
    BY <1>1
  <2> QED BY <1>1, <1>3, <2>1, SfeFollowDrop DEF SfePk
<1>7. q \in Seq(SfePk)
  <2>1. [pk |-> sfe.n, lost |-> sfe.lost] \in SfePk
    BY <1>1 DEF SfePk
  <2> QED BY <1>1, <2>1
<1> HIDE DEF q
<1>8. PICK t : t = sfe'
  OBVIOUS
<1>9. /\ t \in SfeState /\ t.fe = sfe.fe /\ t.dma = sfe.dma /\ t.fesize = sfe.fesize /\ t.dmasize = sfe.dmasize
      /\ t.llsize = sfe.llsize /\ t.rx = sfe.rx /\ t.out = sfe.out /\ SfeTxSame(sfe, t)
      /\ SfeFollow(m, t.queue, t.lost, t.n)
  <2>0. sfe.n + 1 \in Nat /\ sfe.lost + 1 \in Nat /\ 0 \in Nat
    BY <1>1
  <2>1. CASE t = SfePut(sfe, sfe.n + 1, 0, q)
    BY <1>1, <1>5, <1>7, <2>0, <2>1, SfePutIs
  <2>2. CASE t = SfeLose(sfe, sfe.n + 1, sfe.lost + 1)
    BY <1>1, <1>6, <2>0, <2>2, SfePutIs
  <2> QED BY <1>4, <1>8, <2>1, <2>2
<1>10. SfeRxHeld(t)
  BY <1>9 DEF SfeInv, SfeRxHeld
<1>11. SfeTimed(t)
  BY <1>2, <1>9 DEF SfeInv, SfeTimed
<1>12. SfeInv(t)
  BY <1>9, <1>10, <1>11, SfeParts DEF SfeInv
<1> QED BY <1>8, <1>12
-----------------------------------------------------------------------------
(* The transmit stream.                                                    *)

\* The receive side is left alone, and what the transmit side is told is held.
LEMMA SfeTxParts ==
    ASSUME NEW s, SfeInv(s), NEW t \in SfeState, SfeRxSame(s, t), SfeTxHeld(t)
    PROVE  SfeInv(t)
BY SfeParts DEF SfeInv

\* Accesses without an effect that is modelled.
LEMMA SfeChmapOk ==
    ASSUME NEW s, SfeInv(s), NEW o \in exfe_trx4_update_chmap(s)
    PROVE  SfeInv(o.s) /\ (o.ok => o.s = s)
<1>1. Upd(s, <<>>) = s
  BY SfeNothing DEF SfeInv
<1>2. Upd(Upd(s, <<>>), <<>>) = s /\ Upd(Upd(Upd(s, <<>>), <<>>), <<>>) = s /\ Upd(Upd(Upd(Upd(s, <<>>), <<>>), <<>>), <<>>) = s
  BY <1>1
<1>3. o \in SfeDo(s, << <<>>, <<>>, <<>>, <<>> >>)
  BY DEF exfe_trx4_update_chmap
<1>4. PICK e : e = <<>>
  OBVIOUS
<1>5. /\ SfeInv(Upd(s, e)) /\ SfeInv(Upd(Upd(s, e), e)) /\ SfeInv(Upd(Upd(Upd(s, e), e), e))
      /\ Upd(Upd(Upd(Upd(s, e), e), e), e) = s /\ o \in SfeDo(s, <<e, e, e, e>>)
  BY <1>1, <1>2, <1>3, <1>4
<1> QED BY <1>5, SfeDo4

LEMMA SfeMuteIs ==
    ASSUME NEW s, SfeInv(s), s.core # "sfe", NEW x \in SUBSET SfeLanes, NEW t, t = Upd(s, [txmute |-> x])
    PROVE  SfeInv(t) /\ t.tx = s.tx /\ t.core = s.core
<1>1. s \in SfeState
  BY DEF SfeInv
<1>2. t = [s EXCEPT !.txmute = x]
  BY <1>1, SfeToMute
<1>3. t \in SfeState /\ t.tx = s.tx /\ t.core = s.core /\ t.txrun = s.txrun
  BY <1>1, <1>2, ZenonT(60) DEF SfeState
<1>4. SfeRxSame(s, t)
  BY <1>1, <1>2 DEF SfeState, SfeRxSame
<1>5. SfeTxHeld(t)
  BY <1>3 DEF SfeInv, SfeTxHeld
<1> QED BY <1>3, <1>4, <1>5, SfeTxParts

\* A transmit stream that was not there before.
SfeTxNew(s, r) == [s EXCEPT !.touched = FALSE, !.tx = r]

LEMMA SfeTxMadeOk ==
    ASSUME NEW s, SfeInv(s), ~s.tx.made, NEW r \in SfeTxd, r.made,
           s.core = "sfe" /\ r.chans = 1 => r.mute = SfeUnused(r.swap)
    PROVE  SfeInv(SfeTxNew(s, r))
<1>1. s \in SfeState /\ ~s.txrun
  BY DEF SfeInv, SfeTxHeld
<1>2. PICK t : t = SfeTxNew(s, r)
  OBVIOUS
<1>3. t \in SfeState /\ t.tx = r /\ t.core = s.core /\ t.txrun = s.txrun
  BY <1>1, <1>2 DEF SfeState, SfeTxNew
<1>4. SfeRxSame(s, t)
  BY <1>1, <1>2 DEF SfeState, SfeRxSame, SfeTxNew
<1>5. SfeTxHeld(t)
  BY <1>1, <1>3 DEF SfeTxHeld
<1> QED BY <1>2, <1>3, <1>4, <1>5, SfeTxParts

\* The register is written.

LEMMA SfeTxIs ==
    ASSUME NEW s \in SfeState, NEW f \in BOOLEAN, NEW x \in SUBSET SfeLanes, NEW w \in BOOLEAN,
           NEW t, t = Upd(s, SfeAllTx(f, x, w))
    PROVE  /\ t \in SfeState /\ SfeRxSame(s, t) /\ t.txrun = f /\ t.txmute = x /\ t.txswap = w
           /\ t.tx = s.tx /\ t.core = s.core /\ t.touched = s.touched /\ t.failed = s.failed
<1>1. t = SfeWithTx(s, f, x, w)
  BY SfeToTx
<1>2. t \in SfeState
  BY <1>1, ZenonT(60) DEF SfeState, SfeWithTx
<1>3. t.txrun = f /\ t.txmute = x /\ t.txswap = w
  BY <1>1 DEF SfeState, SfeWithTx
<1>4. t.tx = s.tx /\ t.core = s.core /\ t.touched = s.touched /\ t.failed = s.failed
  BY <1>1 DEF SfeState, SfeWithTx
<1>5. SfeRxSame(s, t)
  BY <1>1 DEF SfeState, SfeWithTx, SfeRxSame
<1> QED BY <1>2, <1>3, <1>4, <1>5

LEMMA SfeTxStopOk ==
    ASSUME NEW s, SfeInv(s), NEW o \in sfe_tx4_ctl(s, FALSE)
    PROVE  SfeInv(o.s) /\ (o.ok => ~o.s.txrun)
<1>1. s \in SfeState
  BY DEF SfeInv
<1>2. PICK f \in BOOLEAN : f = FALSE
  OBVIOUS
<1>3. PICK x \in SUBSET SfeLanes : x = {}
  OBVIOUS
<1>4. PICK u : u = SfeAllTx(f, x, f)
  OBVIOUS
<1>5. PICK t : t = Upd(s, u)
  OBVIOUS
<1>6. /\ t \in SfeState /\ SfeRxSame(s, t) /\ t.txrun = f /\ t.tx = s.tx /\ t.core = s.core /\ t.touched = s.touched
  BY <1>1, <1>4, <1>5, SfeTxIs
<1>7. SfeTxHeld(t)
  BY <1>2, <1>6 DEF SfeInv, SfeTxHeld
<1>8. SfeInv(t)
  BY <1>6, <1>7, SfeTxParts
<1>9. o \in SfeDo(s, <<u>>)
  <2>1. <<u>> \o <<>> = <<u>>
    OBVIOUS
  <2>2. u = [txrun |-> FALSE, txmute |-> {}, txswap |-> FALSE]
    BY <1>2, <1>3, <1>4 DEF SfeAllTx
  <2> QED BY <2>1, <2>2 DEF sfe_tx4_ctl
<1>10. SfeInv(o.s) /\ (o.ok => o.s = t)
  BY <1>5, <1>8, <1>9, SfeDo1
<1> QED BY <1>2, <1>6, <1>10

LEMMA ConcatOneTwo ==
    ASSUME NEW u, NEW e, NEW v
    PROVE  <<u>> \o <<e, v>> = <<u, e, v>>
<1>0. PICK S : S = {u, e, v}
  OBVIOUS
<1>1. PICK b \in Seq(S) : b = <<u>>
  <2>1. <<u>> \in Seq(S)
    BY <1>0
  <2> QED BY <2>1
<1>2. PICK c \in Seq(S) : c = <<e, v>>
  <2>1. <<e, v>> \in Seq(S)
    BY <1>0
  <2> QED BY <2>1
<1>3. PICK d \in Seq(S) : d = b \o c
  BY ConcatProperties
<1>4. Len(b) = 1 /\ Len(c) = 2 /\ b[1] = u /\ c[1] = e /\ c[2] = v
  BY <1>1, <1>2
<1>5. Len(d) = 3 /\ d[1] = b[1] /\ d[2] = c[1] /\ d[3] = c[2]
  <2>1. Len(d) = Len(b) + Len(c) /\ \A j \in 1..Len(b) + Len(c) : d[j] = IF j <= Len(b) THEN b[j] ELSE c[j - Len(b)]
    BY <1>3, ConcatProperties
  <2> QED BY <1>4, <2>1
<1>6. PICK g \in Seq(S) : g = <<u, e, v>>
  <2>1. <<u, e, v>> \in Seq(S)
    BY <1>0
  <2> QED BY <2>1
<1>7. Len(g) = 3 /\ g[1] = u /\ g[2] = e /\ g[3] = v
  BY <1>6
<1>8. d = g
  <2>1. \A j \in 1..3 : j = 1 \/ j = 2 \/ j = 3
    OBVIOUS
  <2> QED BY <1>4, <1>5, <1>7, <2>1
<1> QED BY <1>1, <1>2, <1>3, <1>6, <1>8

LEMMA SfeTxStartOk ==
    ASSUME NEW s, SfeInv(s), s.tx.made, NEW o \in sfe_tx4_ctl(s, TRUE)
    PROVE  SfeInv(o.s)
<1>1. s \in SfeState /\ s.tx \in SfeTxd
  BY DEF SfeInv, SfeState
<1>2. PICK f \in BOOLEAN : f = FALSE
  OBVIOUS
<1>3. PICK x \in SUBSET SfeLanes : x = {}
  OBVIOUS
<1>4. PICK u : u = SfeAllTx(f, x, f)
  OBVIOUS
<1>5. PICK t : t = Upd(s, u)
  OBVIOUS
<1>6. /\ t \in SfeState /\ SfeRxSame(s, t) /\ t.txrun = f /\ t.tx = s.tx /\ t.core = s.core /\ t.touched = s.touched
  BY <1>1, <1>4, <1>5, SfeTxIs
<1>7. SfeTxHeld(t)
  BY <1>2, <1>6 DEF SfeInv, SfeTxHeld
<1>8. SfeInv(t)
  BY <1>6, <1>7, SfeTxParts
<1>9. PICK g \in BOOLEAN : g = TRUE
  OBVIOUS
<1>10. PICK y \in SUBSET SfeLanes : y = s.tx.mute
  BY <1>1 DEF SfeTxd
<1>11. PICK w \in BOOLEAN : w = s.tx.swap
  BY <1>1 DEF SfeTxd
<1>12. PICK v : v = SfeAllTx(g, y, w)
  OBVIOUS
<1>13. PICK z : z = Upd(t, v)
  OBVIOUS
<1>14. /\ z \in SfeState /\ SfeRxSame(t, z) /\ z.txmute = y /\ z.txswap = w
       /\ z.tx = s.tx /\ z.core = s.core /\ z.touched = s.touched
  BY <1>6, <1>12, <1>13, SfeTxIs
<1>15. SfeTxHeld(z)
  BY <1>10, <1>11, <1>14 DEF SfeInv, SfeTxHeld
<1>16. SfeInv(z)
  BY <1>8, <1>14, <1>15, SfeTxParts
<1>17. PICK e : e = <<>>
  OBVIOUS
<1>18. o \in SfeDo(s, <<u, e, v>>)
  <2>1. <<u>> \o <<e, v>> = <<u, e, v>>
    BY ConcatOneTwo
  <2>2. u = [txrun |-> FALSE, txmute |-> {}, txswap |-> FALSE]
    BY <1>2, <1>3, <1>4 DEF SfeAllTx
  <2>3. v = [txrun |-> TRUE, txmute |-> s.tx.mute, txswap |-> s.tx.swap]
    BY <1>9, <1>10, <1>11, <1>12 DEF SfeAllTx
  <2> QED BY <1>17, <2>1, <2>2, <2>3 DEF sfe_tx4_ctl
<1>19. Upd(t, e) = t
  BY <1>6, <1>17, SfeNothing
<1> QED BY <1>5, <1>8, <1>13, <1>16, <1>18, <1>19, SfeDo3

\* A stopped transmit stream may go.
LEMMA SfeGoneTx ==
    ASSUME NEW s, SfeInv(s), ~s.txrun
    PROVE  SfeInv([s EXCEPT !.tx = SfeNoTx])
<1> DEFINE t == [s EXCEPT !.tx = SfeNoTx]
<1>1. s \in SfeState /\ SfeNoTx \in SfeTxd /\ ~SfeNoTx.made
  BY DEF SfeInv, SfeNoTx, SfeTxd
<1>2. t \in SfeState /\ t.tx = SfeNoTx /\ t.txrun = s.txrun
  BY <1>1 DEF SfeState
<1>3. SfeRxSame(s, t)
  BY <1>1 DEF SfeState, SfeRxSame
<1> HIDE DEF t
<1>4. SfeTxHeld(t)
  BY <1>1, <1>2 DEF SfeTxHeld
<1>5. SfeInv(t)
  BY <1>2, <1>3, <1>4, SfeTxParts
<1> QED BY <1>5 DEF t

LEMMA SfeDestroyTxOk ==
    ASSUME NEW s, SfeInv(s), NEW z \in _sfetrx4_destroy(s, "tx")
    PROVE  SfeInv(z.s)
<1>1. PICK o \in sfe_tx4_ctl(s, FALSE) : SfeGone(o, z, "tx")
  <2>1. SfeStopped(s, "tx") = sfe_tx4_ctl(s, FALSE)
    BY DEF SfeStopped
  <2> QED BY <2>1, SfeDestroyOf
<1>2. SfeInv(o.s) /\ (o.ok => ~o.s.txrun)
  BY SfeTxStopOk
<1>3. CASE ~o.ok
  BY <1>1, <1>2, <1>3 DEF SfeGone
<1>4. CASE o.ok
  <2>1. PICK q \in SfeDo(o.s, <<[ll |-> o.s.ll \ {"tx"}]>>) : z.s = [q.s EXCEPT !.tx = SfeNoTx]
    <3>1. \A x : SfeWithout(x, "tx") = [x EXCEPT !.tx = SfeNoTx]
      BY DEF SfeWithout
    <3> QED BY <1>1, <1>4, <3>1 DEF SfeGone
  <2>2. PICK x \in SUBSET {"rx", "tx"} : x = o.s.ll \ {"tx"}
    BY <1>2 DEF SfeInv, SfeState
  <2>3. PICK u : u = [ll |-> x]
    OBVIOUS
  <2>4. PICK t : t = Upd(o.s, u)
    OBVIOUS
  <2>5. t = [o.s EXCEPT !.ll = x]
    BY <1>2, <2>3, <2>4, SfeToLl DEF SfeInv
  <2>6. t \in SfeState /\ SfeRxSame(o.s, t) /\ SfeTxSame(o.s, t)
    BY <1>2, <2>5 DEF SfeInv, SfeState, SfeRxSame, SfeTxSame
  <2>7. SfeInv(t) /\ ~t.txrun /\ ~o.s.txrun
    BY <1>2, <1>4, <2>6, SfeParts DEF SfeTxSame
  <2>8. SfeInv(q.s) /\ \E y \in {o.s, t} : q.s = y \/ (q.s = SfeMiss(y) /\ y.faults # 0)
    BY <1>2, <2>1, <2>2, <2>3, <2>4, <2>7, SfeDo1
  <2>9. ~q.s.txrun
    BY <1>2, <2>7, <2>8, SfeMissOk
  <2> QED BY <2>1, <2>8, <2>9, SfeGoneTx
<1> QED BY <1>3, <1>4

LEMMA SfeCreateTxOk ==
    ASSUME NEW s, SfeInv(s), ~s.tx.made, NEW chans \in 1..2, NEW swap \in BOOLEAN,
           NEW z \in initialize_stream_tx_32(s, chans, swap)
    PROVE  SfeInv(z.s)
<1> DEFINE r == [made |-> TRUE, chans |-> chans, swap |-> s.core = "sfe" /\ swap,
                 mute |-> IF s.core = "sfe" /\ chans = 1 THEN SfeUnused(swap) ELSE {}]
           E3(u) == UNION {IF o.ok THEN Ok(SfeTxNew(o.s, r)) ELSE {o} : o \in SfeLlInit(u, [ll |-> u.ll \cup {"tx"}])}
           E2(t) == UNION {IF o.ok THEN E3(o.s) ELSE {o} : o \in sfetrx4_stream_sync(t, "off", {})}
           E1 == UNION {IF o.ok THEN exfe_trx4_update_chmap(o.s) ELSE {o} : o \in SfeDo(s, <<[txmute |-> {}], <<>>, <<>> >>)}
           S == IF s.core = "sfe" THEN Ok(s) ELSE E1
<1>z. z \in UNION {IF o.ok THEN E2(o.s) ELSE {o} : o \in S}
  BY Zenon DEF initialize_stream_tx_32, Then, SfeTxNew
<1>1. r \in SfeTxd /\ r.made /\ (s.core = "sfe" /\ r.chans = 1 => r.mute = SfeUnused(r.swap))
  <2>1. PICK e \in BOOLEAN : e = (s.core = "sfe" /\ swap)
    OBVIOUS
  <2>2. PICK m \in SUBSET SfeLanes : m = IF s.core = "sfe" /\ chans = 1 THEN SfeUnused(swap) ELSE {}
    BY DEF SfeUnused, SfeLanes
  <2>3. r = [made |-> TRUE, chans |-> chans, swap |-> e, mute |-> m]
    BY <2>1, <2>2
  <2>4. chans \in 0..2
    OBVIOUS
  <2>5. r \in SfeTxd /\ r.made /\ r.chans = chans /\ r.swap = e /\ r.mute = m
    BY <2>3, <2>4 DEF SfeTxd
  <2>6. s.core = "sfe" => e = swap
    BY <2>1
  <2> QED BY <2>2, <2>5, <2>6
<1> HIDE DEF r
<1>2. ASSUME NEW u, SfeInv(u), ~u.tx.made, u.core = s.core, NEW y \in E3(u) PROVE SfeInv(y.s)
  <2>1. PICK o \in SfeLlInit(u, [ll |-> u.ll \cup {"tx"}]) : y \in IF o.ok THEN Ok(SfeTxNew(o.s, r)) ELSE {o}
    BY <1>2
  <2>2. PICK x \in SUBSET {"rx", "tx"} : x = u.ll \cup {"tx"}
    BY <1>2 DEF SfeInv, SfeState
  <2>3. SfeInv(o.s) /\ (o.ok => SfeTxSame(u, o.s))
    BY <1>2, <2>1, <2>2, SfeLlOk DEF SfeLlInit
  <2>4. CASE o.ok
    <3>1. ~o.s.tx.made /\ o.s.core = s.core
      BY <1>2, <2>3, <2>4 DEF SfeTxSame
    <3>2. SfeInv(SfeTxNew(o.s, r))
      BY <1>1, <2>3, <3>1, SfeTxMadeOk
    <3> QED BY <2>1, <2>4, <3>2 DEF Ok
  <2> QED BY <2>1, <2>3, <2>4
<1> HIDE DEF E3
<1>3. ASSUME NEW t, SfeInv(t), ~t.tx.made, t.core = s.core, NEW y \in E2(t) PROVE SfeInv(y.s)
  <2>1. PICK o \in sfetrx4_stream_sync(t, "off", {}) : y \in IF o.ok THEN E3(o.s) ELSE {o}
    BY <1>3
  <2>2. PICK x \in SfeClocks : x = SfeSyncCmd(t, "off", {})
    BY DEF SfeSyncCmd, SfeClocks
  <2>3. SfeInv(o.s) /\ (o.ok => SfeTxSame(t, o.s))
    BY <1>3, <2>1, <2>2, SfeSyncOk DEF sfetrx4_stream_sync
  <2>4. CASE o.ok
    <3>1. ~o.s.tx.made /\ o.s.core = s.core
      BY <1>3, <2>3, <2>4 DEF SfeTxSame
    <3> QED BY <1>2, <2>1, <2>3, <2>4, <3>1
  <2> QED BY <2>1, <2>3, <2>4
<1> HIDE DEF E2
<1>4. ASSUME s.core # "sfe", NEW y \in E1 PROVE SfeInv(y.s) /\ (y.ok => ~y.s.tx.made /\ y.s.core = s.core)
  <2>1. PICK o \in SfeDo(s, <<[txmute |-> {}], <<>>, <<>> >>) : y \in IF o.ok THEN exfe_trx4_update_chmap(o.s) ELSE {o}
    BY <1>4
  <2>2. PICK x \in SUBSET SfeLanes : x = {}
    OBVIOUS
  <2>3. PICK u : u = [txmute |-> x]
    OBVIOUS
  <2>4. PICK t : t = Upd(s, u)
    OBVIOUS
  <2>5. SfeInv(t) /\ t.tx = s.tx /\ t.core = s.core
    BY <1>4, <2>3, <2>4, SfeMuteIs
  <2>6. PICK e : e = <<>>
    OBVIOUS
  <2>7. Upd(t, e) = t /\ o \in SfeDo(s, <<u, e, e>>)
    BY <2>1, <2>2, <2>3, <2>5, <2>6, SfeNothing DEF SfeInv
  <2>8. SfeInv(o.s) /\ (o.ok => o.s = t)
    BY <2>4, <2>5, <2>7, SfeDo3
  <2>9. CASE o.ok
    <3>1. y \in exfe_trx4_update_chmap(t)
      BY <2>1, <2>8, <2>9
    <3>2. SfeInv(y.s) /\ (y.ok => y.s = t)
      BY <2>5, <3>1, SfeChmapOk
    <3> QED BY <2>5, <3>2
  <2> QED BY <2>1, <2>8, <2>9
<1> HIDE DEF E1
<1>5. PICK o \in S : z \in IF o.ok THEN E2(o.s) ELSE {o}
  BY <1>z
<1>6. SfeInv(o.s) /\ (o.ok => ~o.s.tx.made /\ o.s.core = s.core)
  <2>1. CASE s.core = "sfe"
    <3>1. o.s = s
      BY <1>5, <2>1 DEF Ok
    <3> QED BY <3>1
  <2>2. CASE s.core # "sfe"
    BY <1>4, <1>5, <2>2
  <2> QED BY <2>1, <2>2
<1> QED BY <1>3, <1>5, <1>6

\* The flags of a stream and then the register are changed; a write that
\* fails leaves the register behind.
SfeFlags(s, touched, tx) == [s EXCEPT !.touched = touched, !.tx = tx]

LEMMA SfeFlagsIs ==
    ASSUME NEW s \in SfeState, NEW g \in BOOLEAN, NEW x \in SfeTxd, NEW t, t = SfeFlags(s, g, x)
    PROVE  /\ t \in SfeState /\ SfeRxSame(s, t) /\ t.touched = g /\ t.tx = x /\ t.core = s.core /\ t.failed = s.failed
           /\ t.txrun = s.txrun /\ t.txmute = s.txmute /\ t.txswap = s.txswap
<1>1. /\ t \in SfeState /\ t.touched = g /\ t.tx = x /\ t.core = s.core /\ t.failed = s.failed
      /\ t.txrun = s.txrun /\ t.txmute = s.txmute /\ t.txswap = s.txswap
  BY DEF SfeFlags, SfeState
<1>2. SfeRxSame(s, t)
  BY DEF SfeFlags, SfeState, SfeRxSame
<1> QED BY <1>1, <1>2

LEMMA SfeUpdOk ==
    ASSUME NEW s, SfeInv(s), s.tx.made, NEW g \in BOOLEAN, s.touched => g, NEW x \in SfeTxd, x.made, x.chans = s.tx.chans,
           ~g /\ s.core = "sfe" /\ x.chans = 1 => x.mute = SfeUnused(x.swap),
           NEW o \in sfe_tx4_upd(SfeFlags(s, g, x))
    PROVE  SfeInv(o.s)
<1>1. s \in SfeState
  BY DEF SfeInv
<1>2. PICK t : t = SfeFlags(s, g, x)
  OBVIOUS
<1>3. /\ t \in SfeState /\ SfeRxSame(s, t) /\ t.touched = g /\ t.tx = x /\ t.core = s.core /\ t.failed = s.failed
      /\ t.txrun = s.txrun /\ t.txmute = s.txmute /\ t.txswap = s.txswap
  BY <1>1, <1>2, SfeFlagsIs
<1>4. x.mute \in SUBSET SfeLanes /\ x.swap \in BOOLEAN
  BY DEF SfeTxd
<1>5. PICK u : u = SfeAllMap(x.mute, x.swap)
  OBVIOUS
<1>6. o \in SfeDo(t, <<u>>)
  BY <1>2, <1>3, <1>5 DEF sfe_tx4_upd, SfeAllMap
<1>7. PICK v : v = Upd(t, u)
  OBVIOUS
<1>8. v = SfeWithMap(t, x.mute, x.swap)
  BY <1>3, <1>5, <1>7, SfeToMap
<1>9. /\ v \in SfeState /\ v.touched = t.touched /\ v.tx = t.tx /\ v.core = t.core /\ v.failed = t.failed
      /\ v.txrun = t.txrun /\ v.txmute = x.mute /\ v.txswap = x.swap
  BY <1>3, <1>4, <1>8 DEF SfeState, SfeWithMap
<1>10. SfeRxSame(t, v)
  BY <1>3, <1>8 DEF SfeState, SfeWithMap, SfeRxSame
<1>11. SfeRxSame(s, v)
  BY <1>3, <1>10 DEF SfeRxSame
<1>12. SfeTxHeld(v)
  BY <1>3, <1>9 DEF SfeTxHeld
<1>13. SfeInv(v)
  BY <1>9, <1>11, <1>12, SfeTxParts
<1>14. o.s = v \/ (o.s = SfeMiss(t) /\ t.faults # 0)
  BY <1>3, <1>6, <1>7, <1>9, SfeTried
<1>15. ASSUME t.faults # 0 PROVE SfeInv(SfeMiss(t))
  <2>1. PICK m : m = SfeMiss(t)
    OBVIOUS
  <2>2. t.faults - 1 \in Nat
    BY <1>3, <1>15 DEF SfeState
  <2>3. /\ m \in SfeState /\ m.failed = TRUE /\ m.touched = t.touched /\ m.tx = t.tx /\ m.core = t.core
        /\ m.txrun = t.txrun /\ m.txmute = t.txmute /\ m.txswap = t.txswap
    BY <1>3, <2>1, <2>2 DEF SfeState, SfeMiss
  <2>4. SfeRxSame(t, m)
    BY <1>3, <2>1 DEF SfeState, SfeMiss, SfeRxSame
  <2>5. SfeRxSame(s, m)
    BY <1>3, <2>4 DEF SfeRxSame
  <2>6. SfeTxHeld(m)
    BY <1>3, <2>3 DEF SfeInv, SfeTxHeld
  <2>7. SfeInv(m)
    BY <2>3, <2>5, <2>6, SfeTxParts
  <2> QED BY <2>1, <2>7
<1> QED BY <1>13, <1>14, <1>15

SfeMap(x, swap, mute) == [x EXCEPT !.swap = swap, !.mute = mute]

LEMMA SfeMapOk ==
    ASSUME NEW s, SfeInv(s), s.tx.made, NEW swap \in BOOLEAN, NEW o \in SfeChmap(s, swap)
    PROVE  SfeInv(o.s)
<1>1. s \in SfeState /\ s.tx \in SfeTxd /\ s.touched \in BOOLEAN
  BY DEF SfeInv, SfeState
<1>2. CASE s.core = "exfe"
  BY <1>2, SfeChmapOk DEF SfeChmap
<1>3. CASE s.core # "exfe"
  <2>1. PICK m \in SUBSET SfeLanes : m = IF s.tx.chans = 1 /\ s.tx.mute # {} THEN SfeUnused(swap) ELSE s.tx.mute
    BY <1>1 DEF SfeUnused, SfeLanes, SfeTxd
  <2>2. PICK x : x = SfeMap(s.tx, swap, m)
    OBVIOUS
  <2>3. x \in SfeTxd /\ x.made = s.tx.made /\ x.chans = s.tx.chans /\ x.swap = swap /\ x.mute = m
    BY <1>1, <2>1, <2>2 DEF SfeTxd, SfeMap
  <2>4. o \in sfe_tx4_upd(SfeFlags(s, s.touched, x))
    <3>1. o \in sfe_tx4_upd([s EXCEPT !.tx.swap = swap, !.tx.mute = m])
      BY <1>3, <2>1 DEF SfeChmap
    <3>2. [s EXCEPT !.tx.swap = swap, !.tx.mute = m] = [s EXCEPT !.tx = SfeMap(s.tx, swap, m)]
      BY <1>1 DEF SfeState, SfeMap
    <3>3. SfeFlags(s, s.touched, x) = [s EXCEPT !.tx = x]
      BY <1>1 DEF SfeState, SfeFlags
    <3> QED BY <2>2, <3>1, <3>2, <3>3
  <2>5. ~s.touched /\ s.core = "sfe" /\ x.chans = 1 => x.mute = SfeUnused(x.swap)
    <3>1. SUFFICES ASSUME ~s.touched, s.core = "sfe", s.tx.chans = 1 PROVE m = SfeUnused(swap)
      BY <2>3
    <3>2. s.tx.mute = SfeUnused(s.tx.swap)
      BY <3>1 DEF SfeInv, SfeTxHeld
    <3>3. s.tx.mute # {}
      BY <3>2 DEF SfeUnused
    <3> QED BY <2>1, <3>1, <3>3
  <2>6. PICK g \in BOOLEAN : g = s.touched
    BY <1>1
  <2> QED BY <2>3, <2>4, <2>5, <2>6, SfeUpdOk
<1> QED BY <1>2, <1>3

LEMMA SfeMuteOk ==
    ASSUME NEW s, SfeInv(s), s.tx.made, NEW lanes \in SUBSET SfeLanes, NEW o \in SfeMute(s, lanes)
    PROVE  SfeInv(o.s)
<1>1. s \in SfeState /\ s.tx \in SfeTxd
  BY DEF SfeInv, SfeState
<1>2. PICK g \in BOOLEAN : g = TRUE
  OBVIOUS
<1>3. CASE s.core = "exfe"
  <2>1. PICK t : t = SfeFlags(s, g, s.tx)
    OBVIOUS
  <2>2. /\ t \in SfeState /\ SfeRxSame(s, t) /\ t.touched = g /\ t.tx = s.tx /\ t.core = s.core /\ t.failed = s.failed
        /\ t.txrun = s.txrun /\ t.txmute = s.txmute /\ t.txswap = s.txswap
    BY <1>1, <2>1, SfeFlagsIs
  <2>3. SfeTxHeld(t)
    BY <1>3, <2>2 DEF SfeInv, SfeTxHeld
  <2>4. SfeInv(t)
    BY <2>2, <2>3, SfeTxParts
  <2>5. o \in SfeDo(t, <<[txmute |-> lanes]>>)
    <3>1. [s EXCEPT !.touched = TRUE] = t
      BY <1>1, <1>2, <2>1 DEF SfeState, SfeFlags
    <3> QED BY <1>3, <3>1 DEF SfeMute
  <2>6. SfeInv(Upd(t, [txmute |-> lanes]))
    BY <1>3, <2>2, <2>4, SfeMuteIs
  <2> QED BY <2>4, <2>5, <2>6, SfeDo1
<1>4. CASE s.core # "exfe"
  <2>1. PICK x : x = [s.tx EXCEPT !.mute = lanes]
    OBVIOUS
  <2>2. x \in SfeTxd /\ x.made = s.tx.made /\ x.chans = s.tx.chans
    BY <1>1, <2>1 DEF SfeTxd
  <2>3. o \in sfe_tx4_upd(SfeFlags(s, g, x))
    <3>1. o \in sfe_tx4_upd([[s EXCEPT !.touched = TRUE] EXCEPT !.tx.mute = lanes])
      BY <1>4 DEF SfeMute
    <3>2. [[s EXCEPT !.touched = TRUE] EXCEPT !.tx.mute = lanes] = SfeFlags(s, g, x)
      BY <1>1, <1>2, <2>1 DEF SfeState, SfeFlags
    <3> QED BY <3>1, <3>2
  <2> QED BY <1>2, <2>2, <2>3, SfeUpdOk
<1> QED BY <1>3, <1>4
-----------------------------------------------------------------------------
(* The calls.                                                              *)
SfeCounted(s) == [s EXCEPT !.calls = s.calls - 1]

LEMMA SfeCalled ==
    ASSUME NEW s, SfeInv(s)
    PROVE  SfeInv(SfeCounted(s))
<1>1. s \in SfeState /\ s.calls - 1 \in Int
  BY DEF SfeInv, SfeState
<1>2. PICK t : t = SfeCounted(s)
  OBVIOUS
<1>3. t \in SfeState
  BY <1>1, <1>2 DEF SfeState, SfeCounted
<1>4. SfeRxSame(s, t) /\ SfeTxSame(s, t)
  BY <1>1, <1>2 DEF SfeState, SfeCounted, SfeRxSame, SfeTxSame
<1> QED BY <1>2, <1>3, <1>4, SfeParts

LEMMA SfeCallOk ==
    ASSUME NEW S, \A o \in S : SfeInv(o.s), SfeCall(S)
    PROVE  SfeInv(sfe')
<1>1. PICK o \in S : sfe' = SfeCounted(o.s)
  BY DEF SfeCall, SfeCounted
<1> QED BY <1>1, SfeCalled

LEMMA SfeInvStart == SfeInit => SfeInv(sfe)
<1>1. SUFFICES ASSUME SfeInit PROVE SfeInv(sfe)
  OBVIOUS
<1>2. PICK c \in SfeCores : sfe = SfeFresh(c)
  BY <1>1 DEF SfeInit
<1>3. SfeNoRx \in SfeRxd /\ SfeNoTx \in SfeTxd /\ SfeNoRx.made = FALSE /\ SfeNoTx.made = FALSE
  BY DEF SfeNoRx, SfeNoTx, SfeRxd, SfeTxd
<1>4. PICK q \in Seq(SfePk) : q = <<>>
  <2>1. <<>> \in Seq(SfePk)
    OBVIOUS
  <2> QED BY <2>1
<1>5. "idle" \in SfeCommands /\ "idle" # "start" /\ "stop" \in SfeClocks
  BY DEF SfeCommands, SfeClocks
<1>6. sfe \in SfeState
  BY <1>2, <1>3, <1>4, <1>5, SfeAssumption DEF SfeState, SfeFresh
<1>7. sfe.fe = "idle" /\ ~sfe.dma /\ ~sfe.txrun /\ sfe.rx = SfeNoRx /\ sfe.tx = SfeNoTx
  BY <1>2 DEF SfeFresh
<1> QED BY <1>3, <1>5, <1>6, <1>7 DEF SfeInv, SfeRxHeld, SfeTimed, SfeTxHeld

LEMMA SfeInvStep == SfeInv(sfe) /\ [SfeNext]_sfe => SfeInv(sfe')
<1>1. SUFFICES ASSUME SfeInv(sfe), SfeNext PROVE SfeInv(sfe')
  OBVIOUS
<1>2. CASE SfePacket
  BY <1>1, <1>2, SfePacketOk
<1>3. CASE SfeCreateRx
  <2>1. PICK n \in SfeSizes : SfeCall(initialize_stream_rx_32(sfe, n))
    BY <1>3 DEF SfeCreateRx
  <2>2. \A o \in initialize_stream_rx_32(sfe, n) : SfeInv(o.s)
    BY <1>1, <1>3, SfeCreateRxOk DEF SfeCreateRx
  <2> QED BY <2>1, <2>2, SfeCallOk
<1>4. CASE SfeCreateTx
  <2>1. PICK c \in 1..2, w \in BOOLEAN : SfeCall(initialize_stream_tx_32(sfe, c, w))
    BY <1>4 DEF SfeCreateTx
  <2>2. \A o \in initialize_stream_tx_32(sfe, c, w) : SfeInv(o.s)
    BY <1>1, <1>4, SfeCreateTxOk DEF SfeCreateTx
  <2> QED BY <2>1, <2>2, SfeCallOk
<1>5. \A d \in SfeMadeDirs : (d = "rx" /\ sfe.rx.made) \/ (d = "tx" /\ sfe.tx.made)
  BY DEF SfeMadeDirs
<1>6. CASE SfeOp
  <2>1. PICK d \in SfeMadeDirs, b \in BOOLEAN : SfeCall(_sfetrx4_op(sfe, d, b))
    BY <1>6 DEF SfeOp
  <2>2. CASE d = "rx" /\ sfe.rx.made
    <3>1. \A o \in _sfetrx4_op(sfe, "rx", b) : SfeInv(o.s)
      BY <1>1, <2>2, SfeOpRxOk
    <3> QED BY <2>1, <2>2, <3>1, SfeCallOk
  <2>3. CASE d = "tx" /\ sfe.tx.made
    <3>1. _sfetrx4_op(sfe, "tx", b) = sfe_tx4_ctl(sfe, b)
      BY DEF _sfetrx4_op
    <3>2. \A o \in sfe_tx4_ctl(sfe, FALSE) : SfeInv(o.s)
      BY <1>1, SfeTxStopOk
    <3>3. \A o \in sfe_tx4_ctl(sfe, TRUE) : SfeInv(o.s)
      BY <1>1, <2>3, SfeTxStartOk
    <3>4. \A o \in _sfetrx4_op(sfe, "tx", b) : SfeInv(o.s)
      <4>1. CASE b = TRUE
        BY <3>1, <3>3, <4>1
      <4>2. CASE b = FALSE
        BY <3>1, <3>2, <4>2
      <4> QED BY <4>1, <4>2
    <3> QED BY <2>1, <2>3, <3>4, SfeCallOk
  <2> QED BY <1>5, <2>1, <2>2, <2>3
<1>7. CASE SfeDestroy
  <2>1. PICK d \in SfeMadeDirs : SfeCall(_sfetrx4_destroy(sfe, d))
    BY <1>7 DEF SfeDestroy
  <2>2. CASE d = "rx" /\ sfe.rx.made
    <3>1. \A o \in _sfetrx4_destroy(sfe, "rx") : SfeInv(o.s)
      BY <1>1, <2>2, SfeDestroyRxOk
    <3> QED BY <2>1, <2>2, <3>1, SfeCallOk
  <2>3. CASE d = "tx" /\ sfe.tx.made
    <3>1. \A o \in _sfetrx4_destroy(sfe, "tx") : SfeInv(o.s)
      BY <1>1, SfeDestroyTxOk
    <3> QED BY <2>1, <2>3, <3>1, SfeCallOk
  <2> QED BY <1>5, <2>1, <2>2, <2>3
<1>8. CASE SfeSync
  <2>1. PICK t \in {"off", "none", "1pps", "rx", "all"} : SfeCall(sfetrx4_stream_sync(sfe, t, SfeMadeDirs))
    BY <1>8 DEF SfeSync
  <2>2. PICK x \in SfeClocks : x = SfeSyncCmd(sfe, t, SfeMadeDirs)
    <3>1. CASE t = "all"
      <4>1. SfeMadeDirs \in {{"rx", "tx"}, {"rx"}, {"tx"}, {}}
        BY DEF SfeMadeDirs
      <4>2. "rx" # "tx" /\ {"rx", "tx"} # {"rx"} /\ {"rx", "tx"} # {"tx"} /\ {"rx"} # {"tx"}
        OBVIOUS
      <4>3. PICK D : D = SfeMadeDirs
        OBVIOUS
      <4>4. CASE D = {"rx", "tx"}
        BY <3>1, <4>2, <4>3, <4>4 DEF SfeSyncCmd, SfeClocks
      <4>5. CASE D = {"rx"}
        BY <3>1, <4>2, <4>3, <4>5 DEF SfeSyncCmd, SfeClocks
      <4>6. CASE D = {"tx"}
        BY <3>1, <4>2, <4>3, <4>6 DEF SfeSyncCmd, SfeClocks
      <4>7. CASE D = {}
        BY <3>1, <4>2, <4>3, <4>7 DEF SfeSyncCmd, SfeClocks
      <4> QED BY <4>1, <4>3, <4>4, <4>5, <4>6, <4>7
    <3>2. CASE t # "all"
      BY <2>1, <3>2 DEF SfeSyncCmd, SfeClocks
    <3> QED BY <3>1, <3>2
  <2>3. \A o \in sfetrx4_stream_sync(sfe, t, SfeMadeDirs) : SfeInv(o.s)
    BY <1>1, <2>2, SfeSyncOk DEF sfetrx4_stream_sync
  <2> QED BY <2>1, <2>3, SfeCallOk
<1>9. CASE SfeRecv
  <2>1. \A o \in _sfetrx4_stream_recv(sfe) : SfeInv(o.s)
    BY <1>1, <1>9, SfeRecvOk DEF SfeRecv
  <2> QED BY <1>9, <2>1, SfeCallOk DEF SfeRecv
<1>10. CASE SfeRxOption
  <2>1. \A o \in SfeReady(sfe) \cup SfeThrottle(sfe) : SfeInv(o.s)
    BY <1>1, SfeReadyOk
  <2> QED BY <1>10, <2>1, SfeCallOk DEF SfeRxOption
<1>11. CASE SfeTxOption
  <2>1. \A w \in BOOLEAN : \A o \in SfeChmap(sfe, w) : SfeInv(o.s)
    BY <1>1, <1>11, SfeMapOk DEF SfeTxOption
  <2>2. \A l \in SUBSET {"a", "b"} : \A o \in SfeMute(sfe, l) : SfeInv(o.s)
    BY <1>1, <1>11, SfeMuteOk DEF SfeTxOption, SfeLanes
  <2> QED BY <1>11, <2>1, <2>2, SfeCallOk DEF SfeTxOption
<1> QED BY <1>1, <1>2, <1>3, <1>4, <1>6, <1>7, <1>8, <1>9, <1>10, <1>11 DEF SfeNext

LEMMA SfeInvEnough == SfeInv(sfe) => SfeConsistent
<1>1. SUFFICES ASSUME SfeInv(sfe) PROVE SfeConsistent
  OBVIOUS
<1>2. SfeOwned
  BY <1>1 DEF SfeInv, SfeRxHeld, SfeOwned
<1>3. SfeTxLanes
  BY <1>1 DEF SfeInv, SfeTxHeld, SfeTxLanes
<1>4. SfeTimes
  <2>1. CASE sfe.rx.made
    BY <1>1, <2>1 DEF SfeInv, SfeTimed, SfeTimes
  <2>2. CASE ~sfe.rx.made
    BY <1>1, <2>2 DEF SfeInv, SfeRxHeld, SfeNoRx, SfeTimes
  <2> QED BY <2>1, <2>2
<1> QED BY <1>2, <1>3, <1>4 DEF SfeConsistent

\* Stream objects and cores agree, whatever access fails: a front end or DMA
\* that runs has a stream that told everyone its size, a single channel
\* transmits on its own lane, and a packet has its time.
THEOREM SfeAlwaysConsistent == SfeSpec => []SfeConsistent
<1>1. SfeInit => SfeInv(sfe)
  BY SfeInvStart
<1>2. SfeInv(sfe) /\ [SfeNext]_sfe => SfeInv(sfe)'
  BY SfeInvStep
<1>3. SfeInv(sfe) => SfeConsistent
  BY SfeInvEnough
<1> QED BY <1>1, <1>2, <1>3, PTL DEF SfeSpec
=============================================================================
