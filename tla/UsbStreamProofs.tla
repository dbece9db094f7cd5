-------------------------- MODULE UsbStreamProofs --------------------------
(***************************************************************************)
(* Proofs about UsbTxStream and UsbRxStream, for every number of buffers,  *)
(* transfers, packets and failures.                                        *)
(*                                                                         *)
(* The driver does not know which index a transfer was posted under: it    *)
(* keeps slots only.  Both invariants say that such indices exist, that    *)
(* they grow from the oldest transfer to the newest, and that all of them  *)
(* lie in a window of no more indices than there are buffers, which the    *)
(* credits pay for.  A step that fails never returns its credit, so this   *)
(* survives every failure.                                                 *)
(***************************************************************************)
EXTENDS UsbRxStream, UsbTxStream, SharedLemmas, FiniteSetTheorems, TLAPS

(***************************************************************************)
(* The transmit stream                                                     *)
(***************************************************************************)

\* Buffers in the sender's hands.
Filling == IF tx_held = -1 THEN 0 ELSE 1

\* A credit that is out is at the device, with the IO thread, in the sender's
\* hands, or was lost by a get or a commit that failed.
TxCredits ==
    /\ tx_prod = tried
    /\ tx_cons + Filling <= tx_prod
    /\ tx_ready + Len(tx_done) + Len(tx_posted) + (tx_prod - tx_cons) <= TxBufMax
    /\ tx_held # -1 => tx_held = (tx_prod - 1) % TxBufMax
    /\ committed <= tx_cons

\* idx gives every transfer an index it was committed under.
Indices(idx) ==
    /\ \A k \in DOMAIN tx_posted :
          /\ tx_posted[k] = idx[k] % TxBufMax
          /\ idx[k] < tx_cons
          /\ tx_ready + Len(tx_done) + (tx_prod - idx[k]) <= TxBufMax
    /\ \A j, k \in DOMAIN tx_posted : j < k => idx[j] < idx[k]

TxWindow == \E idx \in [DOMAIN tx_posted -> 0..TxPackets] : Indices(idx)

\* Until something fails, get and commit are in step and the transfers carry
\* the packets that follow the one sent last.
TxClean ==
    tx_faults = 0 =>
        /\ ~rejected
        /\ tx_prod = tx_cons + Filling
        /\ committed = aired + Len(tx_posted)
        /\ \A k \in DOMAIN tx_posted : tx_slot[tx_posted[k]] = aired + k

TxInv == TxTypeOK /\ TxCredits /\ TxWindow /\ TxClean

-----------------------------------------------------------------------------
LEMMA TxInitInv == TxInit => TxInv
<1> SUFFICES ASSUME TxInit PROVE TxInv
  OBVIOUS
<1> USE UsbTxAssumption
<1>1. TxTypeOK
  <2>1. tx_posted \in Seq(0..TxBufMax-1) /\ tx_done \in Seq({"completed", "failed"})
    BY DEF TxInit
  <2>2. tx_slot \in [0..TxBufMax-1 -> 0..TxPackets]
    BY DEF TxInit
  <2>3. tx_ready \in 0..TxBufMax /\ tx_held \in -1..TxBufMax-1
    BY DEF TxInit, AllReady
  <2>4. rejected \in BOOLEAN
    BY DEF TxInit
  <2>5. /\ tx_prod \in 0..TxPackets /\ tx_cons \in 0..TxPackets
        /\ tried \in 0..TxPackets /\ tx_faults \in 0..TxMaxFaults
        /\ committed \in 0..TxPackets /\ aired \in 0..TxPackets
    BY DEF TxInit
  <2> QED BY <2>1, <2>2, <2>3, <2>4, <2>5 DEF TxTypeOK
<1>2. TxCredits /\ TxClean
  BY DEF TxInit, TxCredits, TxClean, Filling, AllReady
<1>3. TxWindow
  <2>1. [k \in DOMAIN tx_posted |-> 0] \in [DOMAIN tx_posted -> 0..TxPackets]
    OBVIOUS
  <2>2. Indices([k \in DOMAIN tx_posted |-> 0])
    BY DEF TxInit, Indices
  <2> QED BY <2>1, <2>2 DEF TxWindow
<1> QED BY <1>1, <1>2, <1>3 DEF TxInv

\* The indices of the transfers and of the slot that is being filled lie within
\* one lap, so their slots differ.
LEMMA TxInvNoOverwrite ==
    ASSUME TxInv PROVE TxNoOverwrite
<1> USE UsbTxAssumption
<1>1. PICK idx \in [DOMAIN tx_posted -> 0..TxPackets] : Indices(idx)
  BY DEF TxInv, TxWindow
<1>2. /\ tx_ready \in Nat /\ Len(tx_done) \in Nat
      /\ tx_prod \in Nat /\ tx_cons \in Nat
      /\ tx_cons + Filling <= tx_prod
      /\ tx_held # -1 => tx_held = (tx_prod - 1) % TxBufMax
      /\ tx_posted \in Seq(0..TxBufMax-1)
  BY DEF TxInv, TxTypeOK, TxCredits
<1>3. ASSUME NEW k \in DOMAIN tx_posted
      PROVE  /\ idx[k] \in Nat /\ tx_posted[k] = idx[k] % TxBufMax
             /\ idx[k] < tx_cons /\ tx_prod - idx[k] <= TxBufMax
  BY <1>1, <1>2 DEF Indices
<1>4. ASSUME NEW k \in DOMAIN tx_posted PROVE tx_posted[k] # tx_held
  <2>1. CASE tx_held = -1
    BY <1>2, <2>1
  <2>2. CASE tx_held # -1
    <3>0. Filling = 1
      BY <2>2 DEF Filling
    <3>1. /\ idx[k] \in Nat /\ tx_prod - 1 \in Nat /\ idx[k] < tx_prod - 1
          /\ (tx_prod - 1) - idx[k] < TxBufMax
      BY <1>2, <1>3, <3>0, SMTT(30)
    <3>2. idx[k] % TxBufMax # (tx_prod - 1) % TxBufMax
      BY <3>1, SlotInjective
    <3> QED BY <1>2, <1>3, <2>2, <3>2
  <2> QED BY <2>1, <2>2
<1>5. ASSUME NEW j \in DOMAIN tx_posted, NEW k \in DOMAIN tx_posted, j < k
      PROVE  tx_posted[j] # tx_posted[k]
  <2>1. idx[j] < idx[k]
    BY <1>1, <1>5 DEF Indices
  <2>2. /\ idx[j] \in Nat /\ idx[k] \in Nat /\ idx[k] - idx[j] < TxBufMax
    <3>1. Filling \in Nat
      BY DEF Filling
    <3>2. /\ idx[j] \in Nat /\ tx_prod - idx[j] <= TxBufMax
          /\ idx[k] \in Nat /\ idx[k] < tx_cons
      BY <1>3
    <3>3. tx_cons <= tx_prod
      BY <1>2, <3>1
    <3> QED
      BY <1>2, <3>2, <3>3
  <2>3. idx[j] % TxBufMax # idx[k] % TxBufMax
    BY <2>1, <2>2, SlotInjective
  <2> QED BY <1>3, <2>3
<1>6. \A j, k \in DOMAIN tx_posted : tx_posted[j] = tx_posted[k] => j = k
  <2>1. DOMAIN tx_posted \subseteq Nat
    BY <1>2
  <2> QED BY <2>1, <1>5
<1> QED BY <1>4, <1>6 DEF TxNoOverwrite

\* A commit is believed only if no get has failed so far: the index of the
\* slot and the commit's own index are less than a lap apart.
LEMMA CommitBelieved ==
    ASSUME TxInv, tx_held # -1
    PROVE  tx_held = CommitSlot <=> tx_prod = tx_cons + 1
<1> USE UsbTxAssumption
<1>1. /\ tx_prod - 1 \in Nat /\ tx_cons \in Nat /\ tx_cons <= tx_prod - 1
      /\ (tx_prod - 1) - tx_cons < TxBufMax
      /\ tx_held = (tx_prod - 1) % TxBufMax
  BY DEF TxInv, TxTypeOK, TxCredits, Filling
<1>2. tx_cons < tx_prod - 1 => tx_cons % TxBufMax # (tx_prod - 1) % TxBufMax
  BY <1>1, SlotInjective
<1>3. tx_prod \in Nat
  BY DEF TxInv, TxTypeOK
<1>4. CASE tx_cons < tx_prod - 1
  BY <1>1, <1>2, <1>3, <1>4 DEF CommitSlot
<1>5. CASE tx_cons = tx_prod - 1
  BY <1>1, <1>3, <1>5 DEF CommitSlot
<1> QED BY <1>1, <1>4, <1>5

-----------------------------------------------------------------------------
LEMMA StepSendGet ==
    ASSUME TxInv, SendGet PROVE TxInv'
<1> USE UsbTxAssumption
<1>1. tx_prod % TxBufMax \in 0..TxBufMax-1 /\ tx_prod \in Nat
  BY DEF TxInv, TxTypeOK
<1>2. TxTypeOK'
  <2>1. /\ tx_ready' \in 0..TxBufMax /\ tried' \in 0..TxPackets
        /\ tx_prod' \in 0..TxPackets
    BY DEF TxInv, TxTypeOK, TxCredits, SendGet, HasCredit
  <2>2. tx_held' \in -1..TxBufMax-1 /\ tx_faults' \in 0..TxMaxFaults
    BY <1>1 DEF TxInv, TxTypeOK, SendGet
  <2>3. UNCHANGED <<tx_cons, tx_slot, tx_posted, tx_done, committed, aired, rejected>>
    BY DEF SendGet
  <2> QED
    BY <2>1, <2>2, <2>3 DEF TxInv, TxTypeOK
<1>3. TxCredits'
  BY <1>1 DEF TxInv, TxTypeOK, TxCredits, SendGet, HasCredit, Filling
<1>4. TxWindow'
  <2>1. PICK idx \in [DOMAIN tx_posted -> 0..TxPackets] : Indices(idx)
    BY DEF TxInv, TxWindow
  <2>2. Indices(idx)'
    BY <2>1 DEF TxInv, TxTypeOK, SendGet, HasCredit, Indices
  <2> QED BY <2>1, <2>2 DEF TxWindow, SendGet
<1>5. TxClean'
  BY DEF TxInv, TxTypeOK, TxClean, SendGet, Filling
<1> QED BY <1>2, <1>3, <1>4, <1>5 DEF TxInv

LEMMA StepSendCommit ==
    ASSUME TxInv, SendCommit PROVE TxInv'
<1> USE UsbTxAssumption
<1>1. /\ tx_held # -1 /\ tx_held' = -1 /\ tx_cons' = tx_cons + 1
      /\ tx_held \in 0..TxBufMax-1
      /\ UNCHANGED <<tx_ready, tx_prod, tx_done, tried, aired>>
  BY DEF SendCommit, TxInv, TxTypeOK
<1>2. tx_cons \in Nat /\ tx_cons + 1 <= tx_prod /\ tx_prod \in 0..TxPackets
  BY <1>1 DEF TxInv, TxTypeOK, TxCredits, Filling
<1>3. CASE UNCHANGED <<tx_slot, tx_posted, committed>>
  <2>1. /\ rejected' \in BOOLEAN /\ tx_faults' \in 0..TxMaxFaults
        /\ tx_faults' = 0 => tx_faults = 0 /\ tx_held # CommitSlot
    <3>1. CASE tx_held # CommitSlot /\ rejected' = TRUE /\ UNCHANGED tx_faults
      BY <3>1 DEF TxInv, TxTypeOK
    <3>2. CASE tx_faults < TxMaxFaults /\ tx_faults' = tx_faults + 1 /\ UNCHANGED rejected
      BY <3>2 DEF TxInv, TxTypeOK
    <3> QED BY <1>3, <3>1, <3>2 DEF SendCommit, TxInv, TxTypeOK
  <2>2. TxTypeOK'
    BY <1>1, <1>2, <1>3, <2>1 DEF TxInv, TxTypeOK
  <2>3. TxCredits'
    BY <1>1, <1>2, <1>3 DEF TxInv, TxTypeOK, TxCredits, Filling
  <2>4. TxWindow'
    <3>1. PICK idx \in [DOMAIN tx_posted -> 0..TxPackets] : Indices(idx)
      BY DEF TxInv, TxWindow
    <3>2. Indices(idx)'
      BY <1>1, <1>2, <1>3, <3>1 DEF Indices
    <3> QED BY <1>3, <3>1, <3>2 DEF TxWindow
  <2>5. TxClean'
    <3> SUFFICES ASSUME tx_faults' = 0 PROVE FALSE
      BY DEF TxClean
    <3> QED BY <1>1, <2>1, CommitBelieved DEF TxInv, TxClean, Filling
  <2> QED BY <2>2, <2>3, <2>4, <2>5 DEF TxInv
<1>4. CASE /\ tx_held = CommitSlot
           /\ tx_slot' = [tx_slot EXCEPT ![tx_held] = committed + 1]
           /\ tx_posted' = Append(tx_posted, tx_held)
           /\ committed' = committed + 1
           /\ UNCHANGED <<rejected, tx_faults>>
  <2> DEFINE n == Len(tx_posted)
  <2>0. /\ tx_posted \in Seq(0..TxBufMax-1) /\ n \in Nat
        /\ DOMAIN tx_posted = 1..n
    BY DEF TxInv, TxTypeOK
  <2>1. /\ tx_posted' \in Seq(0..TxBufMax-1) /\ Len(tx_posted') = n + 1
        /\ DOMAIN tx_posted' = 1..(n + 1)
        /\ \A k \in 1..n : tx_posted'[k] = tx_posted[k]
        /\ tx_posted'[n + 1] = tx_held
    BY <1>1, <1>4, <2>0, AppendProperties
  <2> HIDE DEF n
  <2>2. committed \in Nat /\ committed + 1 <= TxPackets
    BY <1>2 DEF TxInv, TxTypeOK, TxCredits
  <2>3. TxTypeOK'
    BY <1>1, <1>2, <1>4, <2>1, <2>2 DEF TxInv, TxTypeOK
  <2>4. TxCredits'
    BY <1>1, <1>2, <1>4, <2>1, <2>2 DEF TxInv, TxTypeOK, TxCredits, Filling, n
  <2>5. TxWindow'
    <3>1. PICK idx \in [DOMAIN tx_posted -> 0..TxPackets] : Indices(idx)
      BY DEF TxInv, TxWindow
    <3> DEFINE new == [k \in 1..(n + 1) |-> IF k = n + 1 THEN tx_cons ELSE idx[k]]
    <3>2. new \in [DOMAIN tx_posted' -> 0..TxPackets]
      BY <1>2, <2>0, <2>1, <3>1
    <3>3. ASSUME NEW k \in 1..n
          PROVE  /\ new[k] = idx[k] /\ new[k] < tx_cons /\ new[k] \in Nat
                 /\ tx_posted'[k] = new[k] % TxBufMax
                 /\ tx_ready + Len(tx_done) + (tx_prod - new[k]) <= TxBufMax
      <4>1. k \in 1..(n + 1) /\ k # n + 1 /\ k \in DOMAIN tx_posted
        BY <2>0
      <4>2. new[k] = idx[k] /\ idx[k] \in Nat
        BY <3>1, <4>1
      <4> HIDE DEF new
      <4>3. /\ idx[k] < tx_cons /\ tx_posted[k] = idx[k] % TxBufMax
            /\ tx_ready + Len(tx_done) + (tx_prod - idx[k]) <= TxBufMax
        BY <3>1, <4>1 DEF Indices
      <4> QED BY <2>1, <4>2, <4>3
    <3>4. /\ new[n + 1] = tx_cons
          /\ tx_posted'[n + 1] = tx_cons % TxBufMax
          /\ tx_ready + Len(tx_done) + (tx_prod - tx_cons) <= TxBufMax
      BY <1>2, <1>4, <2>0, <2>1, SMTT(30) DEF CommitSlot, TxInv, TxTypeOK, TxCredits
    <3>5. \A j, k \in 1..(n + 1) : j < k => new[j] < new[k]
      <4> SUFFICES ASSUME NEW j \in 1..(n + 1), NEW k \in 1..(n + 1), j < k
                   PROVE  new[j] < new[k]
        OBVIOUS
      <4>1. CASE k = n + 1
        <5>1. j \in 1..n
          BY <2>0, <4>1
        <5> HIDE DEF new
        <5> QED BY <3>3, <3>4, <4>1, <5>1
      <4>2. CASE k # n + 1
        <5>1. j \in 1..n /\ k \in 1..n
          BY <2>0, <4>2
        <5>2. idx[j] < idx[k]
          BY <2>0, <3>1, <5>1 DEF Indices
        <5> QED BY <3>3, <5>1, <5>2
      <4> QED BY <4>1, <4>2
    <3> HIDE DEF new
    <3>6. \A k \in 1..(n + 1) :
             /\ tx_posted'[k] = new[k] % TxBufMax
             /\ new[k] < tx_cons + 1
             /\ tx_ready + Len(tx_done) + (tx_prod - new[k]) <= TxBufMax
      <4>1. \A k \in 1..(n + 1) : k \in 1..n \/ k = n + 1
        BY <2>0
      <4> QED BY <1>2, <3>3, <3>4, <4>1
    <3>7. PICK w \in [DOMAIN tx_posted' -> 0..TxPackets] : w = new
      BY <3>2
    <3>8. Indices(w)'
      BY <1>1, <2>1, <3>5, <3>6, <3>7 DEF Indices
    <3> QED BY <3>7, <3>8 DEF TxWindow
  <2>6. TxClean'
    <3> SUFFICES ASSUME tx_faults' = 0 PROVE TxClean'
      BY DEF TxClean
    <3>1. /\ ~rejected /\ tx_prod = tx_cons + 1 /\ committed = aired + n
          /\ \A k \in 1..n : tx_slot[tx_posted[k]] = aired + k
      BY <1>1, <1>4, <2>0 DEF TxInv, TxClean, Filling, n
    <3>2. tx_slot'[tx_held] = aired + (n + 1)
      BY <1>1, <1>4, <2>0, <3>1 DEF TxInv, TxTypeOK
    <3>3. ASSUME NEW k \in 1..n PROVE tx_slot'[tx_posted'[k]] = aired + k
      <4>1. tx_posted[k] # tx_held /\ tx_posted[k] \in 0..TxBufMax-1
        BY <2>0, TxInvNoOverwrite, SMTT(30) DEF TxNoOverwrite
      <4> QED BY <1>4, <2>1, <3>1, <4>1 DEF TxInv, TxTypeOK
    <3>4. \A k \in 1..(n + 1) : tx_slot'[tx_posted'[k]] = aired + k
      <4>1. \A k \in 1..(n + 1) : k \in 1..n \/ k = n + 1
        BY <2>0
      <4> QED BY <2>1, <3>2, <3>3, <4>1
    <3>5. committed' = aired + (n + 1)
      BY <1>4, <2>0, <3>1 DEF TxInv, TxTypeOK
    <3> QED BY <1>1, <1>2, <1>4, <2>1, <3>1, <3>4, <3>5 DEF TxClean, Filling
  <2> QED BY <2>3, <2>4, <2>5, <2>6 DEF TxInv
<1> QED BY <1>3, <1>4 DEF SendCommit

LEMMA StepHcSend ==
    ASSUME TxInv, HcSend PROVE TxInv'
<1> USE UsbTxAssumption
<1> DEFINE n == Len(tx_posted)
<1>1. /\ tx_posted \in Seq(0..TxBufMax-1) /\ n \in Nat /\ n > 0
      /\ DOMAIN tx_posted = 1..n /\ Head(tx_posted) = tx_posted[1]
      /\ tx_done \in Seq({"completed", "failed"}) /\ Len(tx_done) \in Nat
  BY SMTT(30) DEF TxInv, TxTypeOK, HcSend
<1>2. /\ tx_posted' \in Seq(0..TxBufMax-1) /\ Len(tx_posted') = n - 1
      /\ DOMAIN tx_posted' = 1..(n - 1)
      /\ \A k \in 1..(n - 1) : tx_posted'[k] = tx_posted[k + 1]
  <2>1. tx_posted' = Tail(tx_posted) /\ tx_posted # << >>
    BY DEF HcSend
  <2>2. /\ Tail(tx_posted) \in Seq(0..TxBufMax-1) /\ Len(Tail(tx_posted)) = n - 1
        /\ \A k \in 1..Len(Tail(tx_posted)) : Tail(tx_posted)[k] = tx_posted[k + 1]
    BY <1>1, <2>1, HeadTailProperties
  <2> QED BY <2>1, <2>2
<1> HIDE DEF n
<1>3. /\ tx_done' \in Seq({"completed", "failed"}) /\ Len(tx_done') = Len(tx_done) + 1
  <2>1. \E st \in {"completed", "failed"} : tx_done' = Append(tx_done, st)
    BY DEF HcSend
  <2> QED BY <1>1, <2>1, AppendProperties
<1>4. /\ UNCHANGED <<tx_ready, tx_prod, tx_cons, tx_held, tx_slot, tried, committed,
                     rejected>>
      /\ tx_faults' \in 0..TxMaxFaults
      /\ tx_faults' = 0 => tx_faults = 0 /\ aired' = tx_slot[tx_posted[1]]
      /\ aired' \in {aired, tx_slot[tx_posted[1]]}
  <2>1. CASE aired' = tx_slot[Head(tx_posted)] /\ UNCHANGED tx_faults
    BY <1>1, <2>1 DEF HcSend, TxInv, TxTypeOK
  <2>2. CASE tx_faults < TxMaxFaults /\ tx_faults' = tx_faults + 1 /\ UNCHANGED aired
    BY <1>1, <2>2 DEF HcSend, TxInv, TxTypeOK
  <2> QED BY <2>1, <2>2 DEF HcSend
<1>5. aired' \in 0..TxPackets
  <2>1. tx_posted[1] \in 0..TxBufMax-1
    BY <1>1
  <2> QED BY <1>4, <2>1 DEF TxInv, TxTypeOK
<1>6. TxTypeOK'
  BY <1>2, <1>3, <1>4, <1>5 DEF TxInv, TxTypeOK
<1>7. TxCredits'
  BY <1>1, <1>2, <1>3, <1>4 DEF TxInv, TxTypeOK, TxCredits, Filling, n
<1>8. TxWindow'
  <2>1. PICK idx \in [DOMAIN tx_posted -> 0..TxPackets] : Indices(idx)
    BY DEF TxInv, TxWindow
  <2>2. PICK w \in [1..(n - 1) -> 0..TxPackets] : w = [k \in 1..(n - 1) |-> idx[k + 1]]
    <3>1. \A k \in 1..(n - 1) : k + 1 \in DOMAIN tx_posted
      BY <1>1
    <3>2. \A k \in 1..(n - 1) : idx[k + 1] \in 0..TxPackets
      BY <2>1, <3>1
    <3> QED BY <3>2
  <2>3. /\ tx_ready \in Nat /\ tx_prod \in Nat /\ tx_cons \in Nat
        /\ 1 \in DOMAIN tx_posted /\ idx[1] \in Nat
        /\ tx_ready + Len(tx_done) + (tx_prod - idx[1]) <= TxBufMax
    <3>1. 1 \in DOMAIN tx_posted
      BY <1>1
    <3>2. tx_ready + Len(tx_done) + (tx_prod - idx[1]) <= TxBufMax
      BY <2>1, <3>1 DEF Indices
    <3> QED BY <2>1, <3>1, <3>2 DEF TxInv, TxTypeOK
  <2>4. ASSUME NEW k \in 1..(n - 1)
        PROVE  /\ tx_posted'[k] = w[k] % TxBufMax
               /\ w[k] < tx_cons
               /\ tx_ready + Len(tx_done) + 1 + (tx_prod - w[k]) <= TxBufMax
    <3>1. /\ 1 \in DOMAIN tx_posted /\ k + 1 \in DOMAIN tx_posted /\ 1 < k + 1
          /\ w[k] = idx[k + 1]
      BY <1>1, <2>2
    <3>2. idx[1] < idx[k + 1] /\ idx[k + 1] \in Nat /\ idx[k + 1] < tx_cons
      BY <2>1, <3>1 DEF Indices
    <3>3. tx_posted[k + 1] = idx[k + 1] % TxBufMax
      BY <2>1, <3>1 DEF Indices
    <3>4. tx_ready + Len(tx_done) + 1 + (tx_prod - idx[k + 1]) <= TxBufMax
      <4>1. \A r, d, p, a, b, m \in Nat :
               r + d + (p - a) <= m /\ a < b => r + d + 1 + (p - b) <= m
        OBVIOUS
      <4> QED BY <1>1, <2>3, <3>2, <4>1
    <3>5. tx_posted'[k] = idx[k + 1] % TxBufMax
      BY <1>2, <3>3
    <3> QED BY <3>1, <3>2, <3>4, <3>5
  <2>5. \A j, k \in 1..(n - 1) : j < k => w[j] < w[k]
    <3> SUFFICES ASSUME NEW j \in 1..(n - 1), NEW k \in 1..(n - 1), j < k
                 PROVE  w[j] < w[k]
      OBVIOUS
    <3>1. /\ j + 1 \in DOMAIN tx_posted /\ k + 1 \in DOMAIN tx_posted /\ j + 1 < k + 1
          /\ w[j] = idx[j + 1] /\ w[k] = idx[k + 1]
      BY <1>1, <2>2
    <3> QED BY <2>1, <3>1 DEF Indices
  <2>6. \A k \in 1..(n - 1) :
           tx_ready' + Len(tx_done') + (tx_prod' - w[k]) <= TxBufMax
    <3>1. \A k \in 1..(n - 1) : w[k] \in Nat
      BY <2>2
    <3> QED BY <1>1, <1>3, <1>4, <2>3, <2>4, <3>1
  <2>7. Indices(w)'
    BY <1>2, <1>4, <2>4, <2>5, <2>6 DEF Indices
  <2> QED BY <1>2, <2>2, <2>7 DEF TxWindow
<1>9. TxClean'
  <2> SUFFICES ASSUME tx_faults' = 0 PROVE TxClean'
    BY DEF TxClean
  <2>1. /\ ~rejected /\ tx_prod = tx_cons + Filling /\ committed = aired + n
        /\ \A k \in 1..n : tx_slot[tx_posted[k]] = aired + k
    BY <1>1, <1>4 DEF TxInv, TxClean, n
  <2>2. aired' = aired + 1 /\ aired \in Nat
    BY <1>1, <1>4, <2>1, SMTT(30) DEF TxInv, TxTypeOK
  <2>3. ASSUME NEW k \in 1..(n - 1) PROVE tx_slot[tx_posted'[k]] = aired' + k
    <3>1. k + 1 \in 1..n /\ tx_posted'[k] = tx_posted[k + 1]
      BY <1>1, <1>2
    <3>2. tx_slot[tx_posted[k + 1]] = aired + (k + 1)
      BY <2>1, <3>1
    <3> QED BY <1>1, <2>2, <3>1, <3>2
  <2>4. committed' = aired' + Len(tx_posted')
    BY <1>1, <1>2, <1>4, <2>1, <2>2
  <2>5. tx_prod' = tx_cons' + Filling'
    BY <1>4, <2>1 DEF Filling
  <2> QED BY <1>2, <1>4, <2>1, <2>3, <2>4, <2>5 DEF TxClean
<1> QED BY <1>6, <1>7, <1>8, <1>9 DEF TxInv

LEMMA StepTxCallback ==
    ASSUME TxInv, TxCallback PROVE TxInv'
<1> USE UsbTxAssumption
<1>1. /\ tx_done' \in Seq({"completed", "failed"}) /\ Len(tx_done') = Len(tx_done) - 1
      /\ Len(tx_done) \in Nat /\ Len(tx_done) > 0
  BY HeadTailProperties DEF TxCallback, TxInv, TxTypeOK
<1>2. tx_ready' \in {tx_ready, tx_ready + 1}
  BY DEF TxCallback, CreditBack
<1>3. UNCHANGED <<tx_prod, tx_cons, tx_held, tx_slot, tx_posted, tried, committed,
                  aired, rejected, tx_faults>>
  BY DEF TxCallback
<1>4. TxCredits'
  BY <1>1, <1>2, <1>3, SMTT(30) DEF TxInv, TxTypeOK, TxCredits, Filling
<1>5. tx_ready' \in 0..TxBufMax
  BY <1>1, <1>2, <1>3 DEF TxInv, TxTypeOK, TxCredits, Filling
<1>6. TxTypeOK'
  BY <1>1, <1>3, <1>5 DEF TxInv, TxTypeOK
<1>7. TxWindow'
  <2>1. PICK idx \in [DOMAIN tx_posted -> 0..TxPackets] : Indices(idx)
    BY DEF TxInv, TxWindow
  <2>2. ASSUME NEW k \in DOMAIN tx_posted
        PROVE  tx_ready' + Len(tx_done') + (tx_prod - idx[k]) <= TxBufMax
    <3>1. /\ tx_ready + Len(tx_done) + (tx_prod - idx[k]) <= TxBufMax
          /\ idx[k] \in Nat /\ tx_ready \in Nat /\ tx_prod \in Nat
      BY <2>1 DEF Indices, TxInv, TxTypeOK
    <3> QED BY <1>1, <1>2, <3>1
  <2>3. Indices(idx)'
    BY <1>3, <2>1, <2>2 DEF Indices
  <2> QED BY <1>3, <2>1, <2>3 DEF TxWindow
<1>8. TxClean'
  BY <1>3 DEF TxInv, TxClean, Filling
<1> QED BY <1>4, <1>6, <1>7, <1>8 DEF TxInv

LEMMA TxStepInv ==
    ASSUME TxInv, [TxNext]_TxVars PROVE TxInv'
<1>1. CASE UNCHANGED TxVars
  <2>1. TxTypeOK' /\ TxCredits' /\ TxClean'
    BY <1>1 DEF TxInv, TxTypeOK, TxCredits, TxClean, Filling, TxVars
  <2>2. TxWindow'
    BY <1>1 DEF TxInv, TxWindow, Indices, TxVars
  <2> QED BY <2>1, <2>2 DEF TxInv
<1> QED
  BY <1>1, StepSendGet, StepSendCommit, StepHcSend, StepTxCallback DEF TxNext

\* Whatever fails, and however often: no slot at the host controller is filled
\* or posted again, every counter keeps its range, and the pointer check of
\* send_dma_commit refuses nothing that send_dma_get handed out until then.
THEOREM TxStreamSafe == TxSpec => []TxBuffersSafe
<1>1. TxInv /\ [TxNext]_TxVars => TxInv'
  BY TxStepInv
<1>2. TxInv => TxBuffersSafe
  BY TxInvNoOverwrite DEF TxInv, TxClean, TxBuffersSafe, PointerBelieved
<1> QED BY <1>1, <1>2, TxInitInv, PTL DEF TxSpec

-----------------------------------------------------------------------------
(* The refinement of BoundedFifo *)

\* Until something fails the transfers carry the packets after the one sent last.
LEMMA TxInFlightIs ==
    TxInv /\ tx_faults = 0 => TxInFlight = Numbered(aired, Len(tx_posted))
<1> SUFFICES ASSUME TxInv, tx_faults = 0
             PROVE  TxInFlight = Numbered(aired, Len(tx_posted))
  OBVIOUS
<1>1. DOMAIN tx_posted = 1..Len(tx_posted)
  BY DEF TxInv, TxTypeOK
<1>2. \A k \in DOMAIN tx_posted : tx_slot[tx_posted[k]] = aired + k
  BY DEF TxInv, TxClean
<1> QED BY <1>1, <1>2 DEF TxInFlight, Numbered

\* SendCommit is a Put, HcSend is a Take.
LEMMA TxStepFifo ==
    ASSUME TxInv, TxInv', [TxNext]_TxVars, tx_faults' = 0
    PROVE  Fifo!Next \/ UNCHANGED <<tx_posted, committed, aired>>
<1> USE UsbTxAssumption
<1> DEFINE n == Len(tx_posted)
<1>1. tx_faults = 0
  BY SMTT(30) DEF TxNext, TxVars, SendGet, SendCommit, HcSend, TxCallback, TxInv, TxTypeOK
<1>2. TxInFlight = Numbered(aired, n) /\ n \in Nat /\ aired \in Nat
  <2>1. n \in Nat
    BY DEF TxInv, TxTypeOK
  <2>2. aired \in Nat
    BY DEF TxInv, TxTypeOK
  <2> QED
    BY <1>1, <2>1, <2>2, TxInFlightIs
<1>3. TxInFlight' = Numbered(aired', n')
  <2>1. (TxInv /\ tx_faults = 0 => TxInFlight = Numbered(aired, Len(tx_posted)))'
    BY TxInFlightIs, PTL
  <2> QED BY <2>1
<1>4. committed = aired + n
  BY <1>1 DEF TxInv, TxClean
<1>5. ASSUME SendCommit, ~UNCHANGED <<tx_posted, committed>> PROVE Fifo!Put
  <2>1. n' = n + 1 /\ aired' = aired /\ committed' = committed + 1
    BY <1>5 DEF SendCommit, TxInv, TxTypeOK
  <2>2. n + 1 <= TxBufMax
    <3>1. /\ tx_ready' \in Nat /\ Len(tx_done') \in Nat
          /\ tx_prod' \in Nat /\ tx_cons' \in Nat /\ Filling' \in {0, 1}
      BY DEF TxInv, TxTypeOK, Filling
    <3>2. /\ tx_cons' + Filling' <= tx_prod'
          /\ tx_ready' + Len(tx_done') + n' + (tx_prod' - tx_cons') <= TxBufMax
      BY DEF TxInv, TxCredits
    <3>3. \A r, d, m, p, c, h \in Nat :
             c + h <= p /\ r + d + m + (p - c) <= TxBufMax => m <= TxBufMax
      OBVIOUS
    <3>4. n' \in Nat
      BY <1>2, <2>1
    <3>5. n' <= TxBufMax
      BY <3>1, <3>2, <3>3, <3>4
    <3> QED BY <2>1, <3>5
  <2> HIDE DEF n
  <2>3. TxInFlight' = Append(TxInFlight, committed') /\ Len(TxInFlight) = n
    BY <1>2, <1>3, <1>4, <2>1, NumberedAppend, NumberedSeq
  <2> QED BY <1>2, <2>1, <2>2, <2>3 DEF Fifo!Put
<1>6. ASSUME HcSend PROVE Fifo!Take
  <2>1. n' = n - 1 /\ n > 0 /\ committed' = committed
    BY <1>6, SMTT(30) DEF HcSend, TxInv, TxTypeOK
  <2>2. aired' = aired + 1
    <3>1. (TxClean)' /\ TxClean
      BY DEF TxInv
    <3>2. committed' = aired' + n'
      BY <3>1 DEF TxClean
    <3>3. aired' \in Nat /\ committed \in Nat
      BY DEF TxInv, TxTypeOK
    <3> QED BY <1>2, <1>4, <2>1, <3>2, <3>3
  <2> HIDE DEF n
  <2>3. TxInFlight # << >> /\ Head(TxInFlight) = aired + 1 /\ TxInFlight' = Tail(TxInFlight)
    BY <1>2, <1>3, <2>1, <2>2, NumberedTail
  <2> QED BY <2>1, <2>2, <2>3 DEF Fifo!Take
<1>7. CASE SendGet \/ TxCallback \/ UNCHANGED TxVars
  BY <1>7 DEF SendGet, TxCallback, TxVars
<1>8. CASE SendCommit
  <2>1. aired' = aired
    BY <1>8 DEF SendCommit
  <2> QED BY <1>5, <1>8, <2>1 DEF Fifo!Next
<1> QED BY <1>6, <1>7, <1>8 DEF TxNext, Fifo!Next

\* Up to the first failure the stream is a bounded first-in first-out queue
\* from send_dma_commit to the device.
THEOREM TxImplementsFifo == TxSpec => ImplementsFifo
<1>1. TxInit => Fifo!Init
  BY DEF TxInit, Fifo!Init, TxInFlight
<1>2. TxInv /\ [TxNext]_TxVars => TxInv'
  BY TxStepInv
<1>3. TxInv /\ TxInv' /\ [TxNext]_TxVars =>
        [tx_faults' = 0 => Fifo!Next \/ UNCHANGED <<tx_posted, committed, aired>>]_TxVars
  BY TxStepFifo
<1> QED BY <1>1, <1>2, <1>3, TxInitInv, PTL DEF TxSpec, ImplementsFifo

(***************************************************************************)
(* The receive stream                                                      *)
(***************************************************************************)

RxCounts ==
    /\ buf_available \in Nat /\ bufno_prod \in Nat /\ bufno_cons \in Nat /\ ready \in Nat
    /\ missed \in Nat /\ forgotten \in Nat /\ extra \in Nat /\ r_ts \in Nat
    /\ held \in -1..BufMax-1 /\ last \in -1..MaxPackets
    /\ dseq \in 0..MaxPackets /\ dlost \in 0..MaxDevLoss /\ faults \in 0..MaxFaults

RxFlags == stop \in BOOLEAN /\ freed \in BOOLEAN /\ io \in {"idle", "restart"}

Packets == [seq : -1..MaxPackets, lost : Nat]
Completions == [bno : 0..BufMax, status : {"completed", "retry", "fatal"}]

RxSeqs ==
    /\ slot \in [0..BufMax -> Packets]
    /\ posted \in Seq(0..BufMax)
    /\ done \in Seq(Completions)

RxTypes == RxCounts /\ RxFlags /\ RxSeqs

\* The slots of the transfers, from the one that completes first.
FlightLen == Len(done) + Len(posted)
Flight == [k \in 1..FlightLen |->
              IF k <= Len(done) THEN done[k].bno ELSE posted[k - Len(done)]]

\* The transfers that are on a slot of the application's.
Real == {k \in 1..FlightLen : Flight[k] # Dummy}

InHand == IF held = -1 THEN 0 ELSE 1

\* A slot is free, was taken for a transfer and not yet given to the
\* application, or is in its hands; failures only take slots out of use.
RxCredits ==
    /\ bufno_cons + ready <= bufno_prod
    /\ bufno_prod - bufno_cons + buf_available + InHand <= BufMax
    /\ held # -1 => bufno_cons > 0 /\ held = (bufno_cons - 1) % BufMax
    /\ faults = 0 => bufno_prod - bufno_cons + buf_available + InHand = BufMax

\* idx gives every transfer on a slot of the application's the count under
\* which it was posted.  Until something fails or the stream stops no count is
\* missing.
RxIndices(idx) ==
    /\ \A k \in Real :
          /\ Flight[k] = idx[k] % BufMax
          /\ bufno_cons + ready <= idx[k] /\ idx[k] < bufno_prod
    /\ \A j, k \in Real : j < k => idx[j] < idx[k]
    /\ faults = 0 /\ ~stop =>
          \A i \in (bufno_cons + ready)..(bufno_prod - 1) : \E k \in Real : idx[k] = i

RxWindow == \E idx \in [1..FlightLen -> Nat] : RxIndices(idx)

\* A slot that was filled once holds a packet from then on; until something
\* fails only filled slots are announced.
RxFilled ==
    /\ \A k \in DOMAIN done : done[k].status = "completed" => slot[done[k].bno].seq # -1
    /\ faults = 0 =>
          /\ ~stop => \A k \in DOMAIN done : done[k].status = "completed"
          /\ \A i \in bufno_cons..(bufno_cons + ready - 1) : slot[i % BufMax].seq # -1

\* A callback in progress has its transfer in hand.
RxTransfers == FlightLen + (IF io = "restart" THEN 1 ELSE 0) <= Transfers

RxInv == RxTypes /\ RxCredits /\ RxWindow /\ RxFilled /\ RxTransfers
-----------------------------------------------------------------------------
LEMMA SeqParts == \A S : \A s \in Seq(S) : s # <<>> => Head(s) \in S /\ Tail(s) \in Seq(S)
  OBVIOUS

LEMMA RxHeads ==
    ASSUME RxSeqs
    PROVE  /\ posted # <<>> => Head(posted) \in 0..BufMax /\ Tail(posted) \in Seq(0..BufMax)
           /\ done # <<>> => /\ Head(done) \in Completions /\ Tail(done) \in Seq(Completions)
                             /\ Head(done).bno \in 0..BufMax
           /\ \A k \in DOMAIN done : done[k].bno \in 0..BufMax
<1>1. posted # <<>> => Head(posted) \in 0..BufMax /\ Tail(posted) \in Seq(0..BufMax)
  BY SeqParts, Zenon DEF RxSeqs
<1>2. done # <<>> => Head(done) \in Completions /\ Tail(done) \in Seq(Completions)
  BY DEF RxSeqs
<1>3. \A k \in DOMAIN done : done[k] \in Completions
  BY DEF RxSeqs
<1> QED
  BY <1>1, <1>2, <1>3 DEF Completions

LEMMA RxInitInv == Init => RxInv
<1> SUFFICES ASSUME Init PROVE RxInv
  OBVIOUS
<1> USE UsbAssumption DEF Init
<1>1. RxCounts /\ RxFlags
  <2>1. RxCounts
    BY SMTT(30) DEF RxCounts, NoneReady
  <2> QED
    BY <2>1 DEF RxFlags
<1>2. RxSeqs
  <2>1. posted \in Seq(0..BufMax)
    BY DEF FirstPosts
  <2>2. done \in Seq(Completions)
    OBVIOUS
  <2>3. slot \in [0..BufMax -> Packets]
    BY DEF NoPacket, Packets
  <2> QED
    BY <2>1, <2>2, <2>3 DEF RxSeqs
<1>3. RxCredits
  BY DEF RxCredits, InHand, NoneReady
<1>4. Len(done) = 0 /\ Len(posted) = Transfers /\ FlightLen = Transfers
  BY DEF FirstPosts, FlightLen
<1>5. RxWindow
  <2>1. Flight = [k \in 1..Transfers |-> k - 1]
    BY <1>4 DEF Flight, FirstPosts
  <2>2. Flight \in [1..FlightLen -> Nat]
    BY <1>4, <2>1
  <2>3. \A k \in 1..Transfers : (k - 1) % BufMax = k - 1
    BY NoWrap
  <2>4. Real = 1..Transfers
    BY <1>4, <2>1 DEF Real, Dummy
  <2>5. RxIndices(Flight)
    BY <2>1, <2>3, <2>4 DEF RxIndices, NoneReady
  <2> QED
    BY <2>2, <2>5 DEF RxWindow
<1>6. RxFilled
  BY DEF RxFilled, NoneReady
<1>7. RxTransfers
  BY <1>4 DEF RxTransfers
<1> QED
  BY <1>1, <1>2, <1>3, <1>5, <1>6, <1>7 DEF RxInv, RxTypes

\* What a reader takes of a loss count, and what it does not.
LEMMA LossTaken ==
    ASSUME NEW l \in Nat
    PROVE  /\ l % LostMod \in Nat /\ l - (l % LostMod) \in Nat
           /\ l - (l % LostMod) = 0 => l % LostMod = l
<1>1. LostMod \in Nat \ {0}
  BY UsbAssumption
<1>2. l \div LostMod \in Nat /\ l % LostMod \in 0..LostMod-1
      /\ l = LostMod * (l \div LostMod) + (l % LostMod)
  BY <1>1, DivMod
<1>3. LostMod * (l \div LostMod) \in Nat
  BY <1>1, <1>2, TimesGrows
<1> QED
  BY <1>1, <1>2, <1>3

LEMMA RxCountsStep == RxCounts /\ RxSeqs /\ [Next]_vars => RxCounts'
<1> SUFFICES ASSUME RxCounts, RxSeqs, [Next]_vars PROVE RxCounts'
  OBVIOUS
<1> USE UsbAssumption DEF RxCounts
<1>1. CASE DeviceDrop
  BY <1>1 DEF DeviceDrop, bufs
<1>2. CASE HcFill
  BY <1>2 DEF HcFill, bufs
<1>3. CASE HcFail
  BY <1>3 DEF HcFail, bufs
<1>4. CASE HcCancel
  BY <1>4 DEF HcCancel, bufs
<1>5. CASE Callback
  <2>1. /\ UNCHANGED <<buf_available, bufno_prod, bufno_cons, forgotten, r_ts, held, last, dseq,
                      dlost, faults>>
        /\ ready' \in {ready, ready + 1}
        /\ \/ missed' \in {0, missed} /\ extra' = extra
           \/ \E k \in BurstBits : missed' = missed + 1 + k /\ extra' = extra + k
    BY <1>5 DEF Callback, OnBuffer, ReadyPost
  <2> QED
    BY <2>1
<1>6. CASE Restart
  BY <1>6 DEF Restart, bufs, AvailableGet
<1>7. CASE RecvWait
  <2>1. bufno_cons % BufMax \in 0..BufMax-1
    OBVIOUS
  <2>2. slot[bufno_cons % BufMax].seq \in -1..MaxPackets /\ slot[bufno_cons % BufMax].lost \in Nat
    BY <2>1, SMTT(30) DEF RxSeqs, Packets
  <2>3. /\ slot[bufno_cons % BufMax].lost % LostMod \in Nat
        /\ slot[bufno_cons % BufMax].lost - (slot[bufno_cons % BufMax].lost % LostMod) \in Nat
    BY <2>2, LossTaken, Zenon
  <2> QED
    BY <1>7, <2>1, <2>2, <2>3 DEF RecvWait, StreamTime
<1>8. CASE RecvRelease
  BY <1>8 DEF RecvRelease, bufs, Released
<1>9. CASE DeinitStop
  BY <1>9 DEF DeinitStop, bufs
<1>10. CASE DeinitFree
  BY <1>10 DEF DeinitFree, bufs
<1>11. CASE UNCHANGED vars
  BY <1>11 DEF vars, bufs
<1> QED
  BY <1>1, <1>2, <1>3, <1>4, <1>5, <1>6, <1>7, <1>8, <1>9, <1>10, <1>11
  DEF Next, Device, IoThread, App

LEMMA RxFlagsStep == RxFlags /\ [Next]_vars => RxFlags'
<1> SUFFICES ASSUME RxFlags, [Next]_vars PROVE RxFlags'
  OBVIOUS
<1> USE  DEF RxFlags
<1>1. CASE DeviceDrop
  BY <1>1 DEF DeviceDrop, bufs
<1>2. CASE HcFill
  BY <1>2 DEF HcFill, bufs
<1>3. CASE HcFail
  BY <1>3 DEF HcFail, bufs
<1>4. CASE HcCancel
  BY <1>4 DEF HcCancel, bufs
<1>5. CASE Callback
  BY <1>5 DEF Callback, bufs
<1>6. CASE Restart
  BY <1>6 DEF Restart, bufs
<1>7. CASE RecvWait
  BY <1>7 DEF RecvWait, bufs
<1>8. CASE RecvRelease
  BY <1>8 DEF RecvRelease, bufs
<1>9. CASE DeinitStop
  BY <1>9 DEF DeinitStop, bufs
<1>10. CASE DeinitFree
  BY <1>10 DEF DeinitFree, bufs
<1>11. CASE UNCHANGED vars
  BY <1>11 DEF vars, bufs
<1> QED
  BY <1>1, <1>2, <1>3, <1>4, <1>5, <1>6, <1>7, <1>8, <1>9, <1>10, <1>11
  DEF Next, Device, IoThread, App

LEMMA RxSeqsStep == RxCounts /\ RxFlags /\ RxSeqs /\ [Next]_vars => RxSeqs'
<1> SUFFICES ASSUME RxCounts, RxFlags, RxSeqs, [Next]_vars PROVE RxSeqs'
  OBVIOUS
<1> USE UsbAssumption
<1>1. CASE DeviceDrop
  BY <1>1 DEF DeviceDrop, bufs, RxSeqs
<1>2. CASE HcFill
  <2>1. posted' \in Seq(0..BufMax) /\ Head(posted) \in 0..BufMax
    BY <1>2, RxHeads DEF HcFill
  <2>2. done' \in Seq(Completions)
    <3>1. \A s \in {"completed", "retry", "fatal"} :
             [bno |-> Head(posted), status |-> s] \in Completions
      BY <2>1 DEF Completions
    <3> QED
      BY <1>2, <3>1 DEF HcFill, RxSeqs
  <2>3. [seq |-> dseq, lost |-> dlost] \in Packets
    BY DEF Packets, RxCounts
  <2>4. slot' \in [0..BufMax -> Packets]
    BY <1>2, <2>1, <2>3 DEF HcFill, RxSeqs
  <2> QED
    BY <2>1, <2>2, <2>4 DEF RxSeqs
<1>3. CASE HcFail
  <2>1. posted' \in Seq(0..BufMax) /\ Head(posted) \in 0..BufMax
    BY <1>3, RxHeads DEF HcFail
  <2>2. done' \in Seq(Completions)
    <3>1. \A s \in {"completed", "retry", "fatal"} :
             [bno |-> Head(posted), status |-> s] \in Completions
      BY <2>1 DEF Completions
    <3> QED
      BY <1>3, <3>1 DEF HcFail, RxSeqs
  <2>3. slot' = slot
    BY <1>3 DEF HcFail
  <2> QED
    BY <2>1, <2>2, <2>3 DEF RxSeqs
<1>4. CASE HcCancel
  <2>1. posted' \in Seq(0..BufMax) /\ Head(posted) \in 0..BufMax
    BY <1>4, RxHeads DEF HcCancel
  <2>2. done' \in Seq(Completions)
    <3>1. \A s \in {"completed", "retry", "fatal"} :
             [bno |-> Head(posted), status |-> s] \in Completions
      BY <2>1 DEF Completions
    <3> QED
      BY <1>4, <3>1 DEF HcCancel, RxSeqs
  <2>3. slot' = slot
    BY <1>4 DEF HcCancel
  <2> QED
    BY <2>1, <2>2, <2>3 DEF RxSeqs
<1>5. CASE Callback
  <2>1. posted' = posted /\ done # <<>> /\ done' = Tail(done)
    BY <1>5 DEF Callback
  <2>2. Head(done).bno \in 0..BufMax /\ done' \in Seq(Completions)
    BY <2>1, RxHeads
  <2>3. CASE slot' = slot
    BY <2>1, <2>2, <2>3 DEF RxSeqs
  <2>4. CASE slot' = [slot EXCEPT ![Head(done).bno].lost = @ + missed]
    <3> DEFINE p == slot[Head(done).bno]
    <3>1. p \in Packets
      BY <2>2 DEF RxSeqs
    <3>2. [p EXCEPT !.lost = @ + missed] \in Packets
      BY <3>1 DEF Packets, RxCounts
    <3>3. slot' = [slot EXCEPT ![Head(done).bno] = [p EXCEPT !.lost = @ + missed]]
      BY <2>4
    <3> HIDE DEF p
    <3>4. slot' \in [0..BufMax -> Packets]
      BY <2>2, <3>2, <3>3 DEF RxSeqs
    <3> QED
      BY <2>1, <2>2, <3>4 DEF RxSeqs
  <2> QED
    BY <1>5, <2>3, <2>4 DEF Callback, OnBuffer
<1>6. CASE Restart
  <2>1. ProdGet \in 0..BufMax
    BY DEF ProdGet, Dummy, RxCounts
  <2>2. posted' \in Seq(0..BufMax)
    <3>1. Append(posted, ProdGet) \in Seq(0..BufMax)
      BY <2>1 DEF RxSeqs
    <3> QED
      BY <1>6, <3>1 DEF Restart, RxSeqs
  <2> QED
    BY <1>6, <2>2 DEF Restart, RxSeqs
<1>7. CASE RecvWait
  BY <1>7 DEF RecvWait, bufs, RxSeqs
<1>8. CASE RecvRelease
  BY <1>8 DEF RecvRelease, bufs, RxSeqs
<1>9. CASE DeinitStop
  BY <1>9 DEF DeinitStop, bufs, RxSeqs
<1>10. CASE DeinitFree
  BY <1>10 DEF DeinitFree, bufs, RxSeqs
<1>11. CASE UNCHANGED vars
  BY <1>11 DEF vars, bufs, RxSeqs
<1> QED
  BY <1>1, <1>2, <1>3, <1>4, <1>5, <1>6, <1>7, <1>8, <1>9, <1>10, <1>11
  DEF Next, Device, IoThread, App

(* What the controller, the callback and the restart do to the queue of    *)
(* transfers.                                                              *)
LEMMA FlightMoves ==
    ASSUME RxSeqs, posted # <<>>, posted' = Tail(posted), NEW s,
           done' = Append(done, [bno |-> Head(posted), status |-> s])
    PROVE  FlightLen' = FlightLen /\ Flight' = Flight /\ Real' = Real
<1>1. Len(done) \in Nat /\ Len(posted) \in Nat \ {0}
  BY DEF RxSeqs
<1>2. Len(done') = Len(done) + 1 /\ Len(posted') = Len(posted) - 1
  BY DEF RxSeqs
<1>3. FlightLen' = FlightLen
  BY <1>1, <1>2 DEF FlightLen
<1>4. ASSUME NEW k \in 1..FlightLen
      PROVE  (IF k <= Len(done') THEN done'[k].bno ELSE posted'[k - Len(done')])
               = IF k <= Len(done) THEN done[k].bno ELSE posted[k - Len(done)]
  <2>1. CASE k <= Len(done)
    <3>1. done'[k] = done[k]
      BY <1>1, <2>1 DEF RxSeqs
    <3> QED
      BY <1>1, <1>2, <2>1, <3>1
  <2>2. CASE k = Len(done) + 1
    <3>1. done'[k] = [bno |-> Head(posted), status |-> s]
      BY <1>1, <2>2 DEF RxSeqs
    <3>2. Head(posted) = posted[1]
      BY DEF RxSeqs
    <3> QED
      BY <1>1, <1>2, <2>2, <3>1, <3>2
  <2>3. CASE k > Len(done) + 1
    <3>1. k - Len(done') \in 1..Len(posted)-1 /\ k - Len(done) = (k - Len(done')) + 1
      BY <1>1, <1>2, <2>3 DEF FlightLen
    <3>2. \A i \in 1..Len(posted)-1 : posted'[i] = posted[i + 1]
      BY <1>1 DEF RxSeqs
    <3> QED
      BY <1>1, <1>2, <2>3, <3>1, <3>2
  <2>4. k \in Nat /\ (k <= Len(done) \/ k = Len(done) + 1 \/ k > Len(done) + 1)
    BY <1>1 DEF FlightLen
  <2> QED
    BY <2>1, <2>2, <2>3, <2>4
<1>5. Flight' = Flight
  BY <1>3, <1>4 DEF Flight
<1> QED
  BY <1>3, <1>5 DEF Real

LEMMA FlightReaped ==
    ASSUME RxSeqs, done # <<>>, done' = Tail(done), posted' = posted
    PROVE  /\ FlightLen \in Nat \ {0} /\ FlightLen' = FlightLen - 1
           /\ Flight[1] = Head(done).bno
           /\ \A k \in 1..FlightLen' : Flight'[k] = Flight[k + 1]
<1>1. Len(done) \in Nat \ {0} /\ Len(posted) \in Nat
  BY DEF RxSeqs
<1>2. Len(done') = Len(done) - 1
  BY DEF RxSeqs
<1>3. FlightLen \in Nat \ {0} /\ FlightLen' = FlightLen - 1
  BY <1>1, <1>2 DEF FlightLen
<1>4. Flight[1] = Head(done).bno
  <2>1. Head(done) = done[1]
    BY DEF RxSeqs
  <2> QED
    BY <1>1, <1>3, <2>1 DEF Flight
<1>5. \A i \in 1..Len(done)-1 : done'[i] = done[i + 1]
  BY <1>1 DEF RxSeqs
<1>6. ASSUME NEW k \in 1..FlightLen-1
      PROVE  (IF k <= Len(done') THEN done'[k].bno ELSE posted'[k - Len(done')])
               = IF k + 1 <= Len(done) THEN done[k + 1].bno ELSE posted[(k + 1) - Len(done)]
  <2>1. CASE k <= Len(done')
    BY <1>1, <1>2, <1>5, <2>1
  <2>2. CASE k > Len(done')
    <3>1. k - Len(done') = (k + 1) - Len(done)
      BY <1>1, <1>2, <1>3
    <3> QED
      BY <1>1, <1>2, <2>2, <3>1
  <2> QED
    BY <1>1, <1>2, <2>1, <2>2
<1> QED
  BY <1>3, <1>4, <1>6 DEF Flight

LEMMA FlightPosted ==
    ASSUME RxSeqs, done' = done, NEW b, posted' = Append(posted, b)
    PROVE  /\ FlightLen \in Nat /\ FlightLen' = FlightLen + 1
           /\ Flight'[FlightLen + 1] = b
           /\ \A k \in 1..FlightLen : Flight'[k] = Flight[k]
<1>1. Len(done) \in Nat /\ Len(posted) \in Nat /\ Len(posted') = Len(posted) + 1
  BY DEF RxSeqs
<1>2. FlightLen \in Nat /\ FlightLen' = FlightLen + 1
  BY <1>1 DEF FlightLen
<1>3. posted'[Len(posted) + 1] = b /\ \A i \in 1..Len(posted) : posted'[i] = posted[i]
  BY <1>1 DEF RxSeqs
<1>4. Flight'[FlightLen + 1] = b
  <2>1. FlightLen + 1 \in 1..FlightLen' /\ ~(FlightLen + 1 <= Len(done))
        /\ (FlightLen + 1) - Len(done) = Len(posted) + 1
    BY <1>1, <1>2 DEF FlightLen
  <2> QED
    BY <1>2, <1>3, <2>1 DEF Flight
<1>5. ASSUME NEW k \in 1..FlightLen PROVE Flight'[k] = Flight[k]
  <2>1. k \in 1..FlightLen' /\ (~(k <= Len(done)) => k - Len(done) \in 1..Len(posted))
    BY <1>1, <1>2 DEF FlightLen
  <2> QED
    BY <1>3, <2>1 DEF Flight
<1> QED
  BY <1>2, <1>4, <1>5

-----------------------------------------------------------------------------
LEMMA RxPlain ==
    ASSUME RxCounts
    PROVE  /\ buf_available \in Nat /\ bufno_prod \in Nat /\ bufno_cons \in Nat /\ ready \in Nat
           /\ InHand \in 0..1
  BY DEF RxCounts, InHand

(* The callback: what it announces is the oldest transfer, and its slot    *)
(* was taken before.                                                       *)
LEMMA CallbackAnnounces ==
    ASSUME RxCounts, RxSeqs, Callback, ready' # ready
    PROVE  /\ ready' = ready + 1 /\ ~stop /\ done # <<>> /\ Head(done).status = "completed"
           /\ Head(done).bno # Dummy
<1>1. done # <<>> /\ Head(done).bno \in 0..BufMax
  BY RxHeads DEF Callback
<1> QED
  BY <1>1, UsbAssumption DEF Callback, OnBuffer, ReadyPost, Dummy

LEMMA OldestFirst ==
    ASSUME RxCounts, RxSeqs, done # <<>>, Head(done).bno # Dummy, NEW idx \in [1..FlightLen -> Nat],
           RxIndices(idx)
    PROVE  1 \in Real /\ idx[1] \in Nat /\ bufno_cons + ready <= idx[1] /\ idx[1] < bufno_prod
<1>1. Len(done) \in Nat \ {0} /\ Len(posted) \in Nat /\ Head(done) = done[1]
  BY DEF RxSeqs
<1>2. 1 \in 1..FlightLen /\ Flight[1] = Head(done).bno
  BY <1>1 DEF FlightLen, Flight
<1>3. 1 \in Real
  BY <1>2 DEF Real
<1> QED
  BY <1>2, <1>3 DEF RxIndices

(* Slots are never counted twice.                                          *)
LEMMA RxCreditsStep ==
    RxCounts /\ RxSeqs /\ RxCredits /\ RxWindow /\ RxFilled /\ [Next]_vars
        => RxCredits'
<1> SUFFICES ASSUME RxCounts, RxSeqs, RxCredits, RxWindow, RxFilled, [Next]_vars PROVE RxCredits'
  OBVIOUS
<1>1. CASE DeviceDrop
  <2>1. /\ UNCHANGED <<buf_available, bufno_prod, bufno_cons, ready, held>>
        /\ (faults' = 0 => faults = 0)
    BY <1>1 DEF DeviceDrop, bufs, RxCounts
  <2> QED
    BY <2>1 DEF RxCredits, InHand
<1>2. CASE HcFill
  <2>1. /\ UNCHANGED <<buf_available, bufno_prod, bufno_cons, ready, held>>
        /\ (faults' = 0 => faults = 0)
    BY <1>2 DEF HcFill, bufs, RxCounts
  <2> QED
    BY <2>1 DEF RxCredits, InHand
<1>3. CASE HcFail
  <2>1. /\ UNCHANGED <<buf_available, bufno_prod, bufno_cons, ready, held>>
        /\ (faults' = 0 => faults = 0)
    BY <1>3 DEF HcFail, bufs, RxCounts
  <2> QED
    BY <2>1 DEF RxCredits, InHand
<1>4. CASE HcCancel
  <2>1. /\ UNCHANGED <<buf_available, bufno_prod, bufno_cons, ready, held>>
        /\ (faults' = 0 => faults = 0)
    BY <1>4 DEF HcCancel, bufs, RxCounts
  <2> QED
    BY <2>1 DEF RxCredits, InHand
<1>5. CASE Callback
  <2>1. UNCHANGED <<buf_available, bufno_prod, bufno_cons, held, faults>>
    BY <1>5 DEF Callback
  <2>2. CASE ready' = ready
    BY <2>1, <2>2 DEF RxCredits, InHand
  <2>3. CASE ready' # ready
    <3>1. PICK idx \in [1..FlightLen -> Nat] : RxIndices(idx)
      BY DEF RxWindow
    <3>2. /\ bufno_cons + ready <= idx[1] /\ idx[1] < bufno_prod /\ idx[1] \in Nat
          /\ ready' = ready + 1
      BY <1>5, <2>3, <3>1, CallbackAnnounces, OldestFirst
    <3>3. bufno_cons + ready' <= bufno_prod
      BY <3>2, RxPlain
    <3> QED
      BY <2>1, <3>3 DEF RxCredits, InHand
  <2> QED
    BY <2>2, <2>3
<1>6. CASE Restart
  <2>1. UNCHANGED <<bufno_cons, ready, held>> /\ (faults' = 0 => faults = 0)
    BY <1>6 DEF Restart, RxCounts
  <2>2. \/ buf_available' = buf_available /\ bufno_prod' = bufno_prod
        \/ /\ buf_available > 0 /\ buf_available' = buf_available - 1
           /\ bufno_prod' = bufno_prod + 1
    <3>1. buf_available # 0 => bufno_prod % BufMax # Dummy
      BY UsbAssumption, RxPlain DEF Dummy
    <3> QED
      BY <1>6, <3>1, RxPlain DEF Restart, ProdGet, AvailableGet
  <2>3. bufno_prod' - bufno_cons + buf_available' = bufno_prod - bufno_cons + buf_available
        /\ bufno_cons + ready <= bufno_prod'
    BY <2>2, RxPlain DEF RxCredits
  <2> QED
    BY <2>1, <2>3 DEF RxCredits, InHand
<1>7. CASE RecvWait
  <2>1. /\ UNCHANGED <<bufno_prod, buf_available, faults>> /\ held = -1 /\ ready > 0
        /\ ready' = ready - 1 /\ bufno_cons' = bufno_cons + 1
    BY <1>7 DEF RecvWait
  <2>2. bufno_cons % BufMax \in 0..BufMax-1
    BY UsbAssumption, RxPlain
  <2>3. \/ /\ held' = bufno_cons % BufMax
        \/ held' = -1 /\ slot[bufno_cons % BufMax] = NoPacket
    BY <1>7, <2>1 DEF RecvWait
  <2>4. held' # -1 => bufno_cons' > 0 /\ held' = (bufno_cons' - 1) % BufMax
    BY <2>1, <2>2, <2>3, RxPlain
  <2>5. InHand = 0 /\ InHand' \in 0..1
    BY <2>1 DEF InHand
  <2>6. faults = 0 => InHand' = 1
    <3>1. faults = 0 => slot[bufno_cons % BufMax].seq # -1
      BY <2>1, RxPlain DEF RxFilled
    <3>2. faults = 0 => held' = bufno_cons % BufMax
      BY <2>3, <3>1 DEF NoPacket
    <3> QED
      BY <2>2, <3>2 DEF InHand
  <2>7. /\ bufno_cons' + ready' = bufno_cons + ready
        /\ bufno_prod - bufno_cons' + buf_available + InHand'
             <= bufno_prod - bufno_cons + buf_available + InHand
        /\ InHand' = 1 => bufno_prod - bufno_cons' + buf_available + InHand'
                            = bufno_prod - bufno_cons + buf_available + InHand
    BY <2>1, <2>5, RxPlain
  <2> QED
    BY <2>1, <2>4, <2>5, <2>6, <2>7, RxPlain, UsbAssumption DEF RxCredits
<1>8. CASE RecvRelease
  <2>1. /\ UNCHANGED <<bufno_prod, bufno_cons, ready, faults>> /\ held # -1 /\ held' = -1
        /\ buf_available' = buf_available + 1
    BY <1>8 DEF RecvRelease, Released
  <2>2. InHand = 1 /\ InHand' = 0
    BY <2>1 DEF InHand
  <2> QED
    BY <2>1, <2>2, RxPlain DEF RxCredits
<1>9. CASE DeinitStop
  <2>1. /\ UNCHANGED <<buf_available, bufno_prod, bufno_cons, ready, held>>
        /\ (faults' = 0 => faults = 0)
    BY <1>9 DEF DeinitStop, bufs, RxCounts
  <2> QED
    BY <2>1 DEF RxCredits, InHand
<1>10. CASE DeinitFree
  <2>1. /\ UNCHANGED <<buf_available, bufno_prod, bufno_cons, ready, held>>
        /\ (faults' = 0 => faults = 0)
    BY <1>10 DEF DeinitFree, bufs, RxCounts
  <2> QED
    BY <2>1 DEF RxCredits, InHand
<1>11. CASE UNCHANGED vars
  BY <1>11 DEF vars, bufs, RxCredits, InHand
<1> QED
  BY <1>1, <1>2, <1>3, <1>4, <1>5, <1>6, <1>7, <1>8, <1>9, <1>10, <1>11
  DEF Next, Device, IoThread, App

(* Filled slots stay filled, and what is announced was filled.             *)
LEMMA RxFilledStep ==
    RxCounts /\ RxSeqs /\ RxWindow /\ RxFilled /\ [Next]_vars
        => RxFilled'
<1> SUFFICES ASSUME RxCounts, RxSeqs, RxWindow, RxFilled, [Next]_vars PROVE RxFilled'
  OBVIOUS
<1>1. CASE DeviceDrop
  <2>1. UNCHANGED <<bufno_cons, ready, slot, done, stop>> /\ (faults' = 0 => faults = 0)
    BY <1>1 DEF DeviceDrop, bufs, RxCounts
  <2> QED
    BY <2>1 DEF RxFilled
<1>2. CASE HcFill
  <2>1. /\ UNCHANGED <<bufno_cons, ready, stop, faults>> /\ posted # <<>>
        /\ slot' = [slot EXCEPT ![Head(posted)] = [seq |-> dseq, lost |-> dlost]]
        /\ done' = Append(done, [bno |-> Head(posted), status |-> "completed"])
    BY <1>2 DEF HcFill, bufs
  <2>2. Head(posted) \in 0..BufMax
    BY <2>1, RxHeads
  <2>3. /\ Len(done) \in Nat /\ DOMAIN done = 1..Len(done) /\ DOMAIN done' = 1..(Len(done) + 1)
        /\ done'[Len(done) + 1] = [bno |-> Head(posted), status |-> "completed"]
        /\ \A k \in DOMAIN done : done'[k] = done[k]
    BY <2>1 DEF RxSeqs
  <2>4. \A b \in 0..BufMax : (b = Head(posted) \/ slot[b].seq # -1) => slot'[b].seq # -1
    BY <2>1, <2>2 DEF RxSeqs, RxCounts
  <2>5. ASSUME NEW k \in DOMAIN done'
        PROVE  /\ done'[k].status = "completed" => slot'[done'[k].bno].seq # -1
               /\ faults = 0 /\ ~stop => done'[k].status = "completed"
    <3>1. CASE k = Len(done) + 1
      BY <2>2, <2>3, <2>4, <3>1
    <3>2. CASE k \in DOMAIN done
      <4>1. done[k].bno \in 0..BufMax
        BY <3>2, RxHeads
      <4> QED
        BY <2>3, <2>4, <3>2, <4>1 DEF RxFilled
    <3> QED
      BY <2>3, <3>1, <3>2
  <2>6. faults = 0 => \A i \in bufno_cons..(bufno_cons + ready - 1) : slot'[i % BufMax].seq # -1
    <3>1. \A i \in bufno_cons..(bufno_cons + ready - 1) : i % BufMax \in 0..BufMax
      BY UsbAssumption, RxPlain
    <3> QED
      BY <2>4, <3>1 DEF RxFilled
  <2> QED
    BY <2>1, <2>5, <2>6 DEF RxFilled
<1>3. CASE HcFail
  <2>1. /\ UNCHANGED slot /\ faults' # 0
        /\ \E s \in {"retry", "fatal"} : done' = Append(done, [bno |-> Head(posted), status |-> s])
    BY <1>3 DEF HcFail, RxCounts
  <2>2. ASSUME NEW k \in DOMAIN done', done'[k].status = "completed"
        PROVE  k \in DOMAIN done /\ done'[k] = done[k]
    BY <2>1, <2>2 DEF RxSeqs
  <2> QED
    BY <2>1, <2>2 DEF RxFilled
<1>4. CASE HcCancel
  <2>1. /\ UNCHANGED <<slot, bufno_cons, ready, faults>> /\ stop'
        /\ done' = Append(done, [bno |-> Head(posted), status |-> "fatal"])
    BY <1>4 DEF HcCancel, bufs
  <2>2. ASSUME NEW k \in DOMAIN done', done'[k].status = "completed"
        PROVE  k \in DOMAIN done /\ done'[k] = done[k]
    BY <2>1, <2>2 DEF RxSeqs
  <2> QED
    BY <2>1, <2>2 DEF RxFilled
<1>5. CASE Callback
  <2>1. /\ UNCHANGED <<bufno_cons, stop, faults>> /\ done # <<>> /\ done' = Tail(done)
        /\ (slot' = slot \/ slot' = [slot EXCEPT ![Head(done).bno].lost = @ + missed])
    BY <1>5 DEF Callback, OnBuffer
  <2>2. Head(done).bno \in 0..BufMax /\ Head(done) = done[1] /\ 1 \in DOMAIN done
    BY <2>1, RxHeads DEF RxSeqs
  <2>3. \A b \in 0..BufMax : slot'[b].seq = slot[b].seq
    <3>1. slot[Head(done).bno] \in Packets /\ DOMAIN slot = 0..BufMax
      BY <2>2 DEF RxSeqs
    <3>2. [slot[Head(done).bno] EXCEPT !.lost = @ + missed].seq = slot[Head(done).bno].seq
      BY <3>1 DEF Packets
    <3>3. slot' = slot \/
          slot' = [slot EXCEPT ![Head(done).bno] = [slot[Head(done).bno] EXCEPT !.lost = @ + missed]]
      BY <2>1
    <3> QED
      BY <2>2, <3>1, <3>2, <3>3
  <2>4. \A k \in DOMAIN done' : k + 1 \in DOMAIN done /\ done'[k] = done[k + 1]
    BY <2>1 DEF RxSeqs
  <2>5. \A k \in DOMAIN done : done[k].bno \in 0..BufMax
    BY RxHeads
  <2>6. \A i \in Nat : i % BufMax \in 0..BufMax
    BY UsbAssumption
  <2>7. \A k \in DOMAIN done' :
           /\ done'[k].status = "completed" => slot'[done'[k].bno].seq # -1
           /\ faults = 0 /\ ~stop => done'[k].status = "completed"
    BY <2>3, <2>4, <2>5 DEF RxFilled
  <2>8. faults = 0 => \A i \in bufno_cons..(bufno_cons + ready' - 1) : slot'[i % BufMax].seq # -1
    <3> SUFFICES ASSUME faults = 0, NEW i \in bufno_cons..(bufno_cons + ready' - 1)
                 PROVE  slot'[i % BufMax].seq # -1
      OBVIOUS
    <3>1. i \in Nat
      BY RxPlain
    <3>2. CASE i \in bufno_cons..(bufno_cons + ready - 1)
      BY <2>3, <2>6, <3>1, <3>2 DEF RxFilled
    <3>3. CASE i \notin bufno_cons..(bufno_cons + ready - 1)
      <4>1. ready' # ready
        BY <3>3
      <4>2. ready' = ready + 1 /\ ~stop /\ Head(done).status = "completed" /\ Head(done).bno # Dummy
        BY <1>5, <4>1, CallbackAnnounces
      <4>3. i = bufno_cons + ready
        BY <3>1, <3>3, <4>2, RxPlain
      <4>4. PICK idx \in [1..FlightLen -> Nat] : RxIndices(idx)
        BY DEF RxWindow
      <4>5. 1 \in Real /\ idx[1] \in Nat /\ bufno_cons + ready <= idx[1] /\ idx[1] < bufno_prod
        BY <2>1, <4>2, <4>4, OldestFirst
      <4>6. idx[1] = i
        <5>1. i \in (bufno_cons + ready)..(bufno_prod - 1)
          BY <4>3, <4>5, RxPlain
        <5>2. PICK k \in Real : idx[k] = i
          BY <3>1, <4>2, <4>4, <5>1 DEF RxIndices
        <5>3. k \in 1..FlightLen
          BY DEF Real
        <5>4. k # 1 => idx[1] < idx[k]
          <6>1. k # 1 => 1 < k
            BY <5>3
          <6> QED
            BY <4>4, <4>5, <6>1 DEF RxIndices
        <5> QED
          BY <4>3, <4>5, <5>2, <5>4, RxPlain
      <4>7. Flight[1] = i % BufMax
        BY <4>4, <4>5, <4>6 DEF RxIndices
      <4>8. Flight[1] = Head(done).bno
        <5>1. Len(done) \in Nat \ {0} /\ Len(posted) \in Nat
          BY <2>1 DEF RxSeqs
        <5> QED
          BY <2>2, <5>1 DEF Flight, FlightLen
      <4>9. slot[Head(done).bno].seq # -1
        BY <2>2, <4>2 DEF RxFilled
      <4> QED
        BY <2>2, <2>3, <4>7, <4>8, <4>9
    <3> QED
      BY <3>2, <3>3
  <2> QED
    BY <2>1, <2>7, <2>8 DEF RxFilled
<1>6. CASE Restart
  <2>1. UNCHANGED <<bufno_cons, ready, slot, done, stop>> /\ (faults' = 0 => faults = 0)
    BY <1>6 DEF Restart, bufs, RxCounts
  <2> QED
    BY <2>1 DEF RxFilled
<1>7. CASE RecvWait
  <2>1. /\ UNCHANGED <<slot, done, stop, faults>> /\ ready > 0
        /\ ready' = ready - 1 /\ bufno_cons' = bufno_cons + 1
    BY <1>7 DEF RecvWait
  <2>2. bufno_cons'..(bufno_cons' + ready' - 1) \subseteq bufno_cons..(bufno_cons + ready - 1)
    BY <2>1, RxPlain
  <2> QED
    BY <2>1, <2>2 DEF RxFilled
<1>8. CASE RecvRelease
  <2>1. UNCHANGED <<bufno_cons, ready, slot, done, stop>> /\ (faults' = 0 => faults = 0)
    BY <1>8 DEF RecvRelease, bufs, RxCounts
  <2> QED
    BY <2>1 DEF RxFilled
<1>9. CASE DeinitStop
  <2>1. UNCHANGED <<bufno_cons, ready, slot, done, faults>> /\ stop'
    BY <1>9 DEF DeinitStop
  <2> QED
    BY <2>1 DEF RxFilled
<1>10. CASE DeinitFree
  <2>1. UNCHANGED <<bufno_cons, ready, slot, done, stop>> /\ (faults' = 0 => faults = 0)
    BY <1>10 DEF DeinitFree, bufs, RxCounts
  <2> QED
    BY <2>1 DEF RxFilled
<1>11. CASE UNCHANGED vars
  BY <1>11 DEF vars, bufs, RxFilled
<1> QED
  BY <1>1, <1>2, <1>3, <1>4, <1>5, <1>6, <1>7, <1>8, <1>9, <1>10, <1>11
  DEF Next, Device, IoThread, App

(* The transfers keep their counts as long as they keep their places.      *)
LEMMA IndicesKept ==
    ASSUME RxWindow, FlightLen' = FlightLen, Flight' = Flight, Real' = Real,
           bufno_cons' + ready' = bufno_cons + ready, bufno_prod' = bufno_prod,
           faults' = 0 /\ ~stop' => faults = 0 /\ ~stop
    PROVE  RxWindow'
<1>1. PICK idx \in [1..FlightLen -> Nat] : RxIndices(idx)
  BY DEF RxWindow
<1>2. RxIndices(idx)'
  BY <1>1 DEF RxIndices
<1> QED
  BY <1>1, <1>2 DEF RxWindow

LEMMA FlightKept ==
    ASSUME done' = done, posted' = posted
    PROVE  FlightLen' = FlightLen /\ Flight' = Flight /\ Real' = Real
  BY DEF FlightLen, Flight, Real

(* The counts of the transfers stay in order and in the window.            *)
LEMMA RxWindowStep ==
    RxCounts /\ RxSeqs /\ RxCredits /\ RxWindow /\ RxFilled /\ [Next]_vars
        => RxWindow'
<1> SUFFICES ASSUME RxCounts, RxSeqs, RxCredits, RxWindow, RxFilled, [Next]_vars PROVE RxWindow'
  OBVIOUS
<1>1. CASE DeviceDrop
  <2>1. /\ UNCHANGED <<done, posted, bufno_prod>> /\ bufno_cons' + ready' = bufno_cons + ready
        /\ (faults' = 0 /\ ~stop' => faults = 0 /\ ~stop)
    BY <1>1, RxPlain DEF DeviceDrop, bufs
  <2> QED
    BY <2>1, FlightKept, IndicesKept
<1>2. CASE HcFill
  <2>1. /\ UNCHANGED <<bufno_cons, ready, bufno_prod, stop>> /\ posted # <<>> /\ posted' = Tail(posted)
        /\ (faults' = 0 => faults = 0)
    BY <1>2 DEF HcFill, bufs, RxCounts
  <2>2. \E s : done' = Append(done, [bno |-> Head(posted), status |-> s])
    BY <1>2 DEF HcFill
  <2>3. FlightLen' = FlightLen /\ Flight' = Flight /\ Real' = Real
    BY <2>1, <2>2, FlightMoves
  <2> QED
    BY <2>1, <2>3, IndicesKept
<1>3. CASE HcFail
  <2>1. /\ UNCHANGED <<bufno_cons, ready, bufno_prod, stop>> /\ posted # <<>> /\ posted' = Tail(posted)
        /\ (faults' = 0 => faults = 0)
    BY <1>3 DEF HcFail, bufs, RxCounts
  <2>2. \E s : done' = Append(done, [bno |-> Head(posted), status |-> s])
    BY <1>3 DEF HcFail
  <2>3. FlightLen' = FlightLen /\ Flight' = Flight /\ Real' = Real
    BY <2>1, <2>2, FlightMoves
  <2> QED
    BY <2>1, <2>3, IndicesKept
<1>4. CASE HcCancel
  <2>1. /\ UNCHANGED <<bufno_cons, ready, bufno_prod, stop>> /\ posted # <<>> /\ posted' = Tail(posted)
        /\ (faults' = 0 => faults = 0)
    BY <1>4 DEF HcCancel, bufs, RxCounts
  <2>2. \E s : done' = Append(done, [bno |-> Head(posted), status |-> s])
    BY <1>4 DEF HcCancel
  <2>3. FlightLen' = FlightLen /\ Flight' = Flight /\ Real' = Real
    BY <2>1, <2>2, FlightMoves
  <2> QED
    BY <2>1, <2>3, IndicesKept
<1>5. CASE Callback
  <2>1. PICK idx \in [1..FlightLen -> Nat] : RxIndices(idx)
    BY DEF RxWindow
  <2>0. PICK w : w = [k \in 1..(FlightLen - 1) |-> idx[k + 1]]
    OBVIOUS
  <2>2. /\ UNCHANGED <<bufno_cons, bufno_prod, stop, faults, posted>>
        /\ done # <<>> /\ done' = Tail(done)
    BY <1>5 DEF Callback
  <2>3. /\ FlightLen \in Nat \ {0} /\ FlightLen' = FlightLen - 1 /\ Flight[1] = Head(done).bno
        /\ \A k \in 1..FlightLen' : Flight'[k] = Flight[k + 1]
    BY <2>2, FlightReaped
  <2>4. w \in [1..FlightLen' -> Nat] /\ \A k \in 1..FlightLen' : w[k] = idx[k + 1] /\ w[k] \in Nat
    BY <2>0, <2>1, <2>3
  <2>5. \A k \in 1..FlightLen' : k \in Nat /\ k + 1 \in 1..FlightLen /\ (k \in Real' <=> k + 1 \in Real)
    BY <2>3 DEF Real
  <2>6. \A k \in Real' : k \in 1..FlightLen'
    BY DEF Real
  <2>7. ready' = ready \/ /\ ready' = ready + 1 /\ 1 \in Real /\ idx[1] \in Nat
                          /\ bufno_cons + ready <= idx[1]
    BY <1>5, <2>1, <2>2, CallbackAnnounces, OldestFirst
  <2>8. ASSUME NEW k \in Real'
        PROVE  /\ Flight'[k] = w[k] % BufMax
               /\ bufno_cons' + ready' <= w[k] /\ w[k] < bufno_prod'
    <3>1. k \in 1..FlightLen' /\ k + 1 \in Real /\ 1 < k + 1 /\ w[k] = idx[k + 1] /\ w[k] \in Nat
      BY <2>4, <2>5, <2>6
    <3>2. Flight[k + 1] = w[k] % BufMax /\ bufno_cons + ready <= w[k] /\ w[k] < bufno_prod
      BY <2>1, <3>1 DEF RxIndices
    <3>3. 1 \in Real => idx[1] < w[k]
      BY <2>1, <3>1 DEF RxIndices
    <3>4. bufno_cons + ready' <= w[k]
      BY <2>7, <3>1, <3>2, <3>3, RxPlain
    <3> QED
      BY <2>2, <2>3, <3>1, <3>2, <3>4
  <2>9. ASSUME NEW j \in Real', NEW k \in Real', j < k PROVE w[j] < w[k]
    <3>1. j + 1 \in Real /\ k + 1 \in Real /\ j + 1 < k + 1 /\ w[j] = idx[j + 1] /\ w[k] = idx[k + 1]
      BY <2>4, <2>5, <2>6, <2>9
    <3> QED
      BY <2>1, <3>1 DEF RxIndices
  <2>10. ASSUME faults = 0, ~stop, NEW i \in (bufno_cons + ready')..(bufno_prod - 1)
         PROVE  \E k \in Real' : w[k] = i
    <3>1. ready' \in Nat /\ ready <= ready'
      BY <2>7, RxPlain
    <3>2. i \in (bufno_cons + ready)..(bufno_prod - 1)
      BY <3>1, RxPlain
    <3>3. PICK k \in Real : idx[k] = i
      BY <2>1, <2>10, <3>2 DEF RxIndices
    <3>4. k \in 1..FlightLen
      BY DEF Real
    <3>5. k # 1
      <4> SUFFICES ASSUME k = 1 PROVE FALSE
        OBVIOUS
      <4>1. Head(done).status = "completed" /\ Head(done).bno \in 0..BufMax /\ Head(done).bno # Dummy
        <5>1. Head(done) = done[1] /\ 1 \in DOMAIN done
          BY <2>2 DEF RxSeqs
        <5>2. Head(done).bno # Dummy
          BY <2>3, <3>3 DEF Real
        <5> QED
          BY <2>2, <2>10, <5>1, <5>2, RxHeads DEF RxFilled
      <4>2. ready' = ready + 1
        BY <1>5, <2>10, <4>1, UsbAssumption DEF Callback, OnBuffer, ReadyPost, Dummy
      <4>3. PICK m \in Real : idx[m] = bufno_cons + ready
        <5>1. bufno_cons + ready \in (bufno_cons + ready)..(bufno_prod - 1)
          BY <3>2, RxPlain
        <5> QED
          BY <2>1, <2>10, <5>1 DEF RxIndices
      <4>4. m \in 1..FlightLen
        BY DEF Real
      <4>5. m # 1 => idx[1] < idx[m]
        <5>1. m # 1 => 1 < m
          BY <4>4
        <5> QED
          BY <2>1, <3>3, <5>1 DEF RxIndices
      <4> QED
        BY <3>3, <4>2, <4>3, <4>5, RxPlain
    <3>6. k - 1 \in 1..FlightLen' /\ (k - 1) + 1 = k
      BY <2>3, <3>4, <3>5
    <3>7. k - 1 \in Real' /\ w[k - 1] = idx[k]
      BY <2>4, <2>5, <3>6
    <3> QED
      BY <3>3, <3>7
  <2>11. RxIndices(w)'
    BY <2>2, <2>8, <2>9, <2>10 DEF RxIndices
  <2> QED
    BY <2>4, <2>11 DEF RxWindow
<1>6. CASE Restart
  <2>1. UNCHANGED <<bufno_cons, ready, stop, done>>
    BY <1>6 DEF Restart
  <2>2. PICK idx \in [1..FlightLen -> Nat] : RxIndices(idx)
    BY DEF RxWindow
  <2>3. \/ ProdGet = Dummy /\ bufno_prod' = bufno_prod
        \/ ProdGet = bufno_prod % BufMax /\ ProdGet # Dummy /\ bufno_prod' = bufno_prod + 1
    <3>1. buf_available # 0 => bufno_prod % BufMax # Dummy
      BY UsbAssumption, RxPlain DEF Dummy
    <3> QED
      BY <1>6, <3>1 DEF Restart, ProdGet
  <2>4. bufno_prod' \in Nat /\ bufno_prod <= bufno_prod'
    BY <2>3, RxPlain
  <2>5. CASE posted' = Append(posted, ProdGet) /\ UNCHANGED faults
    <3>0. PICK w : w = [k \in 1..(FlightLen + 1) |-> IF k <= FlightLen THEN idx[k] ELSE bufno_prod]
      OBVIOUS
    <3>1. /\ FlightLen \in Nat /\ FlightLen' = FlightLen + 1 /\ Flight'[FlightLen + 1] = ProdGet
          /\ \A k \in 1..FlightLen : Flight'[k] = Flight[k]
      BY <2>1, <2>5, FlightPosted
    <3>2. w \in [1..FlightLen' -> Nat] /\ w[FlightLen + 1] = bufno_prod
          /\ \A k \in 1..FlightLen : w[k] = idx[k] /\ w[k] \in Nat
      BY <2>2, <3>0, <3>1, RxPlain
    <3>3. \A k \in Real' : k \in Real \/ (k = FlightLen + 1 /\ ProdGet # Dummy)
      BY <3>1 DEF Real
    <3>4. \A k \in Real : k \in Real' /\ k \in 1..FlightLen
      BY <3>1 DEF Real
    <3>5. ProdGet # Dummy => FlightLen + 1 \in Real'
      BY <3>1 DEF Real, Dummy
    <3>6. ASSUME NEW k \in Real'
          PROVE  /\ Flight'[k] = w[k] % BufMax
                 /\ bufno_cons + ready <= w[k] /\ w[k] < bufno_prod'
      <4>1. CASE k \in Real
        <5>1. k \in 1..FlightLen /\ w[k] = idx[k] /\ w[k] \in Nat /\ Flight'[k] = Flight[k]
          BY <3>1, <3>2, <3>4, <4>1
        <5>2. Flight[k] = w[k] % BufMax /\ bufno_cons + ready <= w[k] /\ w[k] < bufno_prod
          BY <2>2, <4>1, <5>1 DEF RxIndices
        <5> QED
          BY <2>4, <5>1, <5>2, RxPlain
      <4>2. CASE k = FlightLen + 1 /\ ProdGet # Dummy
        <5>1. bufno_prod' = bufno_prod + 1 /\ Flight'[k] = bufno_prod % BufMax /\ w[k] = bufno_prod
          BY <2>3, <3>1, <3>2, <4>2
        <5> QED
          BY <5>1, RxPlain DEF RxCredits
      <4> QED
        BY <3>3, <4>1, <4>2
    <3>7. ASSUME NEW j \in Real', NEW k \in Real', j < k PROVE w[j] < w[k]
      <4>1. k \in 1..FlightLen+1 /\ j \in 1..FlightLen+1
        BY <3>1 DEF Real
      <4>2. j \in Real /\ j \in 1..FlightLen
        BY <3>1, <3>3, <3>4, <3>7, <4>1
      <4>3. w[j] = idx[j] /\ idx[j] < bufno_prod
        BY <2>2, <3>2, <4>2 DEF RxIndices
      <4>4. CASE k \in Real
        <5>1. w[k] = idx[k]
          BY <3>2, <3>4, <4>4
        <5> QED
          BY <2>2, <3>7, <4>2, <4>3, <4>4, <5>1 DEF RxIndices
      <4>5. CASE k = FlightLen + 1
        BY <3>2, <4>3, <4>5
      <4> QED
        BY <3>3, <4>4, <4>5
    <3>8. ASSUME faults = 0, ~stop, NEW i \in (bufno_cons + ready)..(bufno_prod' - 1)
          PROVE  \E k \in Real' : w[k] = i
      <4>1. CASE i \in (bufno_cons + ready)..(bufno_prod - 1)
        <5>1. PICK k \in Real : idx[k] = i
          BY <2>2, <3>8, <4>1 DEF RxIndices
        <5> QED
          BY <3>2, <3>4, <5>1
      <4>2. CASE i \notin (bufno_cons + ready)..(bufno_prod - 1)
        <5>1. bufno_prod' # bufno_prod
          BY <4>2
        <5>2. ProdGet # Dummy /\ bufno_prod' = bufno_prod + 1
          BY <2>3, <5>1
        <5>3. i = bufno_prod
          BY <4>2, <5>2, RxPlain
        <5> QED
          BY <3>2, <3>5, <5>2, <5>3
      <4> QED
        BY <4>1, <4>2
    <3>9. RxIndices(w)'
      BY <2>1, <2>5, <3>6, <3>7, <3>8 DEF RxIndices
    <3> QED
      BY <3>2, <3>9 DEF RxWindow
  <2>6. CASE posted' = posted /\ faults' = faults + 1
    <3>1. FlightLen' = FlightLen /\ Flight' = Flight /\ Real' = Real
      BY <2>1, <2>6, FlightKept
    <3>2. faults' # 0
      BY <2>6 DEF RxCounts
    <3>3. \A k \in Real : idx[k] \in Nat /\ (idx[k] < bufno_prod => idx[k] < bufno_prod')
      BY <2>2, <2>4, RxPlain DEF Real
    <3>4. RxIndices(idx)'
      BY <2>1, <2>2, <3>1, <3>2, <3>3 DEF RxIndices
    <3> QED
      BY <2>2, <3>1, <3>4 DEF RxWindow
  <2> QED
    BY <1>6, <2>5, <2>6 DEF Restart
<1>7. CASE RecvWait
  <2>1. /\ UNCHANGED <<done, posted, bufno_prod>> /\ bufno_cons' + ready' = bufno_cons + ready
        /\ (faults' = 0 /\ ~stop' => faults = 0 /\ ~stop)
    BY <1>7, RxPlain DEF RecvWait, bufs
  <2> QED
    BY <2>1, FlightKept, IndicesKept
<1>8. CASE RecvRelease
  <2>1. /\ UNCHANGED <<done, posted, bufno_prod>> /\ bufno_cons' + ready' = bufno_cons + ready
        /\ (faults' = 0 /\ ~stop' => faults = 0 /\ ~stop)
    BY <1>8, RxPlain DEF RecvRelease, bufs
  <2> QED
    BY <2>1, FlightKept, IndicesKept
<1>9. CASE DeinitStop
  <2>1. /\ UNCHANGED <<done, posted, bufno_prod>> /\ bufno_cons' + ready' = bufno_cons + ready
        /\ (faults' = 0 /\ ~stop' => faults = 0 /\ ~stop)
    BY <1>9, RxPlain DEF DeinitStop, bufs
  <2> QED
    BY <2>1, FlightKept, IndicesKept
<1>10. CASE DeinitFree
  <2>1. /\ UNCHANGED <<done, posted, bufno_prod>> /\ bufno_cons' + ready' = bufno_cons + ready
        /\ (faults' = 0 /\ ~stop' => faults = 0 /\ ~stop)
    BY <1>10, RxPlain DEF DeinitFree, bufs
  <2> QED
    BY <2>1, FlightKept, IndicesKept
<1>11. CASE UNCHANGED vars
  <2>1. UNCHANGED <<done, posted, bufno_prod, bufno_cons, ready, faults, stop>>
    BY <1>11 DEF vars, bufs
  <2> QED
    BY <2>1, FlightKept, IndicesKept
<1> QED
  BY <1>1, <1>2, <1>3, <1>4, <1>5, <1>6, <1>7, <1>8, <1>9, <1>10, <1>11
  DEF Next, Device, IoThread, App

(* No transfer is posted twice.                                            *)
LEMMA RxTransfersStep == RxSeqs /\ RxTransfers /\ [Next]_vars => RxTransfers'
<1> SUFFICES ASSUME RxSeqs, RxTransfers, [Next]_vars PROVE RxTransfers'
  OBVIOUS
<1>1. CASE DeviceDrop
  <2>1. UNCHANGED <<done, posted, io>>
    BY <1>1 DEF DeviceDrop, bufs
  <2> QED
    BY <2>1, FlightKept DEF RxTransfers
<1>2. CASE HcFill
  <2>1. io' = io /\ posted # <<>> /\ posted' = Tail(posted)
    BY <1>2 DEF HcFill
  <2>2. \E s : done' = Append(done, [bno |-> Head(posted), status |-> s])
    BY <1>2 DEF HcFill
  <2>3. FlightLen' = FlightLen
    BY <2>1, <2>2, FlightMoves
  <2> QED
    BY <2>1, <2>3 DEF RxTransfers
<1>3. CASE HcFail
  <2>1. io' = io /\ posted # <<>> /\ posted' = Tail(posted)
    BY <1>3 DEF HcFail
  <2>2. \E s : done' = Append(done, [bno |-> Head(posted), status |-> s])
    BY <1>3 DEF HcFail
  <2>3. FlightLen' = FlightLen
    BY <2>1, <2>2, FlightMoves
  <2> QED
    BY <2>1, <2>3 DEF RxTransfers
<1>4. CASE HcCancel
  <2>1. io' = io /\ posted # <<>> /\ posted' = Tail(posted)
    BY <1>4 DEF HcCancel
  <2>2. \E s : done' = Append(done, [bno |-> Head(posted), status |-> s])
    BY <1>4 DEF HcCancel
  <2>3. FlightLen' = FlightLen
    BY <2>1, <2>2, FlightMoves
  <2> QED
    BY <2>1, <2>3 DEF RxTransfers
<1>5. CASE Callback
  <2>1. io = "idle" /\ done # <<>> /\ done' = Tail(done) /\ posted' = posted
    BY <1>5 DEF Callback
  <2>2. FlightLen \in Nat \ {0} /\ FlightLen' = FlightLen - 1
    BY <2>1, FlightReaped
  <2> QED
    BY <2>1, <2>2, UsbAssumption DEF RxTransfers
<1>6. CASE Restart
  <2>1. io = "restart" /\ io' = "idle" /\ done' = done
        /\ (posted' = Append(posted, ProdGet) \/ posted' = posted)
    BY <1>6 DEF Restart
  <2>2. FlightLen \in Nat /\ (FlightLen' = FlightLen + 1 \/ FlightLen' = FlightLen)
    <3>1. FlightLen \in Nat
      BY DEF FlightLen, RxSeqs
    <3> QED
      BY <2>1, <3>1, FlightPosted, FlightKept
  <2> QED
    BY <2>1, <2>2, UsbAssumption DEF RxTransfers
<1>7. CASE RecvWait
  <2>1. UNCHANGED <<done, posted, io>>
    BY <1>7 DEF RecvWait, bufs
  <2> QED
    BY <2>1, FlightKept DEF RxTransfers
<1>8. CASE RecvRelease
  <2>1. UNCHANGED <<done, posted, io>>
    BY <1>8 DEF RecvRelease, bufs
  <2> QED
    BY <2>1, FlightKept DEF RxTransfers
<1>9. CASE DeinitStop
  <2>1. UNCHANGED <<done, posted, io>>
    BY <1>9 DEF DeinitStop, bufs
  <2> QED
    BY <2>1, FlightKept DEF RxTransfers
<1>10. CASE DeinitFree
  <2>1. UNCHANGED <<done, posted, io>>
    BY <1>10 DEF DeinitFree, bufs
  <2> QED
    BY <2>1, FlightKept DEF RxTransfers
<1>11. CASE UNCHANGED vars
  <2>1. UNCHANGED <<done, posted, io>>
    BY <1>11 DEF vars
  <2> QED
    BY <2>1, FlightKept DEF RxTransfers
<1> QED
  BY <1>1, <1>2, <1>3, <1>4, <1>5, <1>6, <1>7, <1>8, <1>9, <1>10, <1>11
  DEF Next, Device, IoThread, App

-----------------------------------------------------------------------------
LEMMA RxInvStep == RxInv /\ [Next]_vars => RxInv'
<1> SUFFICES ASSUME RxInv, [Next]_vars PROVE RxInv'
  OBVIOUS
<1>1. RxCounts' /\ RxFlags' /\ RxSeqs'
  BY RxCountsStep, RxFlagsStep, RxSeqsStep DEF RxInv, RxTypes
<1>2. RxCredits' /\ RxWindow' /\ RxFilled' /\ RxTransfers'
  BY RxCreditsStep, RxWindowStep, RxFilledStep, RxTransfersStep DEF RxInv, RxTypes
<1> QED
  BY <1>1, <1>2 DEF RxInv, RxTypes

(* At most BufMax indices in a row lie in that many slots.                 *)
LEMMA SlotsCounted ==
    ASSUME NEW a \in Nat, NEW n \in 0..BufMax
    PROVE  Cardinality({i % BufMax : i \in a..(a + n - 1)}) = n
<1> DEFINE S == a..(a + n - 1)
           T == {i % BufMax : i \in S}
           f == [i \in S |-> i % BufMax]
<1>1. IsFiniteSet(S) /\ Cardinality(S) = n
  <2>1. a \in Int /\ a + n - 1 \in Int /\ n \in Nat
    BY UsbAssumption
  <2>2. IsFiniteSet(S) /\ Cardinality(S) = IF a > a + n - 1 THEN 0 ELSE (a + n - 1) - a + 1
    BY <2>1, FS_Interval
  <2> QED
    BY <2>1, <2>2
<1>2. \A i, j \in S : i < j => i % BufMax # j % BufMax
  <2> SUFFICES ASSUME NEW i \in S, NEW j \in S, i < j PROVE i % BufMax # j % BufMax
    OBVIOUS
  <2>1. i \in Nat /\ j \in Nat /\ j - i < BufMax
    BY UsbAssumption
  <2> QED
    BY <2>1, SlotInjective, UsbAssumption
<1>3. \A i, j \in S : f[i] = f[j] => i = j
  <2>1. \A i, j \in S : i \in Int /\ j \in Int
    OBVIOUS
  <2> QED
    BY <1>2, <2>1
<1>4. f \in Injection(S, T)
  BY <1>3 DEF Injection, IsInjective
<1>5. f \in Surjection(S, T)
  BY DEF Surjection
<1>6. ExistsBijection(S, T)
  BY <1>4, <1>5 DEF ExistsBijection, Bijection
<1> HIDE DEF S, T
<1>7. Cardinality(T) = Cardinality(S)
  BY <1>1, <1>6, FS_Bijection
<1> QED
  BY <1>1, <1>7 DEF S, T

LEMMA InFlightIs ==
    ASSUME RxSeqs
    PROVE  /\ FlightLen \in Nat
           /\ InFlight = {Flight[k] : k \in 1..FlightLen}
<1>1. /\ Len(done) \in Nat /\ Len(posted) \in Nat
      /\ DOMAIN done = 1..Len(done) /\ DOMAIN posted = 1..Len(posted)
  BY DEF RxSeqs
<1>2. FlightLen \in Nat
  BY <1>1 DEF FlightLen
<1>3. ASSUME NEW k \in DOMAIN done PROVE k \in 1..FlightLen /\ Flight[k] = done[k].bno
  BY <1>1 DEF FlightLen, Flight
<1>4. ASSUME NEW k \in DOMAIN posted
      PROVE  k + Len(done) \in 1..FlightLen /\ Flight[k + Len(done)] = posted[k]
  <2>1. k + Len(done) \in 1..FlightLen /\ ~(k + Len(done) <= Len(done))
        /\ (k + Len(done)) - Len(done) = k
    BY <1>1 DEF FlightLen
  <2> QED
    BY <2>1 DEF Flight
<1>5. ASSUME NEW k \in 1..FlightLen PROVE Flight[k] \in InFlight
  <2>1. CASE k <= Len(done)
    BY <1>1, <2>1 DEF Flight, InFlight
  <2>2. CASE ~(k <= Len(done))
    <3>1. k - Len(done) \in DOMAIN posted
      BY <1>1, <2>2 DEF FlightLen
    <3> QED
      BY <2>2, <3>1 DEF Flight, InFlight
  <2> QED
    BY <2>1, <2>2
<1>6. InFlight \subseteq {Flight[k] : k \in 1..FlightLen}
  BY <1>3, <1>4 DEF InFlight
<1> QED
  BY <1>2, <1>5, <1>6

(* A slot in flight, apart from the dummy, has a count of its own.         *)
LEMMA FlightCounts ==
    ASSUME RxCounts, RxSeqs, NEW idx \in [1..FlightLen -> Nat], RxIndices(idx)
    PROVE  /\ \A b \in InFlight \ {Dummy} :
                 \E i \in (bufno_cons + ready)..(bufno_prod - 1) : b = i % BufMax
           /\ faults = 0 /\ ~stop =>
                 \A i \in (bufno_cons + ready)..(bufno_prod - 1) :
                     i % BufMax \in InFlight \ {Dummy}
<1>1. \A k \in Real : /\ idx[k] \in (bufno_cons + ready)..(bufno_prod - 1)
                      /\ Flight[k] = idx[k] % BufMax
  <2>1. \A k \in Real : idx[k] \in Nat
    BY DEF Real
  <2> QED
    BY <2>1, RxPlain DEF RxIndices
<1>2. \A b \in InFlight \ {Dummy} : \E k \in Real : b = Flight[k]
  BY InFlightIs DEF Real
<1>3. \A k \in Real : Flight[k] \in InFlight \ {Dummy}
  BY InFlightIs DEF Real
<1>4. faults = 0 /\ ~stop =>
          \A i \in (bufno_cons + ready)..(bufno_prod - 1) : \E k \in Real : idx[k] = i
  BY DEF RxIndices
<1>5. \A b \in InFlight \ {Dummy} :
          \E i \in (bufno_cons + ready)..(bufno_prod - 1) : b = i % BufMax
  BY <1>1, <1>2
<1>6. ASSUME faults = 0, ~stop, NEW i \in (bufno_cons + ready)..(bufno_prod - 1)
      PROVE  i % BufMax \in InFlight \ {Dummy}
  <2>1. PICK k \in Real : idx[k] = i
    BY <1>4, <1>6
  <2> QED
    BY <1>1, <1>3, <2>1
<1> QED
  BY <1>5, <1>6

LEMMA RxTypeOK == RxInv => TypeOK
<1> SUFFICES ASSUME RxInv PROVE TypeOK
  OBVIOUS
<1> USE UsbAssumption DEF RxInv, RxTypes
<1>1. buf_available \in 0..BufMax /\ ready \in 0..BufMax
  BY RxPlain DEF RxCredits
<1>2. \A b \in 0..BufMax : slot[b].seq \in -1..MaxPackets /\ slot[b].lost \in Nat
  BY DEF RxSeqs, Packets
<1>3. \A i \in DOMAIN posted : posted[i] \in 0..BufMax
  BY DEF RxSeqs
<1>4. \A i \in DOMAIN done : done[i].bno \in 0..BufMax
  BY RxHeads
<1>5. Len(posted) + Len(done) <= Transfers
  <2>1. Len(posted) \in Nat /\ Len(done) \in Nat
    BY DEF RxSeqs
  <2> QED
    BY <2>1 DEF RxTransfers, FlightLen
<1> QED
  BY <1>1, <1>2, <1>3, <1>4, <1>5 DEF TypeOK, RxCounts, RxFlags

LEMMA RxNoOverwrite == RxInv => NoOverwrite
<1> SUFFICES ASSUME RxInv PROVE NoOverwrite
  OBVIOUS
<1>1. RxCounts /\ RxSeqs /\ RxCredits
  BY DEF RxInv, RxTypes
<1>2. PICK idx \in [1..FlightLen -> Nat] : RxIndices(idx)
  BY DEF RxInv, RxWindow
<1>3. \A i \in Nat : i % BufMax \in 0..BufMax-1
  BY UsbAssumption
<1>4. /\ held \in -1..BufMax-1
      /\ held # -1 => /\ InHand = 1 /\ bufno_cons - 1 \in Nat
                      /\ held = (bufno_cons - 1) % BufMax
  BY <1>1, RxPlain DEF RxCounts, RxCredits, InHand
<1>5. /\ bufno_cons + ready <= bufno_prod
      /\ bufno_prod - bufno_cons + buf_available + InHand <= BufMax
  BY <1>1 DEF RxCredits
<1>6. ASSUME NEW b \in InFlight, b # Dummy
      PROVE  \E i \in (bufno_cons + ready)..(bufno_prod - 1) : b = i % BufMax
  BY <1>1, <1>2, <1>6, FlightCounts
<1>7. -1 \notin InFlight
  <2>1. \A b \in InFlight : b \in 0..BufMax
    <3>1. \A i \in DOMAIN posted : posted[i] \in 0..BufMax
      BY <1>1, UsbAssumption DEF RxSeqs
    <3> QED
      BY <1>1, <3>1, RxHeads DEF InFlight
  <2> QED
    BY <2>1
<1>8. held \notin InFlight
  <2> SUFFICES ASSUME held \in InFlight PROVE FALSE
    OBVIOUS
  <2>1. held # -1 /\ held # Dummy
    BY <1>4, <1>7, UsbAssumption DEF Dummy
  <2>2. PICK i \in (bufno_cons + ready)..(bufno_prod - 1) : held = i % BufMax
    BY <1>6, <2>1
  <2>3. i \in Nat /\ bufno_cons - 1 < i /\ i - (bufno_cons - 1) < BufMax
    BY <1>1, <1>4, <1>5, <2>1, RxPlain, UsbAssumption, SMTT(30)
  <2> QED
    BY <1>4, <2>1, <2>2, <2>3, SlotInjective, UsbAssumption
<1>9. ASSUME NEW b \in Announced PROVE b \notin InFlight
  <2>1. PICK j \in bufno_cons..(bufno_cons + ready - 1) : b = j % BufMax
    BY DEF Announced
  <2>2. j \in Nat /\ b # Dummy
    <3>1. j \in Nat
      BY <1>1, RxPlain
    <3>2. b \in 0..BufMax-1
      BY <1>3, <2>1, <3>1
    <3> QED
      BY <3>1, <3>2, UsbAssumption DEF Dummy
  <2> SUFFICES ASSUME b \in InFlight PROVE FALSE
    OBVIOUS
  <2>3. PICK i \in (bufno_cons + ready)..(bufno_prod - 1) : b = i % BufMax
    BY <1>6, <2>2
  <2>4. i \in Nat /\ j < i /\ i - j < BufMax
    BY <1>1, <1>5, RxPlain, UsbAssumption
  <2> QED
    BY <2>1, <2>2, <2>3, <2>4, SlotInjective, UsbAssumption
<1>10. held \notin Announced
  <2> SUFFICES ASSUME held \in Announced PROVE FALSE
    OBVIOUS
  <2>1. PICK j \in bufno_cons..(bufno_cons + ready - 1) : held = j % BufMax
    BY DEF Announced
  <2>2. j \in Nat
    BY <1>1, RxPlain
  <2>3. held # -1
    BY <1>3, <2>1, <2>2
  <2>4. bufno_cons - 1 < j /\ j - (bufno_cons - 1) < BufMax
    BY <1>1, <1>4, <1>5, <2>3, RxPlain, UsbAssumption, SMTT(30)
  <2> QED
    BY <1>4, <2>1, <2>2, <2>3, <2>4, SlotInjective, UsbAssumption
<1> QED
  BY <1>8, <1>9, <1>10 DEF NoOverwrite

LEMMA RxAvailableExact == RxInv => AvailableExact
<1> SUFFICES ASSUME RxInv, faults = 0, ~stop
             PROVE  buf_available = BufMax - Cardinality(InFlight \ {Dummy}) - ready
                                           - (IF held = -1 THEN 0 ELSE 1)
  BY DEF AvailableExact, NoBufferLeak
<1>1. RxCounts /\ RxSeqs /\ RxCredits
  BY DEF RxInv, RxTypes
<1>2. PICK idx \in [1..FlightLen -> Nat] : RxIndices(idx)
  BY DEF RxInv, RxWindow
<1> DEFINE a == bufno_cons + ready
           n == bufno_prod - a
<1>3. /\ bufno_cons + ready <= bufno_prod
      /\ bufno_prod - bufno_cons + buf_available + InHand = BufMax
  BY <1>1 DEF RxCredits
<1>4. a \in Nat /\ n \in 0..BufMax /\ a + n - 1 = bufno_prod - 1
  <2>1. /\ buf_available \in Nat /\ bufno_prod \in Nat /\ bufno_cons \in Nat /\ ready \in Nat
        /\ InHand \in 0..1 /\ BufMax \in Nat
    BY <1>1, RxPlain, UsbAssumption
  <2>2. a \in Nat /\ n \in Nat /\ n <= BufMax
    BY <1>3, <2>1
  <2> QED
    BY <2>1, <2>2
<1>5. InFlight \ {Dummy} = {i % BufMax : i \in a..(bufno_prod - 1)}
  BY <1>1, <1>2, FlightCounts
<1>6. Cardinality(InFlight \ {Dummy}) = n
  <2> HIDE DEF a, n
  <2> QED
    BY <1>4, <1>5, SlotsCounted
<1> QED
  BY <1>1, <1>3, <1>6, RxPlain, UsbAssumption, SMTT(30) DEF InHand

(***************************************************************************)
(* libusb_transfer_buffers_cb, _buffers_prod_get_nolock and the receive    *)
(* half of usb_uram_libusb.c: whatever the order in which the controller,  *)
(* the IO thread and the application act, and whatever fails, no transfer  *)
(* is posted on a buffer the application reads or was told of; and until   *)
(* the first failure buf_available counts the free buffers exactly.        *)
(***************************************************************************)
THEOREM RxStreamSafe == Spec => []BuffersSafe
<1>1. Init => RxInv
  BY RxInitInv
<1>2. RxInv /\ [Next]_vars => RxInv'
  BY RxInvStep
<1>3. RxInv => BuffersSafe
  BY RxTypeOK, RxNoOverwrite, RxAvailableExact DEF BuffersSafe
<1> QED
  BY <1>1, <1>2, <1>3, PTL DEF Spec

-----------------------------------------------------------------------------
(* What the packets under way tell of the time, until something fails, a   *)
(* count goes wrong or the stream stops.  ann gives every announced slot  *)
(* the time the reader expects when it takes it; at gives every transfer   *)
(* that was filled and not reaped the time after its packet.               *)

RxClean == faults = 0 /\ forgotten = 0 /\ extra = 0 /\ ~stop

RxAnnounced(ann) ==
    /\ ann[bufno_cons] = r_ts
    /\ \A i \in bufno_cons..(bufno_cons + ready - 1) :
          /\ slot[i % BufMax].seq = ann[i] + slot[i % BufMax].lost
          /\ ann[i + 1] = slot[i % BufMax].seq + 1

RxReaped(ann, at) ==
    /\ at[0] = ann[bufno_cons + ready] + missed
    /\ \A k \in 1..Len(done) :
          /\ done[k].bno = Dummy => at[k] = at[k - 1] + 1
          /\ done[k].bno # Dummy =>
                /\ slot[done[k].bno].seq = at[k - 1] + slot[done[k].bno].lost
                /\ at[k] = slot[done[k].bno].seq + 1
    /\ dseq = at[Len(done)] + dlost

RxChained ==
    \E ann \in [bufno_cons..(bufno_cons + ready) -> 0..dseq], at \in [0..Len(done) -> 0..dseq] :
        RxAnnounced(ann) /\ RxReaped(ann, at)

RxTimes == RxClean => RxChained

LEMMA RxTimesInit == Init => RxTimes
<1> SUFFICES ASSUME Init PROVE RxChained
  BY DEF RxTimes
<1> DEFINE ann == [i \in 0..0 |-> 0]
<1>1. /\ bufno_cons = 0 /\ ready = 0 /\ dseq = 0 /\ dlost = 0 /\ missed = 0 /\ r_ts = 0
      /\ Len(done) = 0
  BY DEF Init, NoneReady
<1>2. /\ ann \in [bufno_cons..(bufno_cons + ready) -> 0..dseq]
      /\ ann \in [0..Len(done) -> 0..dseq]
  BY <1>1
<1>3. RxAnnounced(ann) /\ RxReaped(ann, ann)
  BY <1>1 DEF RxAnnounced, RxReaped
<1> QED
  BY <1>2, <1>3 DEF RxChained

LEMMA RxCleanBefore ==
    ASSUME RxCounts, RxSeqs, [Next]_vars, RxClean' PROVE RxClean
<1> USE DEF RxClean, RxCounts
<1>1. CASE DeviceDrop
  BY <1>1 DEF DeviceDrop, bufs
<1>2. CASE HcFill
  BY <1>2 DEF HcFill, bufs
<1>3. CASE HcFail
  BY <1>3 DEF HcFail, bufs
<1>4. CASE HcCancel
  BY <1>4 DEF HcCancel, bufs
<1>5. CASE Callback
  <2>1. extra' = extra \/ \E k \in BurstBits : extra' = extra + k
    BY <1>5 DEF Callback, OnBuffer
  <2>2. extra = 0
    BY <2>1, UsbAssumption
  <2> QED
    BY <1>5, <2>2 DEF Callback, bufs
<1>6. CASE Restart
  BY <1>6 DEF Restart, bufs
<1>7. CASE RecvWait
  <2> DEFINE l == slot[bufno_cons % BufMax].lost
  <2>1. bufno_cons % BufMax \in 0..BufMax
    BY UsbAssumption
  <2>2. l \in Nat
    BY <2>1, SMTT(30) DEF RxSeqs, Packets
  <2>3. forgotten' = forgotten \/ forgotten' = forgotten + l - (l % LostMod)
    BY <1>7 DEF RecvWait
  <2>4. l - (l % LostMod) \in Nat /\ l % LostMod \in Nat
    BY <2>2, LossTaken, Zenon
  <2> HIDE DEF l
  <2>5. forgotten = 0
    BY <2>2, <2>3, <2>4
  <2> QED
    BY <1>7, <2>5 DEF RecvWait
<1>8. CASE RecvRelease
  BY <1>8 DEF RecvRelease, bufs
<1>9. CASE DeinitStop
  BY <1>9 DEF DeinitStop, bufs
<1>10. CASE DeinitFree
  BY <1>10 DEF DeinitFree, bufs
<1>11. CASE UNCHANGED vars
  BY <1>11 DEF vars, bufs
<1> QED
  BY <1>1, <1>2, <1>3, <1>4, <1>5, <1>6, <1>7, <1>8, <1>9, <1>10, <1>11
  DEF Next, Device, IoThread, App

(* The transfers that are through come first, then the posted ones.        *)
LEMMA FlightDone ==
    ASSUME RxSeqs
    PROVE  /\ Len(done) \in Nat /\ Len(posted) \in Nat
           /\ \A k \in 1..Len(done) : k \in 1..FlightLen /\ Flight[k] = done[k].bno
           /\ posted # <<>> => /\ Len(done) + 1 \in 1..FlightLen
                               /\ Flight[Len(done) + 1] = Head(posted)
<1>1. Len(done) \in Nat /\ Len(posted) \in Nat
  BY DEF RxSeqs
<1>2. ASSUME NEW k \in 1..Len(done) PROVE k \in 1..FlightLen /\ Flight[k] = done[k].bno
  <2>1. k \in 1..FlightLen /\ k <= Len(done)
    BY <1>1 DEF FlightLen
  <2> QED
    BY <2>1 DEF Flight
<1>3. ASSUME posted # <<>>
      PROVE  Len(done) + 1 \in 1..FlightLen /\ Flight[Len(done) + 1] = Head(posted)
  <2>1. Len(posted) # 0 /\ Head(posted) = posted[1]
    BY <1>3 DEF RxSeqs
  <2>2. /\ Len(done) + 1 \in 1..FlightLen /\ ~(Len(done) + 1 <= Len(done))
        /\ (Len(done) + 1) - Len(done) = 1
    BY <1>1, <2>1 DEF FlightLen
  <2> QED
    BY <2>1, <2>2 DEF Flight
<1> QED
  BY <1>1, <1>2, <1>3

(* No slot of the application's is under way twice.                        *)
LEMMA FlightDistinct ==
    ASSUME RxInv, NEW j \in Real, NEW k \in Real, j < k
    PROVE  Flight[j] # Flight[k]
<1>1. RxCounts /\ RxSeqs /\ RxCredits
  BY DEF RxInv, RxTypes
<1>2. PICK idx \in [1..FlightLen -> Nat] : RxIndices(idx)
  BY DEF RxInv, RxWindow
<1>3. /\ idx[j] \in Nat /\ idx[k] \in Nat /\ idx[j] < idx[k]
      /\ bufno_cons <= idx[j] /\ idx[k] < bufno_prod
  <2>1. idx[j] \in Nat /\ idx[k] \in Nat
    BY <1>2 DEF Real
  <2>2. idx[j] < idx[k] /\ bufno_cons + ready <= idx[j] /\ idx[k] < bufno_prod
    BY <1>2 DEF RxIndices
  <2> QED
    BY <1>1, <2>1, <2>2, RxPlain
<1>4. bufno_prod - bufno_cons <= BufMax
  BY <1>1, RxPlain, UsbAssumption DEF RxCredits
<1>5. idx[k] - idx[j] < BufMax
  BY <1>1, <1>3, <1>4, RxPlain, UsbAssumption
<1>6. idx[j] % BufMax # idx[k] % BufMax
  BY <1>3, <1>5, SlotInjective, UsbAssumption
<1> QED
  BY <1>2, <1>6 DEF RxIndices

(* The transfer that is reaped next is the one the reader waits for.       *)
LEMMA OldestIsNext ==
    ASSUME RxInv, faults = 0, ~stop, done # <<>>, Head(done).bno # Dummy
    PROVE  Head(done).bno = (bufno_cons + ready) % BufMax
<1>1. RxCounts /\ RxSeqs
  BY DEF RxInv, RxTypes
<1>2. PICK idx \in [1..FlightLen -> Nat] : RxIndices(idx)
  BY DEF RxInv, RxWindow
<1> DEFINE e == bufno_cons + ready
<1>3. 1 \in Real /\ idx[1] \in Nat /\ e <= idx[1] /\ idx[1] < bufno_prod
  BY <1>1, <1>2, OldestFirst
<1>4. e \in e..(bufno_prod - 1)
  BY <1>1, <1>3, RxPlain
<1>5. PICK k \in Real : idx[k] = e
  BY <1>2, <1>4 DEF RxIndices
<1>6. k # 1 => idx[1] < idx[k]
  <2>1. k # 1 => 1 < k
    BY DEF Real
  <2> QED
    BY <1>2, <1>3, <2>1 DEF RxIndices
<1>7. idx[1] = e
  BY <1>1, <1>3, <1>5, <1>6, RxPlain
<1>8. Flight[1] = e % BufMax
  BY <1>2, <1>3, <1>7 DEF RxIndices
<1>9. Flight[1] = Head(done).bno
  BY <1>1, FlightDone DEF RxSeqs
<1> QED
  BY <1>8, <1>9

LEMMA RxChainKept ==
    ASSUME RxChained, UNCHANGED <<bufno_cons, ready, slot, missed, done, r_ts, dseq, dlost>>
    PROVE  RxChained'
  BY DEF RxChained, RxAnnounced, RxReaped

LEMMA RxChainDrop ==
    ASSUME RxInv, RxChained, DeviceDrop PROVE RxChained'
<1>1. RxCounts /\ dseq \in Nat /\ dlost \in Nat
  BY DEF RxInv, RxTypes, RxCounts
<1>2. /\ UNCHANGED <<bufno_cons, ready, slot, missed, done, r_ts>>
      /\ dseq' = dseq + 1 /\ dlost' = dlost + 1
  BY DEF DeviceDrop, bufs
<1>3. PICK ann \in [bufno_cons..(bufno_cons + ready) -> 0..dseq],
           at \in [0..Len(done) -> 0..dseq] : RxAnnounced(ann) /\ RxReaped(ann, at)
  BY DEF RxChained
<1>4. 0..dseq \subseteq 0..dseq'
  BY <1>1, <1>2
<1>5. /\ ann \in [bufno_cons'..(bufno_cons' + ready') -> 0..dseq']
      /\ at \in [0..Len(done') -> 0..dseq']
  BY <1>2, <1>3, <1>4
<1>6. RxAnnounced(ann)'
  BY <1>2, <1>3 DEF RxAnnounced
<1>7. dseq' = at[Len(done)] + dlost'
  <2>1. at[Len(done)] \in Nat /\ dseq = at[Len(done)] + dlost
    <3>1. Len(done) \in 0..Len(done)
      BY FlightDone DEF RxInv, RxTypes
    <3> QED
      BY <1>1, <1>3, <3>1 DEF RxReaped
  <2> QED
    BY <1>1, <1>2, <2>1
<1>8. RxReaped(ann, at)'
  BY <1>2, <1>3, <1>7 DEF RxReaped
<1> QED
  BY <1>5, <1>6, <1>8 DEF RxChained

(* The packet that is filled in goes to a slot nobody else has.            *)
LEMMA RxChainFill ==
    ASSUME RxInv, RxChained, HcFill, forgotten' = 0 PROVE RxChained'
<1> DEFINE h == Head(posted)
           m == Len(done)
<1>1. /\ RxCounts /\ RxSeqs /\ dseq \in Nat /\ dlost \in Nat /\ forgotten \in Nat
  BY DEF RxInv, RxTypes, RxCounts
<1>2. /\ UNCHANGED <<bufno_cons, ready, missed, r_ts>> /\ posted # <<>>
      /\ slot' = [slot EXCEPT ![h] = [seq |-> dseq, lost |-> dlost]]
      /\ done' = Append(done, [bno |-> h, status |-> "completed"])
      /\ dseq' = dseq + 1 /\ dlost' = 0
      /\ forgotten' = IF h = Dummy THEN forgotten + dlost ELSE forgotten
  BY DEF HcFill, bufs
<1>3. PICK ann \in [bufno_cons..(bufno_cons + ready) -> 0..dseq],
           at \in [0..Len(done) -> 0..dseq] : RxAnnounced(ann) /\ RxReaped(ann, at)
  BY DEF RxChained
<1>0. PICK w : w = [k \in 0..(m + 1) |-> IF k <= m THEN at[k] ELSE dseq + 1]
  OBVIOUS
<1>4. /\ h \in 0..BufMax /\ h \in InFlight /\ m \in Nat /\ m + 1 \in 1..FlightLen
      /\ Flight[m + 1] = h
  <2>1. h \in 0..BufMax /\ m \in Nat /\ m + 1 \in 1..FlightLen /\ Flight[m + 1] = h
    BY <1>1, <1>2, RxHeads, FlightDone
  <2>2. h \in InFlight
    BY <1>1, <2>1, InFlightIs
  <2> QED
    BY <2>1, <2>2
<1>5. /\ Len(done') = m + 1 /\ done'[m + 1].bno = h
      /\ \A k \in 1..m : done'[k] = done[k]
  BY <1>1, <1>2, <1>4 DEF RxSeqs
<1>6. /\ \A b \in 0..BufMax : b # h => slot'[b] = slot[b]
      /\ slot'[h].seq = dseq /\ slot'[h].lost = dlost
  BY <1>1, <1>2, <1>4 DEF RxSeqs
<1>7. /\ w \in [0..(m + 1) -> 0..dseq'] /\ w[m + 1] = dseq + 1
      /\ \A k \in 0..m : w[k] = at[k]
  <2>1. \A k \in 0..m : at[k] \in 0..dseq
    BY <1>3
  <2> QED
    BY <1>0, <1>1, <1>2, <1>4, <2>1
<1>8. \A i \in bufno_cons..(bufno_cons + ready - 1) : slot'[i % BufMax] = slot[i % BufMax]
  <2> TAKE i \in bufno_cons..(bufno_cons + ready - 1)
  <2>1. i % BufMax \in Announced /\ i \in Nat
    BY <1>1, RxPlain DEF Announced
  <2>2. i % BufMax \in 0..BufMax
    BY <2>1, UsbAssumption
  <2>3. i % BufMax # h
    BY <1>4, <2>1, RxNoOverwrite DEF NoOverwrite
  <2> QED
    BY <1>6, <2>2, <2>3
<1>9. RxAnnounced(ann)'
  BY <1>2, <1>3, <1>8 DEF RxAnnounced
<1>10. ASSUME NEW k \in 1..m, done[k].bno # Dummy
       PROVE  slot'[done[k].bno] = slot[done[k].bno]
  <2>1. k \in 1..FlightLen /\ Flight[k] = done[k].bno /\ k < m + 1 /\ k \in Real
    BY <1>1, <1>4, <1>10, FlightDone DEF Real
  <2>2. CASE h = Dummy
    BY <1>1, <1>6, <1>10, <2>2, RxHeads DEF RxSeqs
  <2>3. CASE h # Dummy
    <3>1. m + 1 \in Real
      BY <1>4, <2>3 DEF Real
    <3>2. done[k].bno # h
      BY <1>4, <2>1, <3>1, FlightDistinct
    <3> QED
      BY <1>1, <1>6, <3>2, RxHeads DEF RxSeqs
  <2> QED
    BY <2>2, <2>3
<1>11. at[m] \in Nat /\ dseq = at[m] + dlost
  BY <1>1, <1>3, <1>4 DEF RxReaped
<1>12. ASSUME NEW k \in 1..m
       PROVE  /\ done'[k].bno = Dummy => w[k] = w[k - 1] + 1
              /\ done'[k].bno # Dummy =>
                    /\ slot'[done'[k].bno].seq = w[k - 1] + slot'[done'[k].bno].lost
                    /\ w[k] = slot'[done'[k].bno].seq + 1
  <2>1. w[k] = at[k] /\ w[k - 1] = at[k - 1] /\ done'[k] = done[k]
    BY <1>4, <1>5, <1>7
  <2>2. /\ done[k].bno = Dummy => at[k] = at[k - 1] + 1
        /\ done[k].bno # Dummy =>
              /\ slot[done[k].bno].seq = at[k - 1] + slot[done[k].bno].lost
              /\ at[k] = slot[done[k].bno].seq + 1
    BY <1>3 DEF RxReaped
  <2> QED
    BY <1>10, <2>1, <2>2
<1>13. /\ h = Dummy => w[m + 1] = w[m] + 1
       /\ h # Dummy => slot'[h].seq = w[m] + slot'[h].lost /\ w[m + 1] = slot'[h].seq + 1
  <2>1. w[m] = at[m]
    BY <1>4, <1>7
  <2>2. h = Dummy => dlost = 0
    BY <1>1, <1>2
  <2> QED
    BY <1>6, <1>7, <1>11, <2>1, <2>2
<1>14. ASSUME NEW k \in 1..Len(done')
       PROVE  /\ done'[k].bno = Dummy => w[k] = w[k - 1] + 1
              /\ done'[k].bno # Dummy =>
                    /\ slot'[done'[k].bno].seq = w[k - 1] + slot'[done'[k].bno].lost
                    /\ w[k] = slot'[done'[k].bno].seq + 1
  <2>1. CASE k \in 1..m
    BY <1>12, <2>1
  <2>2. CASE k \notin 1..m
    <3>1. k = m + 1 /\ k - 1 = m
      BY <1>4, <1>5, <2>2
    <3> QED
      BY <1>5, <1>13, <3>1
  <2> QED
    BY <2>1, <2>2
<1>15. w[0] = ann[bufno_cons + ready] + missed
  BY <1>3, <1>4, <1>7 DEF RxReaped
<1>16. dseq' = w[Len(done')] + dlost'
  BY <1>1, <1>2, <1>5, <1>7
<1>17. RxReaped(ann, w)'
  BY <1>2, <1>14, <1>15, <1>16 DEF RxReaped
<1>18. /\ ann \in [bufno_cons'..(bufno_cons' + ready') -> 0..dseq']
       /\ w \in [0..Len(done') -> 0..dseq']
  <2>1. 0..dseq \subseteq 0..dseq'
    BY <1>1, <1>2
  <2> QED
    BY <1>2, <1>3, <1>5, <1>7, <2>1
<1> QED
  BY <1>9, <1>17, <1>18 DEF RxChained

(* A reaped packet is announced with the losses before it, or counted.     *)
LEMMA RxChainReap ==
    ASSUME RxInv, RxChained, RxClean, Callback, extra' = 0 PROVE RxChained'
<1> DEFINE b == Head(done).bno
           m == Len(done)
           e == bufno_cons + ready
<1>1. /\ RxCounts /\ RxSeqs /\ dseq \in Nat /\ missed \in Nat /\ faults = 0 /\ ~stop
      /\ bufno_cons \in Nat /\ ready \in Nat /\ extra = 0
  BY DEF RxInv, RxTypes, RxCounts, RxClean
<1>2. /\ UNCHANGED <<bufno_cons, r_ts, dseq, dlost>> /\ done # <<>> /\ done' = Tail(done)
  BY DEF Callback
<1>3. m \in Nat \ {0} /\ 1 \in 1..m /\ done[1] = Head(done) /\ b \in 0..BufMax
  BY <1>1, <1>2, RxHeads DEF RxSeqs
<1>4. Head(done).status = "completed"
  BY <1>1, <1>3 DEF RxInv, RxFilled, RxSeqs
<1>5. OnBuffer(b)
  BY <1>1, <1>4 DEF Callback
<1>6. PICK ann \in [bufno_cons..(bufno_cons + ready) -> 0..dseq],
           at \in [0..Len(done) -> 0..dseq] : RxAnnounced(ann) /\ RxReaped(ann, at)
  BY DEF RxChained
<1>0. PICK w : w = [k \in 0..(m - 1) |-> at[k + 1]]
  OBVIOUS
<1>7. Len(done') = m - 1 /\ \A k \in 1..(m - 1) : done'[k] = done[k + 1] /\ k + 1 \in 1..m
  BY <1>1, <1>2, <1>3 DEF RxSeqs
<1>8. /\ w \in [0..Len(done') -> 0..dseq'] /\ w[0] = at[1] /\ w[m - 1] = at[m]
      /\ \A k \in 1..(m - 1) : w[k] = at[k + 1] /\ w[k - 1] = at[k]
  <2>1. \A k \in 0..(m - 1) : k + 1 \in 0..m /\ at[k + 1] \in 0..dseq
    BY <1>3, <1>6
  <2> QED
    BY <1>0, <1>2, <1>3, <1>7, <2>1
<1>9. /\ at[0] \in Nat /\ at[1] \in 0..dseq /\ ann[e] \in Nat /\ at[0] = ann[e] + missed
      /\ dseq = at[m] + dlost
  <2>1. 0 \in 0..m /\ 1 \in 0..m /\ e \in bufno_cons..e
    BY <1>1, <1>3
  <2> QED
    BY <1>1, <1>6, <2>1, SMTT(30) DEF RxReaped
<1>10. ASSUME \A k \in 2..m : done[k].bno # Dummy => slot'[done[k].bno] = slot[done[k].bno]
       PROVE  \A k \in 1..Len(done') :
                /\ done'[k].bno = Dummy => w[k] = w[k - 1] + 1
                /\ done'[k].bno # Dummy =>
                      /\ slot'[done'[k].bno].seq = w[k - 1] + slot'[done'[k].bno].lost
                      /\ w[k] = slot'[done'[k].bno].seq + 1
  <2> TAKE k \in 1..Len(done')
  <2>1. /\ k \in 1..(m - 1) /\ k + 1 \in 2..m /\ k + 1 \in 1..m /\ (k + 1) - 1 = k
        /\ done'[k] = done[k + 1] /\ w[k] = at[k + 1] /\ w[k - 1] = at[k]
    BY <1>3, <1>7, <1>8
  <2>2. /\ done[k + 1].bno = Dummy => at[k + 1] = at[k] + 1
        /\ done[k + 1].bno # Dummy =>
              /\ slot[done[k + 1].bno].seq = at[k] + slot[done[k + 1].bno].lost
              /\ at[k + 1] = slot[done[k + 1].bno].seq + 1
    BY <1>6, <2>1 DEF RxReaped
  <2> QED
    BY <1>10, <2>1, <2>2
<1>11. dseq' = w[Len(done')] + dlost'
  BY <1>2, <1>7, <1>8, <1>9
<1>12. CASE b = Dummy
  <2>1. missed' = missed + 1 /\ UNCHANGED <<slot, ready>>
    <3>1. \E k \in BurstBits : /\ missed' = missed + 1 + k /\ extra' = extra + k
                              /\ UNCHANGED <<slot, ready>>
      BY <1>5, <1>12, UsbAssumption DEF OnBuffer, Dummy
    <3> QED
      BY <1>1, <3>1, UsbAssumption
  <2>2. RxAnnounced(ann)'
    BY <1>2, <1>6, <2>1 DEF RxAnnounced
  <2>3. at[1] = at[0] + 1
    <3>1. 1 - 1 = 0
      OBVIOUS
    <3> QED
      BY <1>3, <1>6, <1>12, <3>1 DEF RxReaped
  <2>4. w[0] = ann[e] + missed'
    BY <1>1, <1>8, <1>9, <2>1, <2>3
  <2>5. RxReaped(ann, w)'
    BY <1>2, <1>10, <1>11, <2>1, <2>4 DEF RxReaped
  <2> QED
    BY <1>2, <1>6, <1>8, <2>1, <2>2, <2>5 DEF RxChained
<1>13. CASE b # Dummy
  <2>1. /\ slot' = [slot EXCEPT ![b].lost = @ + missed] /\ missed' = 0 /\ ready' = ready + 1
    BY <1>3, <1>5, <1>13, UsbAssumption DEF OnBuffer, Dummy, ReadyPost
  <2>2. /\ \A c \in 0..BufMax : c # b => slot'[c] = slot[c]
        /\ slot'[b].seq = slot[b].seq /\ slot'[b].lost = slot[b].lost + missed
        /\ slot[b].lost \in Nat /\ slot[b].seq \in Int
    <3>1. slot[b] \in Packets /\ DOMAIN slot = 0..BufMax
      BY <1>1, <1>3 DEF RxSeqs
    <3>2. /\ [slot[b] EXCEPT !.lost = @ + missed].seq = slot[b].seq
          /\ [slot[b] EXCEPT !.lost = @ + missed].lost = slot[b].lost + missed
      BY <3>1 DEF Packets
    <3>3. slot' = [slot EXCEPT ![b] = [slot[b] EXCEPT !.lost = @ + missed]]
      BY <2>1
    <3>4. slot[b].lost \in Nat /\ slot[b].seq \in -1..MaxPackets
      BY <3>1 DEF Packets
    <3> QED
      BY <1>3, <3>1, <3>2, <3>3, <3>4, UsbAssumption
  <2>3. b = e % BufMax
    BY <1>1, <1>2, <1>13, OldestIsNext
  <2>4. slot[b].seq = at[0] + slot[b].lost /\ at[1] = slot[b].seq + 1
    <3>1. 1 - 1 = 0
      OBVIOUS
    <3> QED
      BY <1>3, <1>6, <1>13, <3>1 DEF RxReaped
  <2>0. PICK a : a = [i \in bufno_cons..(e + 1) |-> IF i <= e THEN ann[i] ELSE at[1]]
    OBVIOUS
  <2>5. /\ a \in [bufno_cons'..(bufno_cons' + ready') -> 0..dseq'] /\ a[e + 1] = at[1]
        /\ \A i \in bufno_cons..e : a[i] = ann[i]
    <3>1. \A i \in bufno_cons..e : ann[i] \in 0..dseq
      BY <1>6
    <3>2. bufno_cons' + ready' = e + 1 /\ e \in Nat /\ bufno_cons <= e
      BY <1>1, <1>2, <2>1
    <3> QED
      BY <1>1, <1>2, <1>9, <2>0, <3>1, <3>2
  <2>6. b \in InFlight
    <3>1. 1 \in 1..FlightLen /\ Flight[1] = b
      BY <1>1, <1>3, FlightDone
    <3> QED
      BY <1>1, <3>1, InFlightIs
  <2>7. ASSUME NEW i \in bufno_cons..(e - 1)
        PROVE  /\ slot'[i % BufMax].seq = a[i] + slot'[i % BufMax].lost
               /\ a[i + 1] = slot'[i % BufMax].seq + 1
    <3>1. i % BufMax \in Announced /\ i \in Nat
      BY <1>1 DEF Announced
    <3>2. i % BufMax \in 0..BufMax
      BY <3>1, UsbAssumption
    <3>3. i % BufMax # b
      BY <2>6, <3>1, RxNoOverwrite DEF NoOverwrite
    <3>4. slot'[i % BufMax] = slot[i % BufMax]
      BY <2>2, <3>2, <3>3
    <3>5. a[i] = ann[i] /\ a[i + 1] = ann[i + 1]
      BY <1>1, <2>5
    <3>6. /\ slot[i % BufMax].seq = ann[i] + slot[i % BufMax].lost
          /\ ann[i + 1] = slot[i % BufMax].seq + 1
      <4>1. \A j \in bufno_cons..(bufno_cons + ready - 1) :
               /\ slot[j % BufMax].seq = ann[j] + slot[j % BufMax].lost
               /\ ann[j + 1] = slot[j % BufMax].seq + 1
        BY <1>6 DEF RxAnnounced
      <4>2. i \in bufno_cons..(bufno_cons + ready - 1)
        BY <1>1, <2>7 DEF e
      <4> QED
        BY <4>1, <4>2
    <3> QED
      BY <3>4, <3>5, <3>6
  <2>8. /\ slot'[e % BufMax].seq = a[e] + slot'[e % BufMax].lost
        /\ a[e + 1] = slot'[e % BufMax].seq + 1
    <3>1. a[e] = ann[e]
      BY <1>1, <2>5
    <3> HIDE DEF e, b
    <3>2. slot'[b].seq = ann[e] + slot'[b].lost
      <4>1. slot'[b].seq = (ann[e] + missed) + slot[b].lost
        BY <1>9, <2>2, <2>4
      <4>2. slot'[b].lost = slot[b].lost + missed /\ slot[b].lost \in Nat
        BY <2>2
      <4> QED
        BY <1>1, <1>9, <4>1, <4>2, SMTT(30)
    <3>3. at[1] = slot'[b].seq + 1
      BY <2>2, <2>4
    <3> QED
      BY <2>3, <2>5, <3>1, <3>2, <3>3
  <2>9. ASSUME NEW i \in bufno_cons'..(bufno_cons' + ready' - 1)
        PROVE  /\ slot'[i % BufMax].seq = a[i] + slot'[i % BufMax].lost
               /\ a[i + 1] = slot'[i % BufMax].seq + 1
    <3>1. i \in bufno_cons..(e - 1) \/ i = e
      BY <1>1, <1>2, <2>1, SMTT(30)
    <3> QED
      BY <2>7, <2>8, <3>1
  <2>10. RxAnnounced(a)'
    <3>1. a[bufno_cons] = r_ts
      BY <1>1, <1>6, <2>5 DEF RxAnnounced
    <3> QED
      BY <1>2, <2>9, <3>1 DEF RxAnnounced
  <2>11. \A k \in 2..m : done[k].bno # Dummy => slot'[done[k].bno] = slot[done[k].bno]
    <3> SUFFICES ASSUME NEW k \in 2..m, done[k].bno # Dummy
                 PROVE  slot'[done[k].bno] = slot[done[k].bno]
      OBVIOUS
    <3>1. k \in 1..m /\ 1 < k
      BY <1>3
    <3>2. 1 \in Real /\ k \in Real /\ Flight[1] = b /\ Flight[k] = done[k].bno
      BY <1>1, <1>3, <1>13, <3>1, FlightDone DEF Real
    <3>3. done[k].bno # b
      BY <3>1, <3>2, FlightDistinct
    <3>4. done[k].bno \in 0..BufMax
      BY <1>1, <3>1, RxHeads, SMTT(30) DEF RxSeqs
    <3> QED
      BY <2>2, <3>3, <3>4
  <2>12. w[0] = a[bufno_cons' + ready'] + missed'
    <3>1. bufno_cons' + ready' = e + 1 /\ at[1] \in Nat
      BY <1>1, <1>2, <1>9, <2>1
    <3> QED
      BY <1>8, <2>1, <2>5, <3>1
  <2>13. RxReaped(a, w)'
    BY <1>10, <1>11, <2>11, <2>12 DEF RxReaped
  <2> QED
    BY <1>8, <2>5, <2>10, <2>13 DEF RxChained
<1> QED
  BY <1>12, <1>13

(* What the application takes is the packet that was due.                  *)
LEMMA RxTakes ==
    ASSUME RxInv, RxClean, RxChained, RecvWait, forgotten' = 0
    PROVE  RxChained' /\ Lossy!Deliver
<1> DEFINE b == bufno_cons % BufMax
<1>1. /\ RxCounts /\ RxSeqs /\ dseq \in Nat /\ r_ts \in Nat /\ faults = 0
      /\ bufno_cons \in Nat /\ ready \in Nat
  BY DEF RxInv, RxTypes, RxCounts, RxClean
<1>2. /\ UNCHANGED <<slot, missed, done, dseq, dlost>> /\ ready > 0
      /\ ready' = ready - 1 /\ bufno_cons' = bufno_cons + 1
  BY DEF RecvWait
<1>3. PICK ann \in [bufno_cons..(bufno_cons + ready) -> 0..dseq],
           at \in [0..Len(done) -> 0..dseq] : RxAnnounced(ann) /\ RxReaped(ann, at)
  BY DEF RxChained
<1>4. /\ bufno_cons \in bufno_cons..(bufno_cons + ready - 1)
      /\ bufno_cons' + ready' = bufno_cons + ready
  BY <1>1, <1>2
<1>5. slot[b].seq # -1
  BY <1>1, <1>4 DEF RxInv, RxFilled
<1>7. slot[b].lost \in Nat /\ slot[b].seq \in Int
  <2>1. b \in 0..BufMax
    BY <1>1, UsbAssumption
  <2>2. slot[b] \in Packets
    BY <1>1, <2>1 DEF RxSeqs
  <2> QED
    BY <2>2, UsbAssumption DEF Packets
<1>6. last' = slot[b].seq /\ r_ts' = r_ts + slot[b].lost + 1
  <2>1. slot[b] # NoPacket
    BY <1>5 DEF NoPacket
  <2>2. /\ last' = slot[b].seq /\ r_ts' = r_ts + (slot[b].lost % LostMod) + 1
        /\ forgotten' = forgotten + slot[b].lost - (slot[b].lost % LostMod)
    BY <2>1 DEF RecvWait, StreamTime
  <2>3. /\ slot[b].lost % LostMod \in Nat /\ slot[b].lost - (slot[b].lost % LostMod) \in Nat
        /\ slot[b].lost - (slot[b].lost % LostMod) = 0 => slot[b].lost % LostMod = slot[b].lost
    BY <1>7, LossTaken, Zenon
  <2> HIDE DEF b
  <2>4. slot[b].lost - (slot[b].lost % LostMod) = 0
    BY <1>7, <2>2, <2>3 DEF RxClean
  <2> QED
    BY <2>2, <2>3, <2>4
<1>8. slot[b].seq = r_ts + slot[b].lost /\ ann[bufno_cons + 1] = slot[b].seq + 1
  BY <1>3, <1>4 DEF RxAnnounced
<1>9. ann[bufno_cons + 1] \in 0..dseq
  <2>1. bufno_cons + 1 \in bufno_cons..(bufno_cons + ready)
    BY <1>1, <1>2
  <2> QED
    BY <1>3, <2>1
<1>10. Lossy!Deliver
  <2>1. slot[b].seq \in r_ts..dseq-1
    <3> HIDE DEF b
    <3>1. slot[b].seq + 1 <= dseq
      BY <1>8, <1>9
    <3> QED
      BY <1>1, <1>7, <1>8, <3>1, SMTT(30)
  <2>2. r_ts' = slot[b].seq + 1
    BY <1>1, <1>6, <1>7, <1>8
  <2> QED
    BY <1>2, <1>6, <2>1, <2>2 DEF Lossy!Deliver
<1>0. PICK a : a = [i \in (bufno_cons + 1)..(bufno_cons + ready) |-> ann[i]]
  OBVIOUS
<1>11. /\ a \in [bufno_cons'..(bufno_cons' + ready') -> 0..dseq']
       /\ \A i \in (bufno_cons + 1)..(bufno_cons + ready) : a[i] = ann[i]
  <2>1. \A i \in (bufno_cons + 1)..(bufno_cons + ready) : ann[i] \in 0..dseq
    <3>1. (bufno_cons + 1)..(bufno_cons + ready) \subseteq bufno_cons..(bufno_cons + ready)
      BY <1>1
    <3> QED
      BY <1>3, <3>1
  <2> QED
    BY <1>0, <1>2, <1>4, <2>1
<1>12. RxAnnounced(a)'
  <2>1. a[bufno_cons + 1] = r_ts'
    <3>1. bufno_cons + 1 \in (bufno_cons + 1)..(bufno_cons + ready)
      BY <1>1, <1>2
    <3> QED
      BY <1>1, <1>6, <1>7, <1>8, <1>11, <3>1
  <2>2. ASSUME NEW i \in (bufno_cons + 1)..(bufno_cons + ready - 1)
        PROVE  /\ slot[i % BufMax].seq = a[i] + slot[i % BufMax].lost
               /\ a[i + 1] = slot[i % BufMax].seq + 1
    <3>1. /\ i \in bufno_cons..(bufno_cons + ready - 1)
          /\ i \in (bufno_cons + 1)..(bufno_cons + ready)
          /\ i + 1 \in (bufno_cons + 1)..(bufno_cons + ready)
      BY <1>1
    <3>2. a[i] = ann[i] /\ a[i + 1] = ann[i + 1]
      BY <1>11, <3>1
    <3> QED
      BY <1>3, <3>1, <3>2 DEF RxAnnounced
  <2> QED
    BY <1>2, <1>4, <2>1, <2>2 DEF RxAnnounced
<1>13. RxReaped(a, at)'
  <2>1. a[bufno_cons + ready] = ann[bufno_cons + ready]
    <3>1. bufno_cons + ready \in (bufno_cons + 1)..(bufno_cons + ready)
      BY <1>1, <1>2
    <3> QED
      BY <1>11, <3>1
  <2> QED
    BY <1>2, <1>3, <1>4, <2>1 DEF RxReaped
<1>14. at \in [0..Len(done') -> 0..dseq']
  BY <1>2, <1>3
<1> QED
  BY <1>10, <1>11, <1>12, <1>13, <1>14 DEF RxChained

LEMMA RxTimesStep == RxInv /\ RxTimes /\ [Next]_vars => RxTimes'
<1> SUFFICES ASSUME RxInv, RxTimes, [Next]_vars, RxClean' PROVE RxChained'
  BY DEF RxTimes
<1>0. RxClean /\ RxChained
  BY RxCleanBefore DEF RxInv, RxTypes, RxTimes
<1>1. CASE DeviceDrop
  BY <1>0, <1>1, RxChainDrop
<1>2. CASE HcFill
  BY <1>0, <1>2, RxChainFill DEF RxClean
<1>3. CASE HcFail
  <2>1. faults' # 0
    BY <1>3 DEF HcFail, RxInv, RxTypes, RxCounts
  <2> QED
    BY <2>1 DEF RxClean
<1>4. CASE HcCancel
  BY <1>0, <1>4 DEF HcCancel, RxClean
<1>5. CASE Callback
  BY <1>0, <1>5, RxChainReap DEF RxClean
<1>6. CASE Restart
  BY <1>0, <1>6, RxChainKept DEF Restart
<1>7. CASE RecvWait
  BY <1>0, <1>7, RxTakes DEF RxClean
<1>8. CASE RecvRelease
  BY <1>0, <1>8, RxChainKept DEF RecvRelease
<1>9. CASE DeinitStop
  BY <1>9 DEF DeinitStop, RxClean
<1>10. CASE DeinitFree
  BY <1>0, <1>10 DEF DeinitFree, RxClean
<1>11. CASE UNCHANGED vars
  BY <1>0, <1>11, RxChainKept DEF vars, bufs
<1> QED
  BY <1>1, <1>2, <1>3, <1>4, <1>5, <1>6, <1>7, <1>8, <1>9, <1>10, <1>11
  DEF Next, Device, IoThread, App

LEMMA RxStepLossy ==
    RxInv /\ RxTimes /\ [Next]_vars =>
        [faults' = 0 /\ forgotten' = 0 /\ extra' = 0 =>
             Lossy!Next \/ UNCHANGED <<dseq, last, r_ts>>]_vars
<1> SUFFICES ASSUME RxInv, RxTimes, [Next]_vars, Next, faults' = 0, forgotten' = 0, extra' = 0
             PROVE  Lossy!Next \/ UNCHANGED <<dseq, last, r_ts>>
  OBVIOUS
<1>1. CASE DeviceDrop
  BY <1>1 DEF DeviceDrop, Lossy!Next, Lossy!Make
<1>2. CASE HcFill
  BY <1>2 DEF HcFill, Lossy!Next, Lossy!Make
<1>3. CASE RecvWait
  <2>1. RxClean
    BY <1>3, RxCleanBefore DEF RecvWait, RxClean, RxInv, RxTypes
  <2> QED
    BY <1>3, <2>1, RxTakes DEF RxTimes, Lossy!Next
<1>4. CASE ~DeviceDrop /\ ~HcFill /\ ~RecvWait
  BY <1>4 DEF Next, Device, IoThread, App, HcFail, HcCancel, Callback, Restart, RecvRelease,
              DeinitStop, DeinitFree
<1> QED
  BY <1>1, <1>2, <1>3, <1>4

(***************************************************************************)
(* The receive stream from the device to _sfetrx4_stream_recv: packets     *)
(* come in the order the device made them, and the stream time is the      *)
(* packet's own however many were dropped in the device, discarded into    *)
(* the dummy buffer or both: up to the first failing transfer, the first   *)
(* loss that is forgotten and the first discarded packet whose burst mask  *)
(* is added to the count.                                                  *)
(***************************************************************************)
THEOREM RxImplementsLossyStream == Spec => ImplementsLossyStream
<1>1. Init => RxInv /\ RxTimes /\ Lossy!Init
  BY RxInitInv, RxTimesInit DEF Init, Lossy!Init
<1>2. RxInv /\ RxTimes /\ [Next]_vars => RxInv' /\ RxTimes'
  BY RxInvStep, RxTimesStep
<1>3. RxInv /\ RxTimes /\ [Next]_vars =>
        [faults' = 0 /\ forgotten' = 0 /\ extra' = 0 =>
             Lossy!Next \/ UNCHANGED <<dseq, last, r_ts>>]_vars
  BY RxStepLossy
<1> QED
  BY <1>1, <1>2, <1>3, PTL DEF Spec, ImplementsLossyStream
=============================================================================
