--------------------------- MODULE UsbRegIoProofs ---------------------------
(***************************************************************************)
(* Proofs about register and bus access over USB (UsbRegIo): no transfer   *)
(* is refilled while it is in use, and reads and bus transactions return   *)
(* their own answers, for every number of threads, semaphores, calls and   *)
(* failures.                                                               *)
(*                                                                         *)
(* The semaphores that wake the readers are handed out in turn, so two     *)
(* readers can only come to wait on the same one when a whole turn passes  *)
(* while one of them is not scheduled.  What depends on that not happening *)
(* is proved from []OneReaderPerSemaphore.                                 *)
(***************************************************************************)
EXTENDS UsbRegIo, FiniteSetTheorems, TLAPS

(* No reader is overtaken by a whole turn of the semaphores rb_valid.      *)
OneReaderPerSemaphore ==
    \A t, u \in Readers :
        pc[t] = "wait" /\ pc[u] = "wait" /\ ridx[t] = ridx[u] => t = u
-----------------------------------------------------------------------------
(* Types                                                                   *)

Commands == [thread : Threads, call : Nat]
Reads == [thread : Readers, call : Nat]
Slots == [thread : Readers, call : 0..RbThreads-1]
Answers == [thread : BusUsers, call : Nat]

SemTypes ==
    /\ tr_regout_a \in 0..1 /\ tr_rb_a \in 0..1
    /\ rb_valid \in [0..RbThreads-1 -> Nat] /\ rb_valid_idx \in Nat
    /\ faults \in 0..MaxFaults

WireTypes ==
    /\ regout \in Commands \cup {None}
    /\ rb \in Slots \cup {None} /\ reaped \in Slots \cup {None}
    /\ answers \in Seq(Reads)
    /\ odata \in [Readers -> Reads \cup {None}]
    /\ ridx \in [Readers -> 0..RbThreads-1]

BusTypes ==
    /\ events \in SUBSET Answers
    /\ interrupts \in [BusUsers -> Nat]

ThreadTypes ==
    /\ pc \in [Threads -> {"idle", "regout", "rb", "wait", "ntfy", "msi", "value"}]
    /\ \A t \in Readers : pc[t] \in {"idle", "regout", "rb", "wait"}
    /\ calls \in [Threads -> Nat]
    /\ \A t \in Threads : calls[t] <= MaxCalls(t)

FlagTypes ==
    /\ ntfy \in BOOLEAN
    /\ alone \in [Readers -> BOOLEAN]
    /\ missed \in [BusUsers -> BOOLEAN]

RegTypes == SemTypes /\ WireTypes /\ BusTypes /\ ThreadTypes /\ FlagTypes
-----------------------------------------------------------------------------
(* Waking the readers                                                      *)

(* The readback transfer belongs to a reader that waits for it; so does    *)
(* the one whose callback is about to wake its reader, which has its data. *)
Posted == rb # None => pc[rb.thread] = "wait" /\ ridx[rb.thread] = rb.call

Reaped ==
    reaped # None => /\ pc[reaped.thread] = "wait" /\ ridx[reaped.thread] = reaped.call
                     /\ odata[reaped.thread] # None
                     /\ rb.thread # reaped.thread

(* Reader t has its data, and nothing is on the way to it any more.        *)
Served(t) ==
    pc[t] = "wait" /\ odata[t] # None /\ rb.thread # t /\ reaped.thread # t

(* A semaphore is posted at most once, for the reader that waits on it.    *)
Tokens ==
    \A k \in 0..RbThreads-1 :
        /\ rb_valid[k] <= 1
        /\ rb_valid[k] = 1 => \E t \in Readers : Served(t) /\ ridx[t] = k

Wakes == Posted /\ Reaped /\ Tokens
-----------------------------------------------------------------------------
(* Reads and their answers                                                 *)

One(b) == IF b THEN 1 ELSE 0

(* The readers that sent their command and did not offer a buffer yet.     *)
Sending == {t \in Readers : pc[t] = "rb"}

(* Until something fails there is an answer, or a command on its way, for  *)
(* every reader that is owed one.                                          *)
Owed ==
    faults = 0 =>
        Cardinality(Sending) + One(rb # None) = Len(answers) + One(regout.thread \in Readers)

(* No command of a reader and no answer is on the way, or only c is.       *)
NoRead == answers = <<>> /\ regout.thread \notin Readers
OnlyRead(c) ==
    \/ answers = <<>> /\ regout = c
    \/ answers = <<c>> /\ regout.thread \notin Readers

(* A read that no other overlaps: what is on the way at each of its steps. *)
AloneStage(t) ==
    /\ \A u \in Readers \ {t} : pc[u] = "idle"
    /\ pc[t] = "regout" => NoRead
    /\ pc[t] = "rb" => OnlyRead(Command(t, calls[t]))
    /\ pc[t] = "wait" => \/ rb # None /\ OnlyRead(Command(t, calls[t]))
                         \/ rb = None /\ odata[t] = Command(t, calls[t])

Alone ==
    faults = 0 => \A t \in Readers : alone[t] /\ pc[t] # "idle" => AloneStage(t)
-----------------------------------------------------------------------------
(* Bus transactions and their answers                                      *)

\* The commands of core t that are answered and not notified.
Unnotified(t) == {e \in events : e.thread = t}

(* Until a transaction of the core ended without its answer, only the      *)
(* command of the current transaction is on the way; once it was notified  *)
(* its answer is stored.                                                   *)
BusStage(t) ==
    LET c == Command(t, calls[t]) IN
    /\ pc[t] \in {"idle", "regout"} =>
           regout.thread # t /\ Unnotified(t) = {} /\ interrupts[t] = 0
    /\ pc[t] \in {"ntfy", "msi"} =>
           \/ /\ interrupts[t] = 0 /\ Unnotified(t) \subseteq {c}
              /\ regout.thread = t => regout = c /\ Unnotified(t) = {}
           \/ /\ interrupts[t] = 1 /\ Unnotified(t) = {} /\ regout.thread # t
              /\ rbvalue[t] = c
    /\ pc[t] = "value" =>
           /\ regout.thread # t /\ Unnotified(t) = {} /\ interrupts[t] = 0
           /\ rbvalue[t] = c

BusPlaces == \A t \in BusUsers : pc[t] \in {"idle", "regout", "ntfy", "msi", "value"}

BusOrder == \A t \in BusUsers : ~missed[t] => BusStage(t)

(* An event semaphore is posted at most once for each command sent.        *)
CallsOf(E, t) == {e.call : e \in {f \in E : f.thread = t}}

EventCalls(t) == CallsOf(events, t)

Sent(t) == calls[t] - One(pc[t] = "regout")

EventBound ==
    \A t \in BusUsers :
        /\ EventCalls(t) \subseteq 0..calls[t]
        /\ regout.thread = t => regout.call \in 0..calls[t]
        /\ interrupts[t] + Cardinality(EventCalls(t)) + One(regout.thread = t) <= Sent(t)
-----------------------------------------------------------------------------
(* The inductive invariants: what always holds, and what holds as long as  *)
(* no two readers share a semaphore.                                       *)
RegInv == RegTypes /\ TransferOwned /\ BusPlaces /\ BusOrder /\ EventBound

ReadInv == Wakes /\ Owed /\ Alone
-----------------------------------------------------------------------------
(* The commands of a core that a notification tells of, and those it       *)
(* leaves, are those there were.                                           *)
LEMMA SplitCalls ==
    ASSUME NEW E \in SUBSET Answers, NEW S \in SUBSET E, NEW t \in BusUsers, NEW n \in Nat,
           CallsOf(E, t) \subseteq 0..n
    PROVE  /\ Cardinality(CallsOf(E, t)) \in Nat
           /\ Cardinality(CallsOf(S, t)) \in Nat /\ Cardinality(CallsOf(E \ S, t)) \in Nat
           /\ Cardinality(CallsOf(S, t)) + Cardinality(CallsOf(E \ S, t))
                = Cardinality(CallsOf(E, t))
<1>1. IsFiniteSet(0..n)
  BY FS_Interval
<1>2. CallsOf(S, t) \cup CallsOf(E \ S, t) = CallsOf(E, t)
  BY DEF CallsOf
<1>3. CallsOf(S, t) \cap CallsOf(E \ S, t) = {}
  <2> SUFFICES ASSUME NEW e \in S, NEW f \in E \ S, e.thread = t, f.thread = t, e.call = f.call
               PROVE  FALSE
    BY DEF CallsOf
  <2>1. e = [thread |-> e.thread, call |-> e.call] /\ f = [thread |-> f.thread, call |-> f.call]
    BY DEF Answers
  <2> QED
    BY <2>1
<1>4. IsFiniteSet(CallsOf(E, t))
  BY <1>1, FS_Subset
<1>5. IsFiniteSet(CallsOf(S, t)) /\ IsFiniteSet(CallsOf(E \ S, t))
  BY <1>2, <1>4, FS_Subset
<1>6. Cardinality(CallsOf(E, t)) =
        Cardinality(CallsOf(S, t)) + Cardinality(CallsOf(E \ S, t)) - Cardinality({})
  BY <1>2, <1>3, <1>5, FS_Union
<1> QED
  BY <1>4, <1>5, <1>6, FS_EmptySet, FS_CardinalityType

(* Each part of the invariant is preserved by every step.                  *)
LEMMA SemTypesStep == SemTypes /\ WireTypes /\ TransferOwned /\ [Next]_vars => SemTypes'
<1> SUFFICES ASSUME SemTypes, WireTypes, TransferOwned, [Next]_vars PROVE SemTypes'
  OBVIOUS
<1> USE RegIoAssumption DEF SemTypes, TransferOwned
<1>1. ASSUME NEW t \in Threads, Call(t) PROVE SemTypes'
  BY <1>1 DEF Call, sems, wire, bus
<1>2. ASSUME NEW t \in Threads, PostRegout(t) PROVE SemTypes'
  BY <1>2 DEF PostRegout, sems, wire, bus
<1>3. ASSUME NEW t \in Readers, PostRb(t) PROVE SemTypes'
  BY <1>3 DEF PostRb, sems, wire, bus
<1>4. ASSUME NEW t \in Readers, ReadReturn(t) PROVE SemTypes'
  BY <1>4 DEF ReadReturn, sems, wire, bus, WireTypes, Woken
<1>5. ASSUME NEW t \in BusUsers, PostNtfy(t) PROVE SemTypes'
  BY <1>5 DEF PostNtfy, sems, wire, bus
<1>6. ASSUME NEW t \in BusUsers, WaitMsi(t) PROVE SemTypes'
  BY <1>6 DEF WaitMsi, sems, wire, bus
<1>7. ASSUME NEW t \in BusUsers, BusReturn(t) PROVE SemTypes'
  BY <1>7 DEF BusReturn, sems, wire, bus
<1>8. CASE RegoutDone
  BY <1>8 DEF RegoutDone, sems, wire, bus, RegoutFree
<1>9. CASE RbDone
  BY <1>9 DEF RbDone, sems, wire, bus
<1>10. CASE RbWake
  BY <1>10 DEF RbWake, sems, wire, bus, WireTypes, Slots, None
<1>11. CASE NtfyDone
  BY <1>11 DEF NtfyDone, sems, wire, bus
<1>12. CASE UNCHANGED vars
  BY <1>12 DEF vars, sems, wire, bus
<1> QED
  BY <1>1, <1>2, <1>3, <1>4, <1>5, <1>6, <1>7, <1>8, <1>9, <1>10, <1>11, <1>12 DEF Next

LEMMA ThreadTypesStep == ThreadTypes /\ [Next]_vars => ThreadTypes'
<1> SUFFICES ASSUME ThreadTypes, [Next]_vars PROVE ThreadTypes'
  OBVIOUS
<1> USE RegIoAssumption DEF ThreadTypes, Threads
<1>1. ASSUME NEW t \in Threads, Call(t) PROVE ThreadTypes'
  BY <1>1 DEF Call, sems, wire, bus, MaxCalls
<1>2. ASSUME NEW t \in Threads, PostRegout(t) PROVE ThreadTypes'
  BY <1>2 DEF PostRegout, sems, wire, bus, AfterRegout
<1>3. ASSUME NEW t \in Readers, PostRb(t) PROVE ThreadTypes'
  BY <1>3 DEF PostRb, sems, wire, bus
<1>4. ASSUME NEW t \in Readers, ReadReturn(t) PROVE ThreadTypes'
  BY <1>4 DEF ReadReturn, sems, wire, bus
<1>5. ASSUME NEW t \in BusUsers, PostNtfy(t) PROVE ThreadTypes'
  BY <1>5 DEF PostNtfy, sems, wire, bus
<1>6. ASSUME NEW t \in BusUsers, WaitMsi(t) PROVE ThreadTypes'
  BY <1>6 DEF WaitMsi, sems, wire, bus
<1>7. ASSUME NEW t \in BusUsers, BusReturn(t) PROVE ThreadTypes'
  BY <1>7 DEF BusReturn, sems, wire, bus
<1>8. CASE RegoutDone
  BY <1>8 DEF RegoutDone, sems, wire, bus
<1>9. CASE RbDone
  BY <1>9 DEF RbDone, sems, wire, bus
<1>10. CASE RbWake
  BY <1>10 DEF RbWake, sems, wire, bus
<1>11. CASE NtfyDone
  BY <1>11 DEF NtfyDone, sems, wire, bus
<1>12. CASE UNCHANGED vars
  BY <1>12 DEF vars, sems, wire, bus
<1> QED
  BY <1>1, <1>2, <1>3, <1>4, <1>5, <1>6, <1>7, <1>8, <1>9, <1>10, <1>11, <1>12 DEF Next

LEMMA FlagTypesStep == FlagTypes /\ [Next]_vars => FlagTypes'
<1> SUFFICES ASSUME FlagTypes, [Next]_vars PROVE FlagTypes'
  OBVIOUS
<1> USE DEF FlagTypes
<1>1. ASSUME NEW t \in Threads, Call(t) PROVE FlagTypes'
  BY <1>1 DEF Call, sems, wire, bus
<1>2. ASSUME NEW t \in Threads, PostRegout(t) PROVE FlagTypes'
  BY <1>2 DEF PostRegout, sems, wire, bus
<1>3. ASSUME NEW t \in Readers, PostRb(t) PROVE FlagTypes'
  BY <1>3 DEF PostRb, sems, wire, bus
<1>4. ASSUME NEW t \in Readers, ReadReturn(t) PROVE FlagTypes'
  BY <1>4 DEF ReadReturn, sems, wire, bus
<1>5. ASSUME NEW t \in BusUsers, PostNtfy(t) PROVE FlagTypes'
  BY <1>5 DEF PostNtfy, sems, wire, bus
<1>6. ASSUME NEW t \in BusUsers, WaitMsi(t) PROVE FlagTypes'
  BY <1>6 DEF WaitMsi, sems, wire, bus
<1>7. ASSUME NEW t \in BusUsers, BusReturn(t) PROVE FlagTypes'
  BY <1>7 DEF BusReturn, sems, wire, bus
<1>8. CASE RegoutDone
  BY <1>8 DEF RegoutDone, sems, wire, bus
<1>9. CASE RbDone
  BY <1>9 DEF RbDone, sems, wire, bus
<1>10. CASE RbWake
  BY <1>10 DEF RbWake, sems, wire, bus
<1>11. CASE NtfyDone
  BY <1>11 DEF NtfyDone, sems, wire, bus
<1>12. CASE UNCHANGED vars
  BY <1>12 DEF vars, sems, wire, bus
<1> QED
  BY <1>1, <1>2, <1>3, <1>4, <1>5, <1>6, <1>7, <1>8, <1>9, <1>10, <1>11, <1>12 DEF Next

LEMMA OwnedStep == SemTypes /\ TransferOwned /\ [Next]_vars => TransferOwned'
<1> SUFFICES ASSUME SemTypes, TransferOwned, [Next]_vars PROVE TransferOwned'
  OBVIOUS
<1> USE DEF SemTypes, TransferOwned
<1>1. ASSUME NEW t \in Threads, Call(t) PROVE TransferOwned'
  BY <1>1 DEF Call, sems, wire, bus
<1>2. ASSUME NEW t \in Threads, PostRegout(t) PROVE TransferOwned'
  BY <1>2 DEF PostRegout, sems, wire, bus
<1>3. ASSUME NEW t \in Readers, PostRb(t) PROVE TransferOwned'
  BY <1>3 DEF PostRb, sems, wire, bus
<1>4. ASSUME NEW t \in Readers, ReadReturn(t) PROVE TransferOwned'
  BY <1>4 DEF ReadReturn, sems, wire, bus
<1>5. ASSUME NEW t \in BusUsers, PostNtfy(t) PROVE TransferOwned'
  BY <1>5 DEF PostNtfy, sems, wire, bus
<1>6. ASSUME NEW t \in BusUsers, WaitMsi(t) PROVE TransferOwned'
  BY <1>6 DEF WaitMsi, sems, wire, bus
<1>7. ASSUME NEW t \in BusUsers, BusReturn(t) PROVE TransferOwned'
  BY <1>7 DEF BusReturn, sems, wire, bus
<1>8. CASE RegoutDone
  BY <1>8 DEF RegoutDone, sems, wire, bus
<1>9. CASE RbDone
  BY <1>9 DEF RbDone, sems, wire, bus
<1>10. CASE RbWake
  BY <1>10 DEF RbWake, sems, wire, bus
<1>11. CASE NtfyDone
  BY <1>11 DEF NtfyDone, sems, wire, bus
<1>12. CASE UNCHANGED vars
  BY <1>12 DEF vars, sems, wire, bus
<1> QED
  BY <1>1, <1>2, <1>3, <1>4, <1>5, <1>6, <1>7, <1>8, <1>9, <1>10, <1>11, <1>12 DEF Next

(* Parts of a sequence.                                                    *)
LEMMA HeadTailTypes == \A S : \A s \in Seq(S) : s # <<>> => Head(s) \in S /\ Tail(s) \in Seq(S)
  OBVIOUS

LEMMA WireTypesStep == SemTypes /\ WireTypes /\ ThreadTypes /\ [Next]_vars => WireTypes'
<1> SUFFICES ASSUME SemTypes, WireTypes, ThreadTypes, [Next]_vars PROVE WireTypes'
  OBVIOUS
<1> USE RegIoAssumption DEF WireTypes, Commands, Reads, Slots, None, Command
<1>1. ASSUME NEW t \in Threads, Call(t) PROVE WireTypes'
  BY <1>1 DEF Call, sems, wire, bus
<1>2. ASSUME NEW t \in Threads, PostRegout(t) PROVE WireTypes'
  BY <1>2 DEF PostRegout, sems, wire, bus, ThreadTypes
<1>3. ASSUME NEW t \in Readers, PostRb(t) PROVE WireTypes'
  <2>1. Ridx(rb_valid_idx) \in 0..RbThreads-1
    BY DEF SemTypes, Ridx
  <2> QED
    BY <1>3, <2>1, SMTT(30) DEF PostRb, bus
<1>4. ASSUME NEW t \in Readers, ReadReturn(t) PROVE WireTypes'
  BY <1>4 DEF ReadReturn, sems, wire, bus
<1>5. ASSUME NEW t \in BusUsers, PostNtfy(t) PROVE WireTypes'
  BY <1>5 DEF PostNtfy, sems, wire, bus
<1>6. ASSUME NEW t \in BusUsers, WaitMsi(t) PROVE WireTypes'
  BY <1>6 DEF WaitMsi, sems, wire, bus
<1>7. ASSUME NEW t \in BusUsers, BusReturn(t) PROVE WireTypes'
  BY <1>7 DEF BusReturn, sems, wire, bus
<1>8. CASE RegoutDone
  <2>1. regout.thread \in Readers => Append(answers, regout) \in Seq(Reads)
    BY <1>8 DEF RegoutDone
  <2>2. regout' = None /\ UNCHANGED <<rb, reaped, odata, ridx>>
    BY <1>8 DEF RegoutDone
  <2>3. answers' \in Seq(Reads)
    BY <1>8, <2>1 DEF RegoutDone
  <2> QED
    BY <2>2, <2>3
<1>9. CASE RbDone
  <2>1. answers # <<>> => Head(answers) \in Reads /\ Tail(answers) \in Seq(Reads)
    BY Zenon, HeadTailTypes DEF WireTypes
  <2>2. rb \in Slots /\ rb' = None /\ UNCHANGED <<regout, ridx>>
    BY <1>9 DEF RbDone
  <2>3. reaped' \in Slots \cup {None}
    BY <1>9, <2>2 DEF RbDone
  <2>4. answers' \in Seq(Reads)
    BY <1>9, <2>1 DEF RbDone
  <2>5. odata' \in [Readers -> Reads \cup {None}]
    <3>1. rb.thread \in Readers
      BY <2>2
    <3>2. CASE answers # <<>> /\ odata' = [odata EXCEPT ![rb.thread] = Head(answers)]
      <4> HIDE DEF Reads, Slots, None
      <4> QED
        BY <2>1, <3>1, <3>2
    <3>3. CASE odata' = odata
      BY <3>3
    <3> QED
      BY <1>9, <3>2, <3>3 DEF RbDone
  <2> QED
    BY <2>2, <2>3, <2>4, <2>5
<1>10. CASE RbWake
  BY <1>10 DEF RbWake, sems, wire, bus
<1>11. CASE NtfyDone
  BY <1>11 DEF NtfyDone, sems, wire, bus
<1>12. CASE UNCHANGED vars
  BY <1>12 DEF vars, sems, wire, bus
<1> QED
  BY <1>1, <1>2, <1>3, <1>4, <1>5, <1>6, <1>7, <1>8, <1>9, <1>10, <1>11, <1>12 DEF Next

LEMMA BusTypesStep ==
    WireTypes /\ BusTypes /\ ThreadTypes /\ EventBound /\ [Next]_vars
        => BusTypes'
<1> SUFFICES ASSUME WireTypes, BusTypes, ThreadTypes, EventBound, [Next]_vars PROVE BusTypes'
  OBVIOUS
<1> USE RegIoAssumption DEF BusTypes, Answers, None, Command
<1>1. ASSUME NEW t \in Threads, Call(t) PROVE BusTypes'
  BY <1>1 DEF Call, sems, wire, bus
<1>2. ASSUME NEW t \in Threads, PostRegout(t) PROVE BusTypes'
  BY <1>2 DEF PostRegout, sems, wire, bus
<1>3. ASSUME NEW t \in Readers, PostRb(t) PROVE BusTypes'
  BY <1>3 DEF PostRb, sems, wire, bus
<1>4. ASSUME NEW t \in Readers, ReadReturn(t) PROVE BusTypes'
  BY <1>4 DEF ReadReturn, sems, wire, bus
<1>5. ASSUME NEW t \in BusUsers, PostNtfy(t) PROVE BusTypes'
  BY <1>5 DEF PostNtfy, sems, wire, bus
<1>6. ASSUME NEW t \in BusUsers, WaitMsi(t) PROVE BusTypes'
  BY <1>6 DEF WaitMsi, sems, wire, bus, MsiTaken
<1>7. ASSUME NEW t \in BusUsers, BusReturn(t) PROVE BusTypes'
  BY <1>7 DEF BusReturn, sems, wire, bus
<1>8. CASE RegoutDone
  BY <1>8 DEF RegoutDone, sems, wire, bus, WireTypes, Commands, None
<1>9. CASE RbDone
  BY <1>9 DEF RbDone, sems, wire, bus
<1>10. CASE RbWake
  BY <1>10 DEF RbWake, sems, wire, bus
<1>11. CASE NtfyDone
  <2>1. CASE faults' = faults + 1 /\ UNCHANGED <<events, interrupts>>
    BY <2>1
  <2>2. ASSUME NEW S \in SUBSET events, events' = events \ S,
               interrupts' = [t \in BusUsers |->
                                 interrupts[t] + Cardinality(CallsOf(S, t))]
        PROVE  BusTypes'
    <3>1. \A t \in BusUsers : Cardinality(CallsOf(S, t)) \in Nat
      BY SplitCalls DEF EventBound, EventCalls, ThreadTypes, Threads
    <3> QED
      BY <2>2, <3>1
  <2> QED
    BY <1>11, <2>1, <2>2 DEF NtfyDone, CallsOf
<1>12. CASE UNCHANGED vars
  BY <1>12 DEF vars, sems, wire, bus
<1> QED
  BY <1>1, <1>2, <1>3, <1>4, <1>5, <1>6, <1>7, <1>8, <1>9, <1>10, <1>11, <1>12 DEF Next

LEMMA BusPlacesStep == ThreadTypes /\ BusPlaces /\ [Next]_vars => BusPlaces'
<1> SUFFICES ASSUME ThreadTypes, BusPlaces, [Next]_vars PROVE BusPlaces'
  OBVIOUS
<1> USE RegIoAssumption DEF BusPlaces, ThreadTypes, Threads
<1>1. ASSUME NEW t \in Threads, Call(t) PROVE BusPlaces'
  BY <1>1 DEF Call, sems, wire, bus
<1>2. ASSUME NEW t \in Threads, PostRegout(t) PROVE BusPlaces'
  BY <1>2 DEF PostRegout, sems, wire, bus, AfterRegout
<1>3. ASSUME NEW t \in Readers, PostRb(t) PROVE BusPlaces'
  BY <1>3 DEF PostRb, sems, wire, bus
<1>4. ASSUME NEW t \in Readers, ReadReturn(t) PROVE BusPlaces'
  BY <1>4 DEF ReadReturn, sems, wire, bus
<1>5. ASSUME NEW t \in BusUsers, PostNtfy(t) PROVE BusPlaces'
  BY <1>5 DEF PostNtfy, sems, wire, bus
<1>6. ASSUME NEW t \in BusUsers, WaitMsi(t) PROVE BusPlaces'
  BY <1>6 DEF WaitMsi, sems, wire, bus
<1>7. ASSUME NEW t \in BusUsers, BusReturn(t) PROVE BusPlaces'
  BY <1>7 DEF BusReturn, sems, wire, bus
<1>8. CASE RegoutDone
  BY <1>8 DEF RegoutDone, sems, wire, bus
<1>9. CASE RbDone
  BY <1>9 DEF RbDone, sems, wire, bus
<1>10. CASE RbWake
  BY <1>10 DEF RbWake, sems, wire, bus
<1>11. CASE NtfyDone
  BY <1>11 DEF NtfyDone, sems, wire, bus
<1>12. CASE UNCHANGED vars
  BY <1>12 DEF vars, sems, wire, bus
<1> QED
  BY <1>1, <1>2, <1>3, <1>4, <1>5, <1>6, <1>7, <1>8, <1>9, <1>10, <1>11, <1>12 DEF Next

(* What counts there are for a core.                                       *)
LEMMA EventCount ==
    ASSUME RegTypes, EventBound, NEW u \in BusUsers
    PROVE  /\ u \in Threads /\ calls[u] \in Nat /\ interrupts[u] \in Nat
           /\ IsFiniteSet(EventCalls(u)) /\ Cardinality(EventCalls(u)) \in Nat
<1>1. u \in Threads /\ calls[u] \in Nat /\ interrupts[u] \in Nat
  BY DEF RegTypes, ThreadTypes, BusTypes, Threads
<1>2. EventCalls(u) \in SUBSET (0..calls[u])
  BY DEF EventBound
<1>3. IsFiniteSet(EventCalls(u))
  <2>1. IsFiniteSet(0..calls[u])
    BY <1>1, FS_Interval
  <2> QED
    BY <1>2, <2>1, FS_Subset
<1> QED
  BY <1>1, <1>3, FS_CardinalityType

(* A command is counted once on its way: as a call, in the transfer, as an *)
(* event, in the semaphore.                                                *)
LEMMA EventBoundStep ==
    RegTypes /\ TransferOwned /\ EventBound /\ [Next]_vars
        => EventBound'
<1> SUFFICES ASSUME RegTypes, TransferOwned, EventBound, [Next]_vars PROVE EventBound'
  OBVIOUS
<1>1. ASSUME NEW t \in Threads, Call(t) PROVE EventBound'
  <2>1. /\ UNCHANGED <<interrupts, events, regout>> /\ pc[t] = "idle" /\ t \in Threads
        /\ calls' = [calls EXCEPT ![t] = @ + 1] /\ pc' = [pc EXCEPT ![t] = "regout"]
    BY <1>1 DEF Call, wire, bus
  <2>2. \A u \in BusUsers : Sent(u)' = Sent(u) /\ calls'[u] \in Nat /\ calls'[u] >= calls[u]
    BY <2>1, EventCount DEF Sent, One, RegTypes, ThreadTypes
  <2>3. \A u \in BusUsers : 0..calls[u] \subseteq 0..calls'[u]
    BY <2>2, EventCount
  <2> QED
    BY <2>1, <2>2, <2>3 DEF EventBound, EventCalls
<1>2. ASSUME NEW t \in Threads, PostRegout(t) PROVE EventBound'
  <2>1. /\ UNCHANGED <<calls, interrupts, events>> /\ regout = None /\ pc[t] = "regout"
        /\ \/ regout' = Command(t, calls[t]) /\ pc' = [pc EXCEPT ![t] = AfterRegout(t)]
           \/ regout' = regout /\ pc' = [pc EXCEPT ![t] = "idle"]
    BY <1>2 DEF PostRegout, bus, TransferOwned, RegTypes, SemTypes
  <2>2. AfterRegout(t) # "regout"
    BY RegIoAssumption DEF AfterRegout, Threads
  <2>3. \A u \in BusUsers : One(regout.thread = u) = 0
    BY <2>1, RegIoAssumption DEF One, None
  <2>4. ASSUME NEW u \in BusUsers
        PROVE  /\ One(regout.thread = u)' - One(pc[u] = "regout") <= -One(pc[u] = "regout")'
               /\ regout'.thread = u => regout'.call = calls[u]
    <3>1. CASE u = t
      BY <2>1, <2>2, <3>1, RegIoAssumption DEF One, Command, None, RegTypes, ThreadTypes
    <3>2. CASE u # t
      <4>1. pc'[u] = pc[u]
        BY <2>1, <3>2 DEF RegTypes, ThreadTypes, Threads
      <4>2. regout'.thread # u
        BY <2>1, <3>2, RegIoAssumption DEF Command, None
      <4> QED
        BY <4>1, <4>2 DEF One
    <3> QED
      BY <3>1, <3>2
  <2>5. ASSUME NEW u \in BusUsers
        PROVE  /\ EventCalls(u)' \subseteq 0..calls[u]'
               /\ (regout.thread = u => regout.call \in 0..calls[u])'
               /\ (interrupts[u] + Cardinality(EventCalls(u)) + One(regout.thread = u) <= Sent(u))'
    <3>1. calls[u] \in Nat /\ interrupts[u] \in Nat /\ Cardinality(EventCalls(u)) \in Nat
      BY EventCount
    <3>2. /\ One(pc[u] = "regout") \in Nat /\ One(pc[u] = "regout")' \in Nat
          /\ One(regout.thread = u)' \in Nat
      BY DEF One
    <3>3. EventCalls(u)' = EventCalls(u) /\ calls'[u] = calls[u] /\ interrupts'[u] = interrupts[u]
      BY <2>1 DEF EventCalls
    <3> QED
      BY <2>3, <2>4, <3>1, <3>2, <3>3 DEF EventBound, Sent
  <2> QED
    BY <2>5 DEF EventBound
<1>3. ASSUME NEW t \in Readers, PostRb(t) PROVE EventBound'
  <2>1. UNCHANGED <<calls, interrupts, events, regout>>
    BY <1>3 DEF PostRb, sems, wire, bus
  <2>2. \A u \in BusUsers : (pc'[u] = "regout") = (pc[u] = "regout")
    BY <1>3 DEF PostRb, RegTypes, ThreadTypes, Threads
  <2> QED
    BY <2>1, <2>2 DEF EventBound, EventCalls, Sent
<1>4. ASSUME NEW t \in Readers, ReadReturn(t) PROVE EventBound'
  <2>1. UNCHANGED <<calls, interrupts, events, regout>>
    BY <1>4 DEF ReadReturn, sems, wire, bus
  <2>2. \A u \in BusUsers : (pc'[u] = "regout") = (pc[u] = "regout")
    BY <1>4 DEF ReadReturn, RegTypes, ThreadTypes, Threads
  <2> QED
    BY <2>1, <2>2 DEF EventBound, EventCalls, Sent
<1>5. ASSUME NEW t \in BusUsers, PostNtfy(t) PROVE EventBound'
  <2>1. UNCHANGED <<calls, interrupts, events, regout>>
    BY <1>5 DEF PostNtfy, sems, wire, bus
  <2>2. \A u \in BusUsers : (pc'[u] = "regout") = (pc[u] = "regout")
    BY <1>5 DEF PostNtfy, RegTypes, ThreadTypes, Threads
  <2> QED
    BY <2>1, <2>2 DEF EventBound, EventCalls, Sent
<1>6. ASSUME NEW t \in BusUsers, WaitMsi(t) PROVE EventBound'
  <2>1. UNCHANGED <<calls, events, regout>>
    BY <1>6 DEF WaitMsi, wire
  <2>2. \A u \in BusUsers : (pc'[u] = "regout") = (pc[u] = "regout")
    BY <1>6 DEF WaitMsi, RegTypes, ThreadTypes, Threads
  <2>3. \A u \in BusUsers : interrupts'[u] \in Nat /\ interrupts'[u] <= interrupts[u]
    BY <1>6 DEF WaitMsi, MsiTaken, RegTypes, BusTypes
  <2>4. \A u \in BusUsers : One(regout.thread = u) \in Nat /\ Sent(u) \in Int /\ Sent(u)' = Sent(u)
    BY <2>1, <2>2, EventCount DEF One, Sent
  <2> QED
    BY <2>1, <2>3, <2>4, EventCount DEF EventBound, EventCalls
<1>7. ASSUME NEW t \in BusUsers, BusReturn(t) PROVE EventBound'
  <2>1. UNCHANGED <<calls, interrupts, events, regout>>
    BY <1>7 DEF BusReturn, sems, wire, bus
  <2>2. \A u \in BusUsers : (pc'[u] = "regout") = (pc[u] = "regout")
    BY <1>7 DEF BusReturn, RegTypes, ThreadTypes, Threads
  <2> QED
    BY <2>1, <2>2 DEF EventBound, EventCalls, Sent
<1>8. CASE RegoutDone
  <2>1. /\ UNCHANGED <<calls, interrupts, pc>> /\ regout' = None /\ regout \in Commands
        /\ \/ regout.thread \in BusUsers /\ events' = events \cup {regout}
           \/ events' = events
    BY <1>8 DEF RegoutDone, RegTypes, WireTypes
  <2>2. ASSUME NEW u \in BusUsers
        PROVE  /\ EventCalls(u)' \subseteq 0..calls[u]'
               /\ (regout.thread = u => regout.call \in 0..calls[u])'
               /\ (interrupts[u] + Cardinality(EventCalls(u)) + One(regout.thread = u) <= Sent(u))'
    <3>1. /\ calls[u] \in Nat /\ interrupts[u] \in Nat /\ IsFiniteSet(EventCalls(u))
          /\ Cardinality(EventCalls(u)) \in Nat
      BY EventCount
    <3>2. regout'.thread # u /\ One(regout.thread = u)' = 0
      BY <2>1, RegIoAssumption DEF None, One
    <3>3. Sent(u)' = Sent(u) /\ Sent(u) \in Int
      BY <2>1, <3>1 DEF Sent, One
    <3>4. CASE regout.thread = u /\ events' = events \cup {regout}
      <4>1. EventCalls(u)' = EventCalls(u) \cup {regout.call}
        BY <3>4 DEF EventCalls, CallsOf
      <4>2. Cardinality(EventCalls(u) \cup {regout.call})
              = IF regout.call \in EventCalls(u) THEN Cardinality(EventCalls(u))
                ELSE Cardinality(EventCalls(u)) + 1
        BY <3>1, FS_AddElement
      <4>3. One(regout.thread = u) = 1 /\ regout.call \in 0..calls[u]
        BY <3>4 DEF One, EventBound
      <4> QED
        <5>1. Cardinality(EventCalls(u)') \in Nat
              /\ Cardinality(EventCalls(u)') <= Cardinality(EventCalls(u)) + 1
          BY <3>1, <4>1, <4>2
        <5>2. interrupts[u] + Cardinality(EventCalls(u)) + 1 <= Sent(u)
          BY <4>3 DEF EventBound
        <5>3. EventCalls(u)' \subseteq 0..calls[u]'
          BY <2>1, <4>1, <4>3 DEF EventBound
        <5> QED
          BY <2>1, <3>1, <3>2, <3>3, <5>1, <5>2, <5>3
    <3>5. CASE regout.thread # u \/ events' = events
      <4>1. EventCalls(u)' = EventCalls(u)
        BY <2>1, <3>5 DEF EventCalls, CallsOf
      <4>2. One(regout.thread = u) \in Nat
        BY DEF One
      <4> QED
        BY <2>1, <3>1, <3>2, <3>3, <4>1, <4>2 DEF EventBound
    <3> QED
      BY <2>1, <3>4, <3>5
  <2> QED
    BY <2>2 DEF EventBound
<1>9. CASE RbDone
  <2>1. UNCHANGED <<calls, interrupts, events, regout>>
    BY <1>9 DEF RbDone, sems, wire, bus
  <2>2. \A u \in BusUsers : (pc'[u] = "regout") = (pc[u] = "regout")
    BY <1>9 DEF RbDone, RegTypes, ThreadTypes, Threads
  <2> QED
    BY <2>1, <2>2 DEF EventBound, EventCalls, Sent
<1>10. CASE RbWake
  <2>1. UNCHANGED <<calls, interrupts, events, regout>>
    BY <1>10 DEF RbWake, sems, wire, bus
  <2>2. \A u \in BusUsers : (pc'[u] = "regout") = (pc[u] = "regout")
    BY <1>10 DEF RbWake, RegTypes, ThreadTypes, Threads
  <2> QED
    BY <2>1, <2>2 DEF EventBound, EventCalls, Sent
<1>11. CASE NtfyDone
  <2>1. UNCHANGED <<calls, regout, pc>>
    BY <1>11 DEF NtfyDone, wire
  <2>2. CASE UNCHANGED <<events, interrupts>>
    BY <2>1, <2>2 DEF EventBound, EventCalls, Sent
  <2>3. ASSUME NEW S \in SUBSET events, events' = events \ S,
               interrupts' = [t \in BusUsers |->
                                 interrupts[t] + Cardinality(CallsOf(S, t))]
        PROVE  EventBound'
    <3> SUFFICES ASSUME NEW u \in BusUsers
                 PROVE  /\ EventCalls(u)' \subseteq EventCalls(u)
                        /\ interrupts'[u] + Cardinality(EventCalls(u)')
                             = interrupts[u] + Cardinality(EventCalls(u))
      BY <2>1 DEF EventBound, Sent
    <3>1. EventCalls(u)' = CallsOf(events \ S, u)
      BY <2>3 DEF EventCalls
    <3>2. /\ Cardinality(CallsOf(S, u)) \in Nat /\ Cardinality(CallsOf(events \ S, u)) \in Nat
          /\ Cardinality(CallsOf(S, u)) + Cardinality(CallsOf(events \ S, u))
               = Cardinality(EventCalls(u))
      <4>1. events \in SUBSET Answers /\ CallsOf(events, u) \subseteq 0..calls[u]
        BY DEF EventBound, EventCalls, RegTypes, BusTypes
      <4>2. calls[u] \in Nat
        BY EventCount
      <4> QED
        BY <4>1, <4>2, SplitCalls DEF EventCalls
    <3>3. interrupts[u] \in Nat /\ interrupts'[u] = interrupts[u] + Cardinality(CallsOf(S, u))
      BY <2>3, EventCount
    <3>4. CallsOf(events \ S, u) \subseteq EventCalls(u)
      BY DEF EventCalls, CallsOf
    <3>5. interrupts[u] + Cardinality(CallsOf(S, u)) + Cardinality(CallsOf(events \ S, u))
            = interrupts[u] + Cardinality(EventCalls(u))
      BY <3>2, <3>3
    <3> QED
      BY <3>1, <3>3, <3>4, <3>5
  <2> QED
    BY <1>11, <2>2, <2>3 DEF NtfyDone, CallsOf
<1>12. CASE UNCHANGED vars
  BY <1>12 DEF vars, sems, wire, bus, EventBound, EventCalls, Sent
<1> QED
  BY <1>1, <1>2, <1>3, <1>4, <1>5, <1>6, <1>7, <1>8, <1>9, <1>10, <1>11, <1>12 DEF Next

(* A step that concerns another thread.                                    *)
LEMMA BusFrame ==
    ASSUME BusOrder, NEW u \in BusUsers, ~missed'[u] => ~missed[u],
           pc'[u] = pc[u], calls'[u] = calls[u], interrupts'[u] = interrupts[u],
           rbvalue'[u] = rbvalue[u], Unnotified(u)' = Unnotified(u),
           regout.thread = u \/ regout'.thread = u => regout' = regout
    PROVE  ~missed'[u] => BusStage(u)'
<1>1. ~missed'[u] => BusStage(u)
  BY DEF BusOrder
<1>2. regout'.thread = u <=> regout.thread = u
  OBVIOUS
<1> QED
  BY <1>1, <1>2 DEF BusStage, Command

LEMMA MaxSingle == \A n \in Nat : Max({n}) = n
  BY DEF Max

(* No step brings an answer of an earlier transaction to a core that       *)
(* missed none.                                                            *)
LEMMA BusOrderStep ==
    RegTypes /\ TransferOwned /\ BusPlaces /\ BusOrder /\ [Next]_vars
        => BusOrder'
<1> SUFFICES ASSUME RegTypes, TransferOwned, BusPlaces, BusOrder, [Next]_vars PROVE BusOrder'
  OBVIOUS
<1>1. ASSUME NEW t \in Threads, Call(t) PROVE BusOrder'
  <2> SUFFICES ASSUME NEW u \in BusUsers PROVE ~missed'[u] => BusStage(u)'
    BY DEF BusOrder
  <2>1. CASE u # t
    <3>1. /\ pc'[u] = pc[u] /\ calls'[u] = calls[u] /\ interrupts'[u] = interrupts[u]
          /\ rbvalue'[u] = rbvalue[u] /\ missed'[u] = missed[u] /\ events' = events
      BY <1>1, <2>1 DEF Call, sems, wire, bus,
             RegTypes, ThreadTypes, FlagTypes, BusTypes, Threads
    <3>2. regout.thread = u \/ regout'.thread = u => regout' = regout
      BY <1>1, <2>1 DEF Call, wire
    <3> QED
      BY <3>1, <3>2, BusFrame DEF Unnotified
  <2>2. CASE u = t
    <3>1. /\ pc[t] = "idle" /\ pc'[t] = "regout" /\ UNCHANGED <<regout, events, interrupts, missed>>
      BY <1>1 DEF Call, wire, bus, RegTypes, ThreadTypes
    <3> QED
      BY <2>2, <3>1 DEF BusOrder, BusStage, Unnotified
  <2> QED
    BY <2>1, <2>2
<1>2. ASSUME NEW t \in Threads, PostRegout(t) PROVE BusOrder'
  <2> SUFFICES ASSUME NEW u \in BusUsers PROVE ~missed'[u] => BusStage(u)'
    BY DEF BusOrder
  <2>1. CASE u # t
    <3>1. /\ pc'[u] = pc[u] /\ calls'[u] = calls[u] /\ interrupts'[u] = interrupts[u]
          /\ rbvalue'[u] = rbvalue[u] /\ missed'[u] = missed[u] /\ events' = events
      BY <1>2, <2>1 DEF PostRegout, sems, wire, bus,
             RegTypes, ThreadTypes, FlagTypes, BusTypes, Threads
    <3>2. regout.thread = u \/ regout'.thread = u => regout' = regout
      BY <1>2, <2>1, RegIoAssumption
         DEF PostRegout, wire, Command, TransferOwned, RegTypes, SemTypes, None
    <3> QED
      BY <3>1, <3>2, BusFrame DEF Unnotified
  <2>2. CASE u = t
    <3>1. /\ pc[t] = "regout" /\ UNCHANGED <<calls, events, interrupts, missed>>
          /\ \/ pc'[t] = "ntfy" /\ regout' = Command(t, calls[t])
             \/ pc'[t] = "idle" /\ regout' = regout
      BY <1>2, <2>2, RegIoAssumption DEF PostRegout, AfterRegout, bus, RegTypes, ThreadTypes
    <3> QED
      BY <2>2, <3>1 DEF BusOrder, BusStage, Unnotified, Command
  <2> QED
    BY <2>1, <2>2
<1>3. ASSUME NEW t \in Readers, PostRb(t) PROVE BusOrder'
  <2> SUFFICES ASSUME NEW u \in BusUsers PROVE ~missed'[u] => BusStage(u)'
    BY DEF BusOrder
  <2>1. /\ pc'[u] = pc[u] /\ calls'[u] = calls[u] /\ interrupts'[u] = interrupts[u]
        /\ rbvalue'[u] = rbvalue[u] /\ missed'[u] = missed[u]
        /\ regout' = regout /\ events' = events
    BY <1>3, RegIoAssumption DEF PostRb, sems, wire, bus, RegTypes, ThreadTypes, Threads
  <2> QED
    BY <2>1, BusFrame DEF Unnotified
<1>4. ASSUME NEW t \in Readers, ReadReturn(t) PROVE BusOrder'
  <2> SUFFICES ASSUME NEW u \in BusUsers PROVE ~missed'[u] => BusStage(u)'
    BY DEF BusOrder
  <2>1. /\ pc'[u] = pc[u] /\ calls'[u] = calls[u] /\ interrupts'[u] = interrupts[u]
        /\ rbvalue'[u] = rbvalue[u] /\ missed'[u] = missed[u]
        /\ regout' = regout /\ events' = events
    BY <1>4, RegIoAssumption DEF ReadReturn, sems, wire, bus, RegTypes, ThreadTypes, Threads
  <2> QED
    BY <2>1, BusFrame DEF Unnotified
<1>5. ASSUME NEW t \in BusUsers, PostNtfy(t) PROVE BusOrder'
  <2> SUFFICES ASSUME NEW u \in BusUsers PROVE ~missed'[u] => BusStage(u)'
    BY DEF BusOrder
  <2>1. CASE u # t
    <3>1. /\ pc'[u] = pc[u] /\ calls'[u] = calls[u] /\ interrupts'[u] = interrupts[u]
          /\ rbvalue'[u] = rbvalue[u] /\ missed'[u] = missed[u] /\ events' = events
      BY <1>5, <2>1 DEF PostNtfy, sems, wire, bus,
             RegTypes, ThreadTypes, FlagTypes, BusTypes, Threads
    <3>2. regout.thread = u \/ regout'.thread = u => regout' = regout
      BY <1>5, <2>1 DEF PostNtfy, wire
    <3> QED
      BY <3>1, <3>2, BusFrame DEF Unnotified
  <2>2. CASE u = t
    <3>1. /\ pc[t] = "ntfy" /\ UNCHANGED <<calls, events, interrupts, rbvalue, regout>>
          /\ \/ pc'[t] = "msi" /\ missed' = missed
             \/ pc'[t] = "idle" /\ missed'[t] = TRUE
      BY <1>5, <2>2 DEF PostNtfy, wire, RegTypes, ThreadTypes, FlagTypes, Threads
    <3> QED
      BY <2>2, <3>1 DEF BusOrder, BusStage, Unnotified, Command
  <2> QED
    BY <2>1, <2>2
<1>6. ASSUME NEW t \in BusUsers, WaitMsi(t) PROVE BusOrder'
  <2> SUFFICES ASSUME NEW u \in BusUsers PROVE ~missed'[u] => BusStage(u)'
    BY DEF BusOrder
  <2>1. CASE u # t
    <3>1. /\ pc'[u] = pc[u] /\ calls'[u] = calls[u] /\ interrupts'[u] = interrupts[u]
          /\ rbvalue'[u] = rbvalue[u] /\ missed'[u] = missed[u] /\ events' = events
      BY <1>6, <2>1 DEF WaitMsi, sems, wire, bus,
             RegTypes, ThreadTypes, FlagTypes, BusTypes, Threads
    <3>2. regout.thread = u \/ regout'.thread = u => regout' = regout
      BY <1>6, <2>1 DEF WaitMsi, wire
    <3> QED
      BY <3>1, <3>2, BusFrame DEF Unnotified
  <2>2. CASE u = t
    <3>1. /\ pc[t] = "msi" /\ UNCHANGED <<calls, events, rbvalue, regout>>
          /\ \/ /\ pc'[t] = "value" /\ missed' = missed /\ interrupts[t] > 0
                /\ interrupts'[t] = interrupts[t] - 1
             \/ pc'[t] = "idle" /\ missed'[t] = TRUE
      BY <1>6, <2>2 DEF WaitMsi, MsiTaken, wire, RegTypes, ThreadTypes, FlagTypes, BusTypes, Threads
    <3> QED
      BY <2>2, <3>1 DEF BusOrder, BusStage, Unnotified, Command
  <2> QED
    BY <2>1, <2>2
<1>7. ASSUME NEW t \in BusUsers, BusReturn(t) PROVE BusOrder'
  <2> SUFFICES ASSUME NEW u \in BusUsers PROVE ~missed'[u] => BusStage(u)'
    BY DEF BusOrder
  <2>1. CASE u # t
    <3>1. /\ pc'[u] = pc[u] /\ calls'[u] = calls[u] /\ interrupts'[u] = interrupts[u]
          /\ rbvalue'[u] = rbvalue[u] /\ missed'[u] = missed[u] /\ events' = events
      BY <1>7, <2>1 DEF BusReturn, sems, wire, bus,
             RegTypes, ThreadTypes, FlagTypes, BusTypes, Threads
    <3>2. regout.thread = u \/ regout'.thread = u => regout' = regout
      BY <1>7, <2>1 DEF BusReturn, wire
    <3> QED
      BY <3>1, <3>2, BusFrame DEF Unnotified
  <2>2. CASE u = t
    <3>1. /\ pc[t] = "value" /\ pc'[t] = "idle"
          /\ UNCHANGED <<calls, events, interrupts, rbvalue, regout, missed>>
      BY <1>7, <2>2 DEF BusReturn, bus, wire, RegTypes, ThreadTypes, Threads
    <3> QED
      BY <2>2, <3>1 DEF BusOrder, BusStage, Unnotified, Command
  <2> QED
    BY <2>1, <2>2
<1>8. CASE RegoutDone
  <2> SUFFICES ASSUME NEW u \in BusUsers PROVE ~missed'[u] => BusStage(u)'
    BY DEF BusOrder
  <2>1. /\ UNCHANGED <<pc, calls, interrupts, rbvalue, missed>> /\ regout' = None
        /\ \/ regout.thread \in BusUsers /\ events' = events \cup {regout}
           \/ events' = events
    BY <1>8 DEF RegoutDone
  <2>2. regout'.thread # u
    BY <2>1, RegIoAssumption DEF None
  <2>3. CASE regout.thread # u
    <3>1. Unnotified(u)' = Unnotified(u)
      BY <2>1, <2>3 DEF Unnotified
    <3> QED
      BY <2>1, <2>2, <2>3, <3>1, BusFrame
  <2>4. CASE regout.thread = u
    <3>1. Unnotified(u)' = Unnotified(u) \/ Unnotified(u)' = Unnotified(u) \cup {regout}
      BY <2>1, <2>4 DEF Unnotified
    <3> QED
      BY <2>1, <2>2, <2>4, <3>1 DEF BusOrder, BusStage, BusPlaces, Command
  <2> QED
    BY <2>3, <2>4
<1>9. CASE RbDone
  <2> SUFFICES ASSUME NEW u \in BusUsers PROVE ~missed'[u] => BusStage(u)'
    BY DEF BusOrder
  <2>1. /\ pc'[u] = pc[u] /\ calls'[u] = calls[u] /\ interrupts'[u] = interrupts[u]
        /\ rbvalue'[u] = rbvalue[u] /\ missed'[u] = missed[u]
        /\ regout' = regout /\ events' = events
    BY <1>9, RegIoAssumption DEF RbDone, sems, wire, bus, RegTypes, ThreadTypes, Threads
  <2> QED
    BY <2>1, BusFrame DEF Unnotified
<1>10. CASE RbWake
  <2> SUFFICES ASSUME NEW u \in BusUsers PROVE ~missed'[u] => BusStage(u)'
    BY DEF BusOrder
  <2>1. /\ pc'[u] = pc[u] /\ calls'[u] = calls[u] /\ interrupts'[u] = interrupts[u]
        /\ rbvalue'[u] = rbvalue[u] /\ missed'[u] = missed[u]
        /\ regout' = regout /\ events' = events
    BY <1>10, RegIoAssumption DEF RbWake, sems, wire, bus, RegTypes, ThreadTypes, Threads
  <2> QED
    BY <2>1, BusFrame DEF Unnotified
<1>11. CASE NtfyDone
  <2> SUFFICES ASSUME NEW u \in BusUsers PROVE ~missed'[u] => BusStage(u)'
    BY DEF BusOrder
  <2>1. UNCHANGED <<pc, calls, missed, regout>>
    BY <1>11 DEF NtfyDone, wire
  <2>2. CASE UNCHANGED <<events, interrupts, rbvalue>>
    BY <2>1, <2>2, BusFrame DEF Unnotified
  <2>3. ASSUME NEW S \in SUBSET events, events' = events \ S,
               interrupts'[u] = interrupts[u] + Cardinality(CallsOf(S, u)),
               rbvalue'[u] = IF CallsOf(S, u) = {} THEN rbvalue[u]
                             ELSE Command(u, Max(CallsOf(S, u)))
        PROVE  ~missed'[u] => BusStage(u)'
    <3>1. interrupts[u] \in Nat /\ calls[u] \in Nat
      BY DEF RegTypes, BusTypes, ThreadTypes, Threads
    <3>2. CASE \A e \in S : e.thread # u
      <4>1. CallsOf(S, u) = {} /\ Unnotified(u)' = Unnotified(u)
        BY <2>3, <3>2 DEF CallsOf, Unnotified
      <4>2. interrupts'[u] = interrupts[u]
        BY <2>3, <3>1, <4>1, FS_EmptySet
      <4> QED
        BY <2>1, <2>3, <4>1, <4>2, BusFrame
    <3>3. ASSUME NEW e \in S, e.thread = u, ~missed'[u] PROVE BusStage(u)'
      <4>1. e \in Unnotified(u) /\ BusStage(u)
        BY <2>1, <3>3 DEF Unnotified, BusOrder
      <4>2. /\ pc[u] \in {"ntfy", "msi"} /\ interrupts[u] = 0
            /\ Unnotified(u) = {Command(u, calls[u])} /\ regout.thread # u
        BY <4>1 DEF BusStage, BusPlaces
      <4>3. e = Command(u, calls[u]) /\ \A f \in S : f.thread = u => f = e
        BY <4>1, <4>2 DEF Unnotified
      <4>4. CallsOf(S, u) = {calls[u]}
        BY <3>3, <4>3 DEF CallsOf, Command
      <4>5. interrupts'[u] = 1 /\ rbvalue'[u] = Command(u, calls[u])
        <5>1. Cardinality({calls[u]}) = 1 /\ Max({calls[u]}) = calls[u] /\ {calls[u]} # {}
          BY <3>1, MaxSingle, FS_Singleton
        <5> QED
          BY <2>3, <4>2, <4>4, <5>1
      <4>6. Unnotified(u)' = {}
        BY <2>3, <4>2, <4>3 DEF Unnotified
      <4> QED
        BY <2>1, <4>2, <4>5, <4>6 DEF BusStage, Command
    <3> QED
      BY <3>2, <3>3
  <2> QED
    BY <1>11, <2>2, <2>3 DEF NtfyDone, CallsOf
<1>12. CASE UNCHANGED vars
  BY <1>12 DEF vars, sems, wire, bus, BusOrder, BusStage, Unnotified
<1> QED
  BY <1>1, <1>2, <1>3, <1>4, <1>5, <1>6, <1>7, <1>8, <1>9, <1>10, <1>11, <1>12 DEF Next

(* A buffer offered for a readback is a reader's.                          *)
LEMMA SlotThread ==
    ASSUME RegTypes
    PROVE  /\ rb # None => rb.thread \in Readers /\ rb.call \in 0..RbThreads-1
           /\ reaped # None => reaped.thread \in Readers /\ reaped.call \in 0..RbThreads-1
  BY DEF RegTypes, WireTypes, Slots

(* The semaphores.  That readers do not share one is needed when a reader  *)
(* takes its token and when the callback posts one.                        *)
LEMMA WakesStep ==
    RegTypes /\ TransferOwned /\ OneReaderPerSemaphore /\ Wakes /\ [Next]_vars
        => Wakes'
<1> SUFFICES ASSUME RegTypes, TransferOwned, OneReaderPerSemaphore, Wakes, [Next]_vars PROVE Wakes'
  OBVIOUS
<1> USE DEF Wakes
<1>1. ASSUME NEW t \in Threads, Call(t) PROVE Wakes'
  <2>1. /\ UNCHANGED <<rb, reaped, rb_valid, ridx>> /\ pc[t] = "idle"
        /\ pc' = [pc EXCEPT ![t] = "regout"]
        /\ odata' = odata \/ odata' = [odata EXCEPT ![t] = None]
    BY <1>1 DEF Call, sems, wire
  <2>2. \A u \in Readers : pc[u] = "wait" => pc'[u] = "wait" /\ odata'[u] = odata[u]
    BY <2>1 DEF RegTypes, ThreadTypes, WireTypes, Threads
  <2> QED
    BY <2>1, <2>2, SlotThread DEF Posted, Reaped, Tokens, Served
<1>2. ASSUME NEW t \in Threads, PostRegout(t) PROVE Wakes'
  <2>1. UNCHANGED <<rb, reaped, rb_valid, ridx, odata>>
    BY <1>2 DEF PostRegout, sems, wire
  <2>2. \A u \in Readers : pc[u] = "wait" => pc'[u] = "wait"
    BY <1>2, RegIoAssumption DEF PostRegout, RegTypes, ThreadTypes, Threads
  <2> QED
    BY <2>1, <2>2, SlotThread DEF Posted, Reaped, Tokens, Served
<1>3. ASSUME NEW t \in Readers, PostRb(t) PROVE Wakes'
  <2>1. UNCHANGED <<reaped, rb_valid, odata>> /\ rb = None /\ pc[t] = "rb"
    BY <1>3 DEF PostRb, TransferOwned, RegTypes, SemTypes
  <2>2. \A u \in Readers \ {t} : pc'[u] = pc[u] /\ ridx'[u] = ridx[u]
    BY <1>3 DEF PostRb, RegTypes, ThreadTypes, WireTypes, Threads
  <2>3. \/ rb' = None
        \/ rb' = Command(t, ridx'[t]) /\ pc'[t] = "wait"
    BY <1>3 DEF PostRb, RegTypes, ThreadTypes, WireTypes, Threads, TransferOwned, SemTypes
  <2>4. Posted'
    BY <2>3 DEF Posted, Command
  <2>5. Reaped'
    BY <2>1, <2>2, <2>3, SlotThread, RegIoAssumption DEF Reaped, Command, None
  <2>6. \A u \in Readers : Served(u) => Served(u)' /\ ridx'[u] = ridx[u]
    BY <2>1, <2>2, <2>3, RegIoAssumption DEF Served, Command, None
  <2> QED
    BY <2>1, <2>4, <2>5, <2>6 DEF Tokens
<1>4. ASSUME NEW t \in Readers, ReadReturn(t) PROVE Wakes'
  <2>1. UNCHANGED <<rb, reaped, odata, ridx>> /\ pc[t] = "wait" /\ rb_valid[ridx[t]] > 0
    BY <1>4 DEF ReadReturn, wire, Woken
  <2>2. ridx[t] \in 0..RbThreads-1
    BY DEF RegTypes, WireTypes
  <2>3. rb_valid' = [rb_valid EXCEPT ![ridx[t]] = rb_valid[ridx[t]] - 1]
    BY <1>4 DEF ReadReturn
  <2>4. Served(t) /\ rb_valid[ridx[t]] = 1
    <3>1. rb_valid[ridx[t]] \in Nat
      BY <2>2 DEF RegTypes, SemTypes
    <3>2. rb_valid[ridx[t]] = 1
      BY <2>1, <2>2, <3>1 DEF Tokens
    <3> QED
      BY <2>1, <2>2, <3>2 DEF Tokens, OneReaderPerSemaphore, Served
  <2>5. \A u \in Readers \ {t} : pc'[u] = pc[u]
    BY <1>4 DEF ReadReturn, RegTypes, ThreadTypes, Threads
  <2>6. Posted' /\ Reaped'
    BY <2>1, <2>4, <2>5, SlotThread DEF Posted, Reaped, Served
  <2>7. ASSUME NEW k \in 0..RbThreads-1
        PROVE  /\ rb_valid'[k] <= 1
               /\ rb_valid'[k] = 1 => \E u \in Readers : Served(u)' /\ ridx'[u] = k
    <3>1. CASE k = ridx[t]
      BY <2>2, <2>3, <2>4, <3>1 DEF RegTypes, SemTypes
    <3>2. CASE k # ridx[t]
      <4>1. rb_valid'[k] = rb_valid[k]
        BY <2>2, <2>3, <3>2 DEF RegTypes, SemTypes
      <4> QED
        BY <2>1, <2>5, <3>2, <4>1 DEF Tokens, Served
    <3> QED
      BY <3>1, <3>2
  <2> QED
    BY <2>6, <2>7 DEF Tokens
<1>5. ASSUME NEW t \in BusUsers, PostNtfy(t) PROVE Wakes'
  <2>1. UNCHANGED <<rb, reaped, rb_valid, ridx, odata>>
    BY <1>5 DEF PostNtfy, sems, wire
  <2>2. \A u \in Readers : pc[u] = "wait" => pc'[u] = "wait"
    BY <1>5, RegIoAssumption DEF PostNtfy, RegTypes, ThreadTypes, Threads
  <2> QED
    BY <2>1, <2>2, SlotThread DEF Posted, Reaped, Tokens, Served
<1>6. ASSUME NEW t \in BusUsers, WaitMsi(t) PROVE Wakes'
  <2>1. UNCHANGED <<rb, reaped, rb_valid, ridx, odata>>
    BY <1>6 DEF WaitMsi, sems, wire
  <2>2. \A u \in Readers : pc[u] = "wait" => pc'[u] = "wait"
    BY <1>6, RegIoAssumption DEF WaitMsi, RegTypes, ThreadTypes, Threads
  <2> QED
    BY <2>1, <2>2, SlotThread DEF Posted, Reaped, Tokens, Served
<1>7. ASSUME NEW t \in BusUsers, BusReturn(t) PROVE Wakes'
  <2>1. UNCHANGED <<rb, reaped, rb_valid, ridx, odata>>
    BY <1>7 DEF BusReturn, sems, wire
  <2>2. \A u \in Readers : pc[u] = "wait" => pc'[u] = "wait"
    BY <1>7, RegIoAssumption DEF BusReturn, RegTypes, ThreadTypes, Threads
  <2> QED
    BY <2>1, <2>2, SlotThread DEF Posted, Reaped, Tokens, Served
<1>8. CASE RegoutDone
  <2>1. UNCHANGED <<rb, reaped, rb_valid, ridx, odata>>
    BY <1>8 DEF RegoutDone, sems, wire
  <2>2. \A u \in Readers : pc[u] = "wait" => pc'[u] = "wait"
    BY <1>8, RegIoAssumption DEF RegoutDone, RegTypes, ThreadTypes, Threads
  <2> QED
    BY <2>1, <2>2, SlotThread DEF Posted, Reaped, Tokens, Served
<1>9. CASE RbDone
  <2>1. /\ UNCHANGED <<rb_valid, pc, ridx>> /\ rb # None /\ reaped = None /\ rb' = None
        /\ \/ /\ answers # <<>> /\ reaped' = rb
              /\ odata' = [odata EXCEPT ![rb.thread] = Head(answers)]
           \/ UNCHANGED <<odata, reaped>>
    BY <1>9 DEF RbDone
  <2>2. rb.thread \in Readers /\ Posted
    BY <2>1, SlotThread
  <2>3. answers # <<>> => Head(answers) # None
    <3>1. answers # <<>> => Head(answers) \in Reads
      BY HeadTailTypes DEF RegTypes, WireTypes
    <3> QED
      BY <3>1, RegIoAssumption DEF Reads, None
  <2>4. Posted'
    BY <2>1 DEF Posted
  <2>5. Reaped'
    BY <2>1, <2>2, <2>3, RegIoAssumption DEF Reaped, Posted, None, RegTypes, WireTypes
  <2>6. \A u \in Readers : Served(u) => Served(u)'
    BY <2>1, <2>2, RegIoAssumption DEF Served, None, RegTypes, WireTypes
  <2> QED
    BY <2>1, <2>4, <2>5, <2>6 DEF Tokens
<1>10. CASE RbWake
  <2>1. /\ UNCHANGED <<rb, pc, ridx, odata>> /\ reaped # None /\ reaped' = None
        /\ rb_valid' = [rb_valid EXCEPT ![reaped.call] = rb_valid[reaped.call] + 1]
    BY <1>10 DEF RbWake
  <2>2. /\ reaped.thread \in Readers /\ reaped.call \in 0..RbThreads-1
        /\ pc[reaped.thread] = "wait" /\ ridx[reaped.thread] = reaped.call
        /\ odata[reaped.thread] # None /\ rb.thread # reaped.thread
    BY <2>1, SlotThread DEF Reaped
  <2>3. rb_valid[reaped.call] = 0
    <3>1. rb_valid[reaped.call] \in Nat
      BY <2>2 DEF RegTypes, SemTypes
    <3>2. rb_valid[reaped.call] # 1
      BY <2>2 DEF Tokens, Served, OneReaderPerSemaphore
    <3> QED
      BY <2>2, <3>1, <3>2 DEF Tokens
  <2>4. Posted' /\ Reaped'
    BY <2>1, SlotThread DEF Posted, Reaped
  <2>5. PICK w \in Readers : w = reaped.thread
    BY <2>2
  <2>6. Served(w)' /\ ridx'[w] = reaped.call /\ \A u \in Readers : Served(u) => Served(u)'
    <3>1. \A u \in Readers : u # "none"
      BY RegIoAssumption
    <3> QED
      BY <2>1, <2>2, <2>5, <3>1 DEF Served, None
  <2>7. ASSUME NEW k \in 0..RbThreads-1
        PROVE  /\ rb_valid'[k] <= 1
               /\ rb_valid'[k] = 1 => \E u \in Readers : Served(u)' /\ ridx'[u] = k
    <3>1. CASE k = reaped.call
      BY <2>1, <2>2, <2>3, <2>6, <3>1 DEF RegTypes, SemTypes
    <3>2. CASE k # reaped.call
      <4>1. rb_valid'[k] = rb_valid[k]
        BY <2>1, <2>2, <3>2 DEF RegTypes, SemTypes
      <4> QED
        BY <2>1, <2>6, <4>1 DEF Tokens
    <3> QED
      BY <3>1, <3>2
  <2> QED
    BY <2>4, <2>7 DEF Tokens
<1>11. CASE NtfyDone
  <2>1. UNCHANGED <<rb, reaped, rb_valid, ridx, odata>>
    BY <1>11 DEF NtfyDone, sems, wire
  <2>2. \A u \in Readers : pc[u] = "wait" => pc'[u] = "wait"
    BY <1>11, RegIoAssumption DEF NtfyDone, RegTypes, ThreadTypes, Threads
  <2> QED
    BY <2>1, <2>2, SlotThread DEF Posted, Reaped, Tokens, Served
<1>12. CASE UNCHANGED vars
  BY <1>12 DEF vars, sems, wire, bus, Posted, Reaped, Tokens, Served
<1> QED
  BY <1>1, <1>2, <1>3, <1>4, <1>5, <1>6, <1>7, <1>8, <1>9, <1>10, <1>11, <1>12 DEF Next

LEMMA SendingFinite == IsFiniteSet(Sending) /\ Cardinality(Sending) \in Nat
<1>1. Sending \in SUBSET Readers
  BY DEF Sending
<1> QED
  BY <1>1, RegIoAssumption, FS_Subset, FS_CardinalityType

(* Every answer on the way is owed to a reader.                            *)
LEMMA OwedStep == RegTypes /\ TransferOwned /\ Owed /\ [Next]_vars => Owed'
<1> SUFFICES ASSUME RegTypes, TransferOwned, Owed, [Next]_vars PROVE Owed'
  OBVIOUS
<1>1. ASSUME NEW t \in Threads, Call(t) PROVE Owed'
  <2>1. UNCHANGED <<rb, answers, regout>> /\ (faults' = 0 => faults = 0)
    BY <1>1 DEF Call, sems, wire, RegTypes, SemTypes
  <2>2. Sending' = Sending
    BY <1>1, RegIoAssumption DEF Call, Sending, RegTypes, ThreadTypes, Threads
  <2> QED
    BY <2>1, <2>2 DEF Owed, One
<1>2. ASSUME NEW t \in Threads, PostRegout(t) PROVE Owed'
  <2> SUFFICES ASSUME faults' = 0
               PROVE  Cardinality(Sending') + One(rb # None)'
                        = Len(answers') + One(regout.thread \in Readers)'
    BY DEF Owed
  <2>1. /\ UNCHANGED <<rb, answers>> /\ faults = 0 /\ regout = None /\ pc[t] = "regout"
        /\ regout' = Command(t, calls[t]) /\ pc' = [pc EXCEPT ![t] = AfterRegout(t)]
    BY <1>2 DEF PostRegout, TransferOwned, RegTypes, SemTypes
  <2>2. /\ Cardinality(Sending) \in Nat /\ Len(answers) \in Nat /\ One(rb # None) \in Nat
        /\ Cardinality(Sending) + One(rb # None) = Len(answers)
    BY <2>1, SendingFinite, RegIoAssumption DEF Owed, One, None, RegTypes, WireTypes
  <2>3. CASE t \in Readers
    <3>1. Sending' = Sending \cup {t} /\ t \notin Sending
      <4>1. AfterRegout(t) = "rb"
        BY <2>3, RegIoAssumption DEF AfterRegout
      <4> QED
        BY <2>1, <2>3, <4>1 DEF Sending, RegTypes, ThreadTypes, Threads
    <3>2. Cardinality(Sending') = Cardinality(Sending) + 1
      BY <3>1, SendingFinite, FS_AddElement
    <3>3. One(regout.thread \in Readers)' = 1 /\ One(rb # None)' = One(rb # None)
      BY <2>1, <2>3 DEF One, Command
    <3> QED
      BY <2>1, <2>2, <3>2, <3>3
  <2>4. CASE t \notin Readers
    <3>1. Sending' = Sending
      BY <2>1, <2>4 DEF Sending, RegTypes, ThreadTypes, Threads
    <3>2. One(regout.thread \in Readers)' = 0 /\ One(rb # None)' = One(rb # None)
      BY <2>1, <2>4 DEF One, Command
    <3> QED
      BY <2>1, <2>2, <3>1, <3>2
  <2> QED
    BY <2>3, <2>4
<1>3. ASSUME NEW t \in Readers, PostRb(t) PROVE Owed'
  <2> SUFFICES ASSUME faults' = 0
               PROVE  Cardinality(Sending') + One(rb # None)'
                        = Len(answers') + One(regout.thread \in Readers)'
    BY DEF Owed
  <2>1. /\ UNCHANGED <<regout, answers>> /\ faults = 0 /\ rb = None /\ pc[t] = "rb"
        /\ rb'.thread = t /\ pc' = [pc EXCEPT ![t] = "wait"]
    BY <1>3 DEF PostRb, TransferOwned, RegTypes, SemTypes, Command
  <2>2. One(rb # None) = 0 /\ One(rb # None)' = 1
    BY <2>1, RegIoAssumption DEF One, None
  <2>3. Sending' = Sending \ {t} /\ t \in Sending
    BY <2>1 DEF Sending, RegTypes, ThreadTypes, Threads
  <2>4. Cardinality(Sending') = Cardinality(Sending) - 1
    BY <2>3, SendingFinite, FS_RemoveElement
  <2>5. One(regout.thread \in Readers)' = One(regout.thread \in Readers)
    BY <2>1 DEF One
  <2> QED
    BY <2>1, <2>2, <2>4, <2>5, SendingFinite DEF Owed
<1>4. ASSUME NEW t \in Readers, ReadReturn(t) PROVE Owed'
  <2>1. UNCHANGED <<rb, answers, regout>> /\ (faults' = 0 => faults = 0)
    BY <1>4 DEF ReadReturn, sems, wire, RegTypes, SemTypes
  <2>2. Sending' = Sending
    BY <1>4, RegIoAssumption DEF ReadReturn, Sending, RegTypes, ThreadTypes, Threads
  <2> QED
    BY <2>1, <2>2 DEF Owed, One
<1>5. ASSUME NEW t \in BusUsers, PostNtfy(t) PROVE Owed'
  <2>1. UNCHANGED <<rb, answers, regout>> /\ (faults' = 0 => faults = 0)
    BY <1>5 DEF PostNtfy, sems, wire, RegTypes, SemTypes
  <2>2. Sending' = Sending
    BY <1>5, RegIoAssumption DEF PostNtfy, Sending, RegTypes, ThreadTypes, Threads
  <2> QED
    BY <2>1, <2>2 DEF Owed, One
<1>6. ASSUME NEW t \in BusUsers, WaitMsi(t) PROVE Owed'
  <2>1. UNCHANGED <<rb, answers, regout>> /\ (faults' = 0 => faults = 0)
    BY <1>6 DEF WaitMsi, sems, wire, RegTypes, SemTypes
  <2>2. Sending' = Sending
    BY <1>6, RegIoAssumption DEF WaitMsi, Sending, RegTypes, ThreadTypes, Threads
  <2> QED
    BY <2>1, <2>2 DEF Owed, One
<1>7. ASSUME NEW t \in BusUsers, BusReturn(t) PROVE Owed'
  <2>1. UNCHANGED <<rb, answers, regout>> /\ (faults' = 0 => faults = 0)
    BY <1>7 DEF BusReturn, sems, wire, RegTypes, SemTypes
  <2>2. Sending' = Sending
    BY <1>7, RegIoAssumption DEF BusReturn, Sending, RegTypes, ThreadTypes, Threads
  <2> QED
    BY <2>1, <2>2 DEF Owed, One
<1>8. CASE RegoutDone
  <2> SUFFICES ASSUME faults' = 0
               PROVE  Cardinality(Sending') + One(rb # None)'
                        = Len(answers') + One(regout.thread \in Readers)'
    BY DEF Owed
  <2>1. /\ UNCHANGED <<rb, pc>> /\ faults = 0 /\ regout' = None
        /\ answers' = IF regout.thread \in Readers THEN Append(answers, regout) ELSE answers
    BY <1>8 DEF RegoutDone, RegTypes, SemTypes
  <2>2. Sending' = Sending /\ One(rb # None)' = One(rb # None)
    BY <2>1 DEF Sending, One
  <2>3. One(regout.thread \in Readers)' = 0
    BY <2>1, RegIoAssumption DEF One, None
  <2>4. Len(answers') = Len(answers) + One(regout.thread \in Readers)
    BY <2>1 DEF One, RegTypes, WireTypes
  <2>5. Len(answers) \in Nat /\ One(regout.thread \in Readers) \in Nat
    BY DEF One, RegTypes, WireTypes
  <2> QED
    BY <2>1, <2>2, <2>3, <2>4, <2>5 DEF Owed
<1>9. CASE RbDone
  <2> SUFFICES ASSUME faults' = 0
               PROVE  Cardinality(Sending') + One(rb # None)'
                        = Len(answers') + One(regout.thread \in Readers)'
    BY DEF Owed
  <2>1. /\ UNCHANGED <<regout, pc>> /\ faults = 0 /\ rb # None /\ rb' = None
        /\ answers # <<>> /\ answers' = Tail(answers)
    BY <1>9 DEF RbDone, RegTypes, SemTypes
  <2>2. /\ Sending' = Sending /\ One(rb # None) = 1 /\ One(rb # None)' = 0
        /\ One(regout.thread \in Readers)' = One(regout.thread \in Readers)
    BY <2>1 DEF Sending, One
  <2>3. Len(answers) \in Nat /\ Len(answers') = Len(answers) - 1
    BY <2>1 DEF RegTypes, WireTypes
  <2>4. One(regout.thread \in Readers) \in Nat
    BY DEF One
  <2> QED
    BY <2>1, <2>2, <2>3, <2>4, SendingFinite DEF Owed
<1>10. CASE RbWake
  <2>1. UNCHANGED <<rb, answers, regout>> /\ (faults' = 0 => faults = 0)
    BY <1>10 DEF RbWake, sems, wire, RegTypes, SemTypes
  <2>2. Sending' = Sending
    BY <1>10, RegIoAssumption DEF RbWake, Sending, RegTypes, ThreadTypes, Threads
  <2> QED
    BY <2>1, <2>2 DEF Owed, One
<1>11. CASE NtfyDone
  <2>1. UNCHANGED <<rb, answers, regout>> /\ (faults' = 0 => faults = 0)
    BY <1>11 DEF NtfyDone, sems, wire, RegTypes, SemTypes
  <2>2. Sending' = Sending
    BY <1>11, RegIoAssumption DEF NtfyDone, Sending, RegTypes, ThreadTypes, Threads
  <2> QED
    BY <2>1, <2>2 DEF Owed, One
<1>12. CASE UNCHANGED vars
  BY <1>12 DEF vars, sems, wire, bus, Owed, Sending
<1> QED
  BY <1>1, <1>2, <1>3, <1>4, <1>5, <1>6, <1>7, <1>8, <1>9, <1>10, <1>11, <1>12 DEF Next

(* When no reader is in a call nothing of a read is on the way.            *)
LEMMA RestQuiet ==
    ASSUME RegTypes, Wakes, Owed, faults = 0, \A u \in Readers : pc[u] = "idle"
    PROVE  NoRead
<1>1. rb = None
  BY SlotThread DEF Wakes, Posted
<1>2. Sending = {}
  BY DEF Sending
<1>3. One(rb # None) = 0 /\ Cardinality(Sending) = 0
  BY <1>1, <1>2, FS_EmptySet DEF One
<1>4. Len(answers) \in Nat /\ One(regout.thread \in Readers) \in Nat
  BY DEF One, RegTypes, WireTypes
<1>5. Len(answers) = 0 /\ One(regout.thread \in Readers) = 0
  BY <1>3, <1>4 DEF Owed
<1> QED
  BY <1>5 DEF NoRead, One, RegTypes, WireTypes

(* A read that no other overlaps.                                          *)
LEMMA AloneStep ==
    RegTypes /\ TransferOwned /\ Wakes /\ Owed /\ Alone /\ [Next]_vars
        => Alone'
<1> SUFFICES ASSUME RegTypes, TransferOwned, Wakes, Owed, Alone, [Next]_vars PROVE Alone'
  OBVIOUS
<1>1. ASSUME NEW t \in Threads, Call(t) PROVE Alone'
  <2> SUFFICES ASSUME NEW u \in Readers, faults' = 0, alone'[u], pc'[u] # "idle"
               PROVE  AloneStage(u)'
    BY DEF Alone
  <2>1. /\ UNCHANGED <<rb, answers, regout, faults>> /\ pc[t] = "idle"
        /\ pc' = [pc EXCEPT ![t] = "regout"] /\ calls' = [calls EXCEPT ![t] = @ + 1]
    BY <1>1 DEF Call, wire
  <2>2. CASE t \notin Readers
    <3>1. /\ UNCHANGED <<odata, alone>> /\ calls'[u] = calls[u]
          /\ \A r \in Readers : pc'[r] = pc[r]
      BY <1>1, <2>1, <2>2 DEF Call, RegTypes, ThreadTypes, Threads
    <3> QED
      BY <2>1, <3>1 DEF Alone, AloneStage, NoRead, OnlyRead, Command
  <2>3. CASE t \in Readers
    <3> DEFINE others == {r \in Readers \ {t} : pc[r] # "idle"}
    <3>1. alone' = [r \in Readers |-> IF r = t THEN others = {}
                                      ELSE alone[r] /\ r \notin others]
      BY <1>1, <2>3 DEF Call
    <3>2. u = t
      BY <2>1, <2>3, <3>1 DEF RegTypes, ThreadTypes, Threads
    <3>3. \A r \in Readers : pc[r] = "idle"
      BY <2>1, <3>1, <3>2
    <3>4. NoRead
      BY <2>1, <3>3, RestQuiet
    <3>5. pc'[u] = "regout" /\ \A r \in Readers \ {u} : pc'[r] = "idle"
      BY <2>1, <3>2, <3>3 DEF RegTypes, ThreadTypes, Threads
    <3> QED
      BY <2>1, <3>4, <3>5 DEF AloneStage, NoRead
  <2> QED
    BY <2>2, <2>3
<1>2. ASSUME NEW t \in Threads, PostRegout(t) PROVE Alone'
  <2> SUFFICES ASSUME NEW u \in Readers, faults' = 0, alone'[u], pc'[u] # "idle"
               PROVE  AloneStage(u)'
    BY DEF Alone
  <2>1. /\ UNCHANGED <<rb, answers, odata, alone, calls>> /\ faults = 0 /\ regout = None
        /\ pc[t] = "regout" /\ regout' = Command(t, calls[t])
        /\ pc' = [pc EXCEPT ![t] = AfterRegout(t)]
    BY <1>2 DEF PostRegout, TransferOwned, RegTypes, SemTypes
  <2>2. CASE t \in Readers
    <3>1. u = t
      <4>1. CASE u # t
        <5>1. pc[u] # "idle"
          BY <2>1, <4>1 DEF RegTypes, ThreadTypes, Threads
        <5> QED
          BY <2>1, <2>2, <4>1, <5>1 DEF Alone, AloneStage
      <4> QED
        BY <4>1
    <3>2. AfterRegout(t) = "rb"
      BY <2>2, RegIoAssumption DEF AfterRegout
    <3>3. AloneStage(u)
      BY <2>1, <3>1 DEF Alone
    <3>4. pc'[u] = "rb" /\ \A r \in Readers \ {u} : pc'[r] = "idle"
      BY <2>1, <3>1, <3>2, <3>3 DEF AloneStage, RegTypes, ThreadTypes, Threads
    <3> QED
      BY <2>1, <3>1, <3>3, <3>4 DEF AloneStage, NoRead, OnlyRead, Command
  <2>3. CASE t \notin Readers
    <3>1. \A r \in Readers : pc'[r] = pc[r]
      BY <2>1, <2>3 DEF RegTypes, ThreadTypes, Threads
    <3>2. AloneStage(u)
      BY <2>1, <3>1 DEF Alone
    <3>3. regout.thread # u /\ regout'.thread \notin Readers
      BY <2>1, <2>3, RegIoAssumption DEF None, Command
    <3> QED
      BY <2>1, <3>1, <3>2, <3>3 DEF AloneStage, NoRead, OnlyRead, Command
  <2> QED
    BY <2>2, <2>3
<1>3. ASSUME NEW t \in Readers, PostRb(t) PROVE Alone'
  <2> SUFFICES ASSUME NEW u \in Readers, faults' = 0, alone'[u], pc'[u] # "idle"
               PROVE  AloneStage(u)'
    BY DEF Alone
  <2>1. /\ UNCHANGED <<regout, answers, odata, alone, calls>> /\ faults = 0
        /\ pc[t] = "rb" /\ rb'.thread = t /\ pc' = [pc EXCEPT ![t] = "wait"]
    BY <1>3 DEF PostRb, RegTypes, SemTypes, Command
  <2>2. u = t
    <3>1. CASE u # t
      <4>1. pc[u] # "idle"
        BY <2>1, <3>1 DEF RegTypes, ThreadTypes, Threads
      <4> QED
        BY <2>1, <3>1, <4>1 DEF Alone, AloneStage
    <3> QED
      BY <3>1
  <2>3. AloneStage(u)
    BY <2>1, <2>2 DEF Alone
  <2>4. pc'[u] = "wait" /\ \A r \in Readers \ {u} : pc'[r] = "idle"
    BY <2>1, <2>2, <2>3 DEF AloneStage, RegTypes, ThreadTypes, Threads
  <2>5. rb' # None
    BY <2>1, RegIoAssumption DEF None
  <2> QED
    BY <2>1, <2>2, <2>3, <2>4, <2>5 DEF AloneStage, OnlyRead, Command
<1>4. ASSUME NEW t \in Readers, ReadReturn(t) PROVE Alone'
  <2> SUFFICES ASSUME NEW u \in Readers, faults' = 0, alone'[u], pc'[u] # "idle"
               PROVE  AloneStage(u)'
    BY DEF Alone
  <2>1. UNCHANGED <<alone, faults>> /\ pc[t] = "wait" /\ pc' = [pc EXCEPT ![t] = "idle"]
    BY <1>4 DEF ReadReturn
  <2>2. u # t /\ pc[u] # "idle"
    BY <2>1 DEF RegTypes, ThreadTypes, Threads
  <2> QED
    BY <2>1, <2>2 DEF Alone, AloneStage
<1>5. ASSUME NEW t \in BusUsers, PostNtfy(t) PROVE Alone'
  <2> SUFFICES ASSUME NEW u \in Readers, faults' = 0, alone'[u], pc'[u] # "idle"
               PROVE  AloneStage(u)'
    BY DEF Alone
  <2>1. UNCHANGED <<rb, answers, regout, odata, alone, calls>> /\ faults = 0
    BY <1>5 DEF PostNtfy, sems, wire, RegTypes, SemTypes
  <2>2. \A r \in Readers : pc'[r] = pc[r]
    BY <1>5, RegIoAssumption DEF PostNtfy, RegTypes, ThreadTypes, Threads
  <2> QED
    BY <2>1, <2>2 DEF Alone, AloneStage, NoRead, OnlyRead, Command
<1>6. ASSUME NEW t \in BusUsers, WaitMsi(t) PROVE Alone'
  <2> SUFFICES ASSUME NEW u \in Readers, faults' = 0, alone'[u], pc'[u] # "idle"
               PROVE  AloneStage(u)'
    BY DEF Alone
  <2>1. UNCHANGED <<rb, answers, regout, odata, alone, calls>> /\ faults = 0
    BY <1>6 DEF WaitMsi, sems, wire, RegTypes, SemTypes
  <2>2. \A r \in Readers : pc'[r] = pc[r]
    BY <1>6, RegIoAssumption DEF WaitMsi, RegTypes, ThreadTypes, Threads
  <2> QED
    BY <2>1, <2>2 DEF Alone, AloneStage, NoRead, OnlyRead, Command
<1>7. ASSUME NEW t \in BusUsers, BusReturn(t) PROVE Alone'
  <2> SUFFICES ASSUME NEW u \in Readers, faults' = 0, alone'[u], pc'[u] # "idle"
               PROVE  AloneStage(u)'
    BY DEF Alone
  <2>1. UNCHANGED <<rb, answers, regout, odata, alone, calls>> /\ faults = 0
    BY <1>7 DEF BusReturn, sems, wire, RegTypes, SemTypes
  <2>2. \A r \in Readers : pc'[r] = pc[r]
    BY <1>7, RegIoAssumption DEF BusReturn, RegTypes, ThreadTypes, Threads
  <2> QED
    BY <2>1, <2>2 DEF Alone, AloneStage, NoRead, OnlyRead, Command
<1>8. CASE RegoutDone
  <2> SUFFICES ASSUME NEW u \in Readers, faults' = 0, alone'[u], pc'[u] # "idle"
               PROVE  AloneStage(u)'
    BY DEF Alone
  <2>1. /\ UNCHANGED <<rb, pc, calls, odata, alone>> /\ faults = 0 /\ regout' = None
        /\ answers' = IF regout.thread \in Readers THEN Append(answers, regout) ELSE answers
    BY <1>8 DEF RegoutDone, RegTypes, SemTypes
  <2>2. AloneStage(u)
    BY <2>1 DEF Alone
  <2>3. regout'.thread \notin Readers
    BY <2>1, RegIoAssumption DEF None
  <2>4. NoRead => NoRead'
    BY <2>1, <2>3 DEF NoRead
  <2>5. OnlyRead(Command(u, calls[u])) => answers' = <<Command(u, calls[u])>>
    <3>1. CASE answers = <<>> /\ regout = Command(u, calls[u])
      <4>1. regout.thread = u
        BY <3>1 DEF Command
      <4>2. answers' = Append(<<>>, Command(u, calls[u]))
        BY <2>1, <3>1, <4>1
      <4> QED
        BY <4>2
    <3>2. CASE answers = <<Command(u, calls[u])>> /\ regout.thread \notin Readers
      BY <2>1, <3>2
    <3> QED
      BY <3>1, <3>2 DEF OnlyRead
  <2> QED
    BY <2>1, <2>2, <2>3, <2>4, <2>5 DEF AloneStage, OnlyRead, Command
<1>9. CASE RbDone
  <2> SUFFICES ASSUME NEW u \in Readers, faults' = 0, alone'[u], pc'[u] # "idle"
               PROVE  AloneStage(u)'
    BY DEF Alone
  <2>1. /\ UNCHANGED <<pc, calls, alone, regout>> /\ faults = 0 /\ rb # None /\ rb' = None
        /\ answers # <<>> /\ answers' = Tail(answers)
        /\ odata' = [odata EXCEPT ![rb.thread] = Head(answers)]
    BY <1>9 DEF RbDone, RegTypes, SemTypes
  <2>2. AloneStage(u)
    BY <2>1 DEF Alone
  <2>3. rb.thread = u /\ pc[u] = "wait"
    BY <2>1, <2>2, SlotThread DEF AloneStage, Wakes, Posted
  <2>4. answers = <<Command(u, calls[u])>>
    BY <2>1, <2>2, <2>3 DEF AloneStage, OnlyRead
  <2>5. odata'[u] = Command(u, calls[u])
    BY <2>1, <2>3, <2>4 DEF RegTypes, WireTypes
  <2> QED
    BY <2>1, <2>2, <2>3, <2>5 DEF AloneStage, Command
<1>10. CASE RbWake
  <2> SUFFICES ASSUME NEW u \in Readers, faults' = 0, alone'[u], pc'[u] # "idle"
               PROVE  AloneStage(u)'
    BY DEF Alone
  <2>1. UNCHANGED <<rb, answers, regout, odata, alone, calls>> /\ faults = 0
    BY <1>10 DEF RbWake, sems, wire, RegTypes, SemTypes
  <2>2. \A r \in Readers : pc'[r] = pc[r]
    BY <1>10, RegIoAssumption DEF RbWake, RegTypes, ThreadTypes, Threads
  <2> QED
    BY <2>1, <2>2 DEF Alone, AloneStage, NoRead, OnlyRead, Command
<1>11. CASE NtfyDone
  <2> SUFFICES ASSUME NEW u \in Readers, faults' = 0, alone'[u], pc'[u] # "idle"
               PROVE  AloneStage(u)'
    BY DEF Alone
  <2>1. UNCHANGED <<rb, answers, regout, odata, alone, calls>> /\ faults = 0
    BY <1>11 DEF NtfyDone, sems, wire, RegTypes, SemTypes
  <2>2. \A r \in Readers : pc'[r] = pc[r]
    BY <1>11, RegIoAssumption DEF NtfyDone, RegTypes, ThreadTypes, Threads
  <2> QED
    BY <2>1, <2>2 DEF Alone, AloneStage, NoRead, OnlyRead, Command
<1>12. CASE UNCHANGED vars
  BY <1>12 DEF vars, sems, wire, bus, Alone, AloneStage, NoRead, OnlyRead
<1> QED
  BY <1>1, <1>2, <1>3, <1>4, <1>5, <1>6, <1>7, <1>8, <1>9, <1>10, <1>11, <1>12 DEF Next

-----------------------------------------------------------------------------
(* The initial state.                                                      *)
LEMMA InitRegInv == Init => RegInv /\ ReadInv
<1> SUFFICES ASSUME Init PROVE RegInv /\ ReadInv
  OBVIOUS
<1> USE RegIoAssumption DEF Init
<1>1. SemTypes /\ WireTypes /\ BusTypes
  BY DEF SemTypes, WireTypes, BusTypes, RegoutReqs, None
<1>2. ThreadTypes
  BY DEF ThreadTypes, Threads, MaxCalls
<1>3. FlagTypes
  BY DEF FlagTypes
<1>4. TransferOwned /\ BusPlaces
  BY DEF TransferOwned, BusPlaces, Threads
<1>5. \A t \in BusUsers : pc[t] = "idle" /\ interrupts[t] = 0 /\ regout.thread # t /\ calls[t] = 0
  BY DEF Threads, None
<1>6. \A t \in BusUsers : Unnotified(t) = {} /\ EventCalls(t) = {}
  BY DEF Unnotified, EventCalls, CallsOf
<1>7. BusOrder
  BY <1>5, <1>6 DEF BusOrder, BusStage
<1>8. EventBound
  BY <1>5, <1>6, FS_EmptySet, SMTT(30) DEF EventBound, Sent, One
<1>9. Wakes
  BY DEF Wakes, Posted, Reaped, Tokens
<1>10. Owed
  <2>1. Sending = {}
    BY DEF Sending, Threads
  <2>2. regout.thread \notin Readers
    BY DEF None
  <2> QED
    BY <2>1, <2>2, FS_EmptySet DEF Owed, One
<1>11. Alone
  BY DEF Alone, Threads
<1> QED
  BY <1>1, <1>2, <1>3, <1>4, <1>7, <1>8, <1>9, <1>10, <1>11 DEF RegInv, RegTypes, ReadInv

LEMMA RegInvStep == RegInv /\ [Next]_vars => RegInv'
  BY SemTypesStep, WireTypesStep, BusTypesStep, ThreadTypesStep, FlagTypesStep, OwnedStep,
     BusPlacesStep, BusOrderStep, EventBoundStep DEF RegInv, RegTypes

LEMMA ReadInvStep == RegInv /\ OneReaderPerSemaphore /\ ReadInv /\ [Next]_vars => ReadInv'
  BY WakesStep, OwedStep, AloneStep DEF RegInv, ReadInv

(* The invariant implies the types the run checks.                         *)
LEMMA InvTypeOK == RegInv /\ Tokens => TypeOK
<1> SUFFICES ASSUME RegInv, Tokens PROVE TypeOK
  OBVIOUS
<1> USE DEF RegInv, RegTypes
<1>1. \A k \in 0..RbThreads-1 : rb_valid[k] \in 0..1
  BY DEF SemTypes, Tokens
<1>2. \A t \in Threads : calls[t] \in 0..MaxCalls(t)
  BY RegIoAssumption DEF ThreadTypes, MaxCalls
<1>3. \A t \in BusUsers : interrupts[t] \in 0..BusCalls
  <2> SUFFICES ASSUME NEW t \in BusUsers PROVE interrupts[t] \in 0..BusCalls
    OBVIOUS
  <2>1. calls[t] \in Nat /\ interrupts[t] \in Nat /\ Cardinality(EventCalls(t)) \in Nat
    BY EventCount
  <2>2. One(regout.thread = t) \in Nat /\ One(pc[t] = "regout") \in Nat
    BY DEF One
  <2>3. calls[t] <= BusCalls
    BY DEF ThreadTypes, Threads, MaxCalls
  <2> QED
    BY <2>1, <2>2, <2>3, RegIoAssumption DEF EventBound, Sent
<1> QED
  BY <1>1, <1>2, <1>3 DEF SemTypes, ThreadTypes, WireTypes, TypeOK

(* A bus transaction that ends well returns the answer stored for its own  *)
(* command: usb_uram_wait_msi took the one token there was.                *)
LEMMA BusStep ==
    RegInv /\ [Next]_vars =>
        [\A t \in BusUsers :
            ~missed[t] /\ pc[t] = "value" /\ pc'[t] = "idle" =>
                rbvalue[t] = Command(t, calls[t])]_vars
  BY DEF RegInv, BusOrder, BusStage

(* The semaphore a reader takes was posted for it.                         *)
LEMMA ReaderServed ==
    ASSUME RegInv, ReadInv, OneReaderPerSemaphore, [Next]_vars, NEW t \in Readers,
           pc[t] = "wait", pc'[t] = "idle"
    PROVE  Served(t)
<1>1. ReadReturn(t)
  <2>1. ~(UNCHANGED vars \/ RegoutDone \/ RbDone \/ RbWake \/ NtfyDone)
    BY DEF vars, RegoutDone, RbDone, RbWake, NtfyDone
  <2>2. \A u \in Threads : ~(Call(u) \/ PostRegout(u))
    <3>1. t \in Threads
      BY DEF Threads
    <3> QED
      BY <3>1 DEF Call, PostRegout, RegInv, RegTypes, ThreadTypes
  <2>3. \A u \in BusUsers : ~(PostNtfy(u) \/ WaitMsi(u) \/ BusReturn(u))
    BY DEF PostNtfy, WaitMsi, BusReturn, RegInv, RegTypes, ThreadTypes, Threads
  <2>4. \A u \in Readers : ~PostRb(u) /\ (ReadReturn(u) => u = t)
    BY DEF PostRb, ReadReturn, RegInv, RegTypes, ThreadTypes, Threads
  <2>5. Next
    BY <2>1
  <2>6. \E u \in Readers : ReadReturn(u)
    BY <2>1, <2>2, <2>3, <2>4, <2>5 DEF Next
  <2> QED
    BY <2>4, <2>6
<1>2. ridx[t] \in 0..RbThreads-1 /\ rb_valid[ridx[t]] \in Nat /\ rb_valid[ridx[t]] > 0
  BY <1>1 DEF ReadReturn, Woken, RegInv, RegTypes, WireTypes, SemTypes
<1>3. rb_valid[ridx[t]] = 1
  BY <1>2 DEF ReadInv, Wakes, Tokens
<1> QED
  BY <1>2, <1>3 DEF ReadInv, Wakes, Tokens, Served, OneReaderPerSemaphore

(* What a reader returns.                                                  *)
LEMMA ReadStep ==
    RegInv /\ ReadInv /\ OneReaderPerSemaphore /\ [Next]_vars =>
        /\ [\A t \in Readers :
               faults = 0 /\ alone[t] /\ pc[t] = "wait" /\ pc'[t] = "idle" =>
                   odata[t] = Command(t, calls[t])]_vars
        /\ [\A t \in Readers : pc[t] = "wait" /\ pc'[t] = "idle" => odata[t] # None]_vars
<1> SUFFICES ASSUME RegInv, ReadInv, OneReaderPerSemaphore, [Next]_vars, NEW t \in Readers,
                    pc[t] = "wait", pc'[t] = "idle"
             PROVE  /\ odata[t] # None
                    /\ faults = 0 /\ alone[t] => odata[t] = Command(t, calls[t])
  OBVIOUS
<1>1. Served(t)
  BY ReaderServed
<1>2. ASSUME faults = 0, alone[t] PROVE odata[t] = Command(t, calls[t])
  <2>1. AloneStage(t)
    BY <1>2 DEF ReadInv, Alone
  <2>2. rb = None
    BY <1>1, <2>1, SlotThread DEF Served, AloneStage, ReadInv, Wakes, Posted, RegInv
  <2> QED
    BY <2>1, <2>2 DEF AloneStage
<1> QED
  BY <1>1, <1>2 DEF Served

(* The transfers for commands and readbacks are never refilled while they  *)
(* are in flight (usb_post_regout and usb_post_rb against their            *)
(* callbacks), however many threads call and whatever fails; and as long   *)
(* as no reader is overtaken by a whole turn of rb_valid, no semaphore is  *)
(* posted twice.                                                           *)
THEOREM RegTransfersSafe == Spec /\ []OneReaderPerSemaphore => []TransfersSafe
<1>1. Init => RegInv /\ ReadInv
  BY InitRegInv
<1>2. RegInv /\ ReadInv /\ OneReaderPerSemaphore /\ [Next]_vars => (RegInv /\ ReadInv)'
  BY RegInvStep, ReadInvStep
<1>3. RegInv /\ ReadInv => TransfersSafe
  BY InvTypeOK DEF TransfersSafe, RegInv, ReadInv, Wakes
<1> QED
  BY <1>1, <1>2, <1>3, PTL DEF Spec

(* TransferOwned alone needs nothing of the schedule.                      *)
THEOREM RegTransferOwned == Spec => []TransferOwned
<1>1. Init => RegInv
  BY InitRegInv
<1>2. RegInv => TransferOwned
  BY DEF RegInv
<1> QED
  BY <1>1, <1>2, RegInvStep, PTL DEF Spec

(* Every bus transaction of usb_uram_ls_op returns the answer to its own   *)
(* command until one of its core ended without its answer, though all      *)
(* buses share one notification transfer and answers carry no number.      *)
THEOREM BusOwnAnswer == Spec => BusGetsOwnAnswer
<1>1. Init => RegInv
  BY InitRegInv
<1> QED
  BY <1>1, RegInvStep, BusStep, PTL DEF Spec, BusGetsOwnAnswer

(* Reads and bus transactions return their own answers, and no reader      *)
(* returns before its buffer was filled (usb_async_regread32), as long as  *)
(* no reader is overtaken by a whole turn of rb_valid.                     *)
THEOREM RegOwnAnswers == Spec /\ []OneReaderPerSemaphore => OwnAnswers
<1>1. Init => RegInv /\ ReadInv
  BY InitRegInv
<1>2. RegInv /\ ReadInv /\ OneReaderPerSemaphore /\ [Next]_vars => (RegInv /\ ReadInv)'
  BY RegInvStep, ReadInvStep
<1>3. Spec /\ []OneReaderPerSemaphore => ReadGetsOwnAnswer /\ WokenWithData
  BY <1>1, <1>2, ReadStep, PTL DEF Spec, ReadGetsOwnAnswer, WokenWithData
<1> QED
  BY <1>3, BusOwnAnswer DEF OwnAnswers

(* A program that reads registers from one thread can rely on all of it,   *)
(* whatever its other threads write and whatever buses they use.           *)
THEOREM SingleReaderSafe ==
    ASSUME \A t, u \in Readers : t = u
    PROVE  Spec => []TransfersSafe /\ OwnAnswers
<1>1. OneReaderPerSemaphore
  BY DEF OneReaderPerSemaphore
<1> QED
  BY <1>1, RegTransfersSafe, RegOwnAnswers, PTL
=============================================================================
