---------------------------- MODULE FlashProofs ----------------------------
(***************************************************************************)
(* Proofs about the update of the firmware (Flash): for every flash, every *)
(* set of images that fit it, and every number of updates, failing         *)
(* accesses and losses of power.                                           *)
(*                                                                         *)
(* A call is cut off at any access, so the invariant cannot speak of what  *)
(* was done but of what the rest of the call will do: that the loops left  *)
(* program a cell once, after it was blanked (FlashOrder, FlashBlanked),   *)
(* that every cell of the image will have its block in the end             *)
(* (FlashDue), and that the header of a master image is the last to be     *)
(* written, and cannot be read before (FlashLast, FlashHidden).  Between   *)
(* the sectors of the JSON calls the same is said of the cells             *)
(* (FlashGoing).  These are conditions on a state record, so that a lemma  *)
(* is about a state s and its successor r.                                 *)
(***************************************************************************)
EXTENDS Flash, SharedLemmas, TLAPS

\* What a cell, the data of a loop and a loop can be.
FlashVals == {FlashFF, FlashJunk} \cup {<<f.id, i>> : f \in FlashFiles, i \in Nat}
FlashSpan(p, q) == [p..q -> FlashVals]
FlashSpans == UNION {FlashSpan(p, q) : p \in Nat, q \in Int}
FlashData == {FlashNone} \cup {f.id : f \in FlashFiles} \cup FlashSpans
FlashOps == [op : {"erase", "prog", "read", "blanked", "end", "next", "done"}, at : Nat, n : Nat, d : FlashData]

(* o touches, erases or programs cell x in one of its accesses.            *)
FlashErases(o, x) == o.op = "erase" /\ x \in o.at..(o.at + o.n - 1)
FlashProgs(o, x) == o.op = "prog" /\ x \in o.at..(o.at + o.n - 1)
FlashTouches(o, x) == FlashErases(o, x) \/ FlashProgs(o, x)

\* Where images begin, and the cells from there to the next image.
FlashBases == {0, FlashMaster}
FlashRegion(b) == IF b = 0 THEN 0..(FlashMaster - 1) ELSE FlashMaster..(FlashLen - 1)

(* An image that passed the checks of both updaters, to be written at b.   *)
FlashOkImg(f, b) ==
    f.devid = FlashDevid /\ IF b = 0 THEN f.iprog /\ f.wbstar = FlashMaster ELSE f.wbstar = 0

(* The header at 0 is that of a golden image of this FPGA, the one at      *)
(* MASTER_IMAGE_OFF that of a master image.                                *)
FlashHeaders(c) ==
    \A f \in FlashFiles : /\ c[0] = <<f.id, 0>> => f.iprog /\ f.devid = FlashDevid
                          /\ c[FlashMaster] = <<f.id, 0>> => ~f.iprog

(* The golden image jumps to the master image.                             *)
FlashJumps(c) ==
    \E g \in FlashFiles : /\ \A i \in FlashHdr : c[i] = <<g.id, i>>
                          /\ g.iprog /\ g.wbstar = FlashMaster /\ g.devid = FlashDevid

(* A loop of an update with f at b.                                        *)
FlashLoop(o, f, b) ==
    /\ o.n \in Nat /\ o.at \in Nat
    /\ o.op \in {"erase", "prog", "read", "blanked", "end", "next", "done"}
    /\ o.op \notin {"erase", "prog"} => o.n = 0
    /\ o.op \in {"blanked", "next", "done"} => o.d = f.id
    /\ \A x \in o.at..(o.at + o.n - 1) :
          /\ x \in FlashRegion(b)
          /\ o.op = "prog" => o.d[x] = FlashBlock(f, x - b, FALSE)

(* A cell is programmed once, and not erased after that; and it is blank   *)
(* when it is programmed.                                                  *)
FlashOrder(todo) ==
    \A j, k \in 1..Len(todo) : j < k => \A x \in Nat : FlashProgs(todo[j], x) => ~FlashTouches(todo[k], x)

FlashBlanked(c, todo) ==
    \A k \in 1..Len(todo) : \A x \in Nat : FlashProgs(todo[k], x) =>
        \/ c[x] = FlashFF \/ c[x] = todo[k].d[x]
        \/ \E j \in 1..Len(todo) : j < k /\ FlashErases(todo[j], x)

(* Cell x has the value v in the end.                                      *)
FlashDue(c, todo, x, v) ==
    \/ c[x] = v /\ \A k \in 1..Len(todo) : ~FlashTouches(todo[k], x)
    \/ \E k \in 1..Len(todo) : FlashProgs(todo[k], x)

(* Cell x is blank in the end, or has the value v.                         *)
FlashOpen(c, todo, x, v) ==
    \/ c[x] = FlashFF \/ c[x] = v
    \/ \E k \in 1..Len(todo) : FlashErases(todo[k], x)

(* The header of a master image is the last to be written.                 *)
FlashLast(todo) ==
    \A k \in 1..Len(todo) : FlashProgs(todo[k], FlashMaster + 1) =>
        /\ todo[Len(todo)].op = "done"
        /\ \A j \in 1..Len(todo), x \in Nat : j >= k /\ FlashTouches(todo[j], x) => j = k /\ x <= FlashMaster + 1

\* The header at MASTER_IMAGE_OFF cannot be read before the call ends.
FlashHidden(c, todo) ==
    \/ todo[1].op = "erase" /\ todo[1].at = FlashMaster
    \/ c[FlashMaster + 1] = FlashFF
    \/ todo[Len(todo)].op = "done" /\ \A k \in 1..Len(todo) : \A x \in Nat : ~FlashTouches(todo[k], x)

(* A sector of the JSON calls that is not the last.                        *)
FlashSector(s, f, b) ==
    /\ s.rpc.id = f.id /\ (s.rpc.golden <=> b = 0) /\ s.op_len = f.len /\ s.rpc.next + 2 < f.len
    /\ \A k \in 1..Len(s.todo) : s.todo[k].op # "end"
    /\ \/ s.validated /\ s.header = f.id /\ (s.op_golden <=> b = 0)
       \/ \E k \in 1..Len(s.todo) : s.todo[k].op = "blanked"
    /\ \A i \in (s.rpc.next + 2)..(f.len - 1) : FlashOpen(s.c, s.todo, b + i, <<f.id, i>>)
    /\ b # 0 => \A i \in FlashHdr : FlashOpen(s.c, s.todo, FlashMaster + i, <<f.id, i>>)

\* The cells that have their blocks in the end.
FlashPlanned(s, f, b) ==
    LET last == s.todo[Len(s.todo)]
    IN  \A i \in (IF last.op = "done" THEN 0..(f.len - 1)
                  ELSE (IF b = 0 THEN 0 ELSE 2)..(s.rpc.next + 1)) :
            FlashDue(s.c, s.todo, b + i, <<f.id, i>>)

(* A call under way that writes image f at b.                              *)
FlashJob(s, f, b) ==
    /\ FlashOkImg(f, b)
    /\ s.rpc.id # FlashNone => s.rpc.id = f.id /\ (s.rpc.golden <=> b = 0)
    /\ \A k \in 1..Len(s.todo) : /\ FlashLoop(s.todo[k], f, b)
                                 /\ s.todo[k].op \in {"next", "done"} <=> k = Len(s.todo)
    /\ FlashOrder(s.todo) /\ FlashBlanked(s.c, s.todo)
    /\ FlashPlanned(s, f, b)
    /\ s.todo[Len(s.todo)].op = "next" => FlashSector(s, f, b)
    /\ b = 0 => s.gold
    /\ b # 0 => FlashJumps(s.c) /\ FlashLast(s.todo) /\ FlashHidden(s.c, s.todo)

(* The cells between two sectors of the JSON calls, of which n is next.    *)
FlashWritten(c, n, f, b) ==
    /\ \A i \in (IF b = 0 THEN 0 ELSE 2)..(n - 1) : c[b + i] = <<f.id, i>>
    /\ \A i \in n..(f.len - 1) : c[b + i] = FlashFF \/ c[b + i] = <<f.id, i>>
    /\ b # 0 => /\ FlashJumps(c)
                /\ c[FlashMaster] = FlashFF \/ c[FlashMaster] = <<f.id, 0>>
                /\ c[FlashMaster + 1] = FlashFF

\* The loops write the two cells of sector n and no others.
FlashOnly(todo, n, b) ==
    \A k \in 1..Len(todo) : \A x \in Nat : FlashTouches(todo[k], x) => FlashProgs(todo[k], x) /\ x - b \in n..(n + 1)

(* An update of the JSON calls after its first sector.                     *)
FlashGoing(s, f, b) ==
    /\ s.validated /\ s.header = f.id /\ (s.op_golden <=> b = 0) /\ FlashOkImg(f, b)
    /\ FlashWritten(s.c, s.rpc.next, f, b) /\ s.rpc.next < f.len
    /\ b = 0 => s.gold
    /\ s.todo # <<>> => s.todo[1].op = "end" \/ FlashOnly(s.todo, s.rpc.next, b)

\* The client of the JSON calls.
FlashClient(s) ==
    s.rpc.id # FlashNone =>
        \E f \in FlashFiles, b \in FlashBases :
            /\ f.id = s.rpc.id /\ (s.rpc.golden <=> b = 0) /\ s.op_len \in {0, f.len}
            /\ s.op_len # 0 /\ s.rpc.next # 0 => FlashGoing(s, f, b)

(* A header that can be read where the master image goes has its image.    *)
FlashMasterWhole(c) ==
    \A f \in FlashFiles : c[FlashMaster + 1] = <<f.id, 1>> /\ c[FlashMaster] = <<f.id, 0>> =>
        \A i \in 0..(f.len - 1) : c[FlashMaster + i] = <<f.id, i>>

(* There is a golden image.                                                *)
FlashGoldWhole(c) ==
    \E g \in FlashFiles : g.iprog /\ g.devid = FlashDevid /\ \A i \in 0..(g.len - 1) : c[i] = <<g.id, i>>

\* c has a value for every cell.
FlashArray(c) == c = [i \in 0..(FlashLen - 1) |-> c[i]]

\* The inductive invariant.
FlashSafe(s) ==
    /\ s.todo \in Seq(FlashOps) /\ FlashArray(s.c) /\ s.rpc.next \in Nat /\ s.rpc.next % 2 = 0
    /\ FlashHeaders(s.c) /\ FlashMasterWhole(s.c)
    /\ ~s.gold => FlashGoldWhole(s.c) /\ s.curfwid # FlashNone
    /\ s.todo # <<>> =>
          /\ s.done = FlashNone /\ s.curfwid # FlashNone
          /\ \E f \in FlashFiles, b \in FlashBases : FlashJob(s, f, b)
    /\ FlashClient(s)
    /\ s.done # FlashNone =>
          IF FlashImg(s.done).iprog THEN FlashBoot(s.c) # FlashNone ELSE FlashBoot(s.c) = s.done
-----------------------------------------------------------------------------
(* t is todo after an access to the cells C; sh loops are over.            *)
FlashStepped(todo, t, sh, C) ==
    /\ sh \in 0..1 /\ Len(todo) >= 1 /\ Len(t) = Len(todo) - sh
    /\ \A k \in 1..Len(t) :
          /\ t[k].op = todo[k + sh].op /\ t[k].d = todo[k + sh].d
          /\ \A x \in Nat : /\ FlashErases(t[k], x) => FlashErases(todo[k + sh], x)
                            /\ FlashProgs(t[k], x) => FlashProgs(todo[k + sh], x)
    /\ \A k \in 1..Len(todo), x \in Nat :
          /\ FlashErases(todo[k], x) => (k = 1 /\ x \in C) \/ (k - sh \in 1..Len(t) /\ FlashErases(t[k - sh], x))
          /\ FlashProgs(todo[k], x) => (k = 1 /\ x \in C) \/ (k - sh \in 1..Len(t) /\ FlashProgs(t[k - sh], x))
    /\ sh = 0 => \A x \in C, y \in Nat : FlashTouches(t[1], y) => x < y

\* What an access touches is the beginning of what its loop touches.
LEMMA FlashUnitFacts ==
    ASSUME NEW o \in FlashOps
    PROVE  /\ FlashUnit(o) \in Nat /\ FlashUnit(o) <= o.n
           /\ o.op = "erase" => FlashUnit(o) = 0 \/ FlashUnit(o) > 2
           /\ o.op = "prog" => FlashUnit(o) = (IF o.n = 0 THEN 0 ELSE 1)
           /\ o.op \notin {"erase", "prog"} => FlashUnit(o) = 0
<1>1. /\ o.n \in Nat /\ o.at \in Nat /\ FlashSub \in Nat /\ FlashSect \in Nat /\ FlashSub > 2 /\ FlashSect > 2
      /\ o.at % FlashSect \in Nat /\ o.at % FlashSub \in Nat
  BY FlashAssumption DEF FlashOps
<1>2. CASE o.op = "erase"
  <2>1. CASE o.at % FlashSect = 0 /\ o.n >= FlashSect
    BY <1>1, <1>2, <2>1 DEF FlashUnit
  <2>2. CASE ~(o.at % FlashSect = 0 /\ o.n >= FlashSect) /\ (o.at % FlashSub = 0 /\ o.n >= FlashSub)
    BY <1>1, <1>2, <2>2 DEF FlashUnit
  <2>3. CASE ~(o.at % FlashSect = 0 /\ o.n >= FlashSect) /\ ~(o.at % FlashSub = 0 /\ o.n >= FlashSub)
    BY <1>1, <1>2, <2>3 DEF FlashUnit
  <2> QED BY <2>1, <2>2, <2>3
<1>3. CASE o.op = "prog"
  BY <1>1, <1>3 DEF FlashUnit
<1>4. CASE o.op \notin {"erase", "prog"}
  BY <1>1, <1>4 DEF FlashUnit
<1> QED BY <1>2, <1>3, <1>4

\* A loop of which one access is done is still a loop of the plan.
LEMMA FlashShorter ==
    ASSUME NEW o \in FlashOps, NEW u \in Nat, u <= o.n
    PROVE  LET p == [o EXCEPT !.at = @ + u, !.n = @ - u]
           IN  p \in FlashOps /\ p.op = o.op /\ p.d = o.d /\ p.at = o.at + u /\ p.n = o.n - u
<1>1. PICK q : q = [o EXCEPT !.at = @ + u]
  OBVIOUS
<1>2. q \in FlashOps /\ q.op = o.op /\ q.d = o.d /\ q.at = o.at + u /\ q.n = o.n
  BY <1>1 DEF FlashOps
<1>3. o.n - u \in Nat
  BY DEF FlashOps
<1>4. PICK p : p = [q EXCEPT !.n = o.n - u]
  OBVIOUS
<1>5. p \in FlashOps /\ p.op = o.op /\ p.d = o.d /\ p.at = o.at + u /\ p.n = o.n - u
  BY <1>2, <1>3, <1>4 DEF FlashOps
<1>6. p = [o EXCEPT !.at = @ + u, !.n = @ - u]
  BY <1>1, <1>2, <1>4 DEF FlashOps
<1> QED BY <1>5, <1>6

\* The loops after an access: the first is shorter or gone, the others are the same.
LEMMA FlashAfterStepped ==
    ASSUME NEW todo \in Seq(FlashOps), todo # <<>>
    PROVE  LET o == todo[1] IN
           /\ FlashAfter(todo) \in Seq(FlashOps)
           /\ FlashStepped(todo, FlashAfter(todo), IF o.n = FlashUnit(o) THEN 1 ELSE 0, FlashCells(o))
<1> DEFINE o == todo[1]
           u == FlashUnit(o)
<1>1. Len(todo) \in Nat /\ Len(todo) >= 1 /\ o \in FlashOps
  OBVIOUS
<1>2. u \in Nat /\ u <= o.n /\ (o.op \notin {"erase", "prog"} => u = 0)
  BY <1>1, FlashUnitFacts
<1>3. CASE o.n = u
  <2>1. FlashAfter(todo) = Tail(todo)
    BY <1>3 DEF FlashAfter
  <2>2. \A k \in 1..Len(Tail(todo)) : Tail(todo)[k] = todo[k + 1]
    BY <1>1
  <2>3. Tail(todo) \in Seq(FlashOps) /\ Len(Tail(todo)) = Len(todo) - 1
    BY <1>1
  <2>4. \A x : FlashTouches(o, x) => x \in FlashCells(o)
    BY <1>3 DEF FlashTouches, FlashErases, FlashProgs, FlashCells
  <2>5. \A k \in 1..Len(todo) : k = 1 \/ (k - 1 \in 1..Len(Tail(todo)) /\ Tail(todo)[k - 1] = todo[k])
    BY <1>1, <2>2, <2>3
  <2>6. PICK t : t = Tail(todo)
    OBVIOUS
  <2>7. FlashStepped(todo, t, 1, FlashCells(o))
    <3>1. \A k \in 1..Len(t) : t[k] = todo[k + 1]
      BY <2>2, <2>6
    <3>2. \A k \in 1..Len(todo), x \in Nat : 
          /\ FlashErases(todo[k], x) => (k = 1 /\ x \in FlashCells(o)) \/ (k - 1 \in 1..Len(t) /\ FlashErases(t[k - 1], x))
          /\ FlashProgs(todo[k], x) => (k = 1 /\ x \in FlashCells(o)) \/ (k - 1 \in 1..Len(t) /\ FlashProgs(t[k - 1], x))
      <4> HIDE DEF o
      <4> SUFFICES ASSUME NEW k \in 1..Len(todo), NEW x \in Nat
                   PROVE  /\ FlashErases(todo[k], x) => (k = 1 /\ x \in FlashCells(o)) \/ (k - 1 \in 1..Len(t) /\ FlashErases(t[k - 1], x))
                          /\ FlashProgs(todo[k], x) => (k = 1 /\ x \in FlashCells(o)) \/ (k - 1 \in 1..Len(t) /\ FlashProgs(t[k - 1], x))
        OBVIOUS
      <4>1. CASE k = 1
        BY <2>4, <4>1 DEF FlashTouches, o
      <4>2. CASE k # 1
        BY <2>5, <2>6, <4>2
      <4> QED BY <4>1, <4>2
    <3> QED BY <1>1, <2>3, <2>6, <3>1, <3>2 DEF FlashStepped
  <2> QED BY <1>3, <2>1, <2>3, <2>6, <2>7
<1>4. CASE o.n # u
  <2> DEFINE p == [o EXCEPT !.at = @ + u, !.n = @ - u]
             t == [todo EXCEPT ![1] = p]
  <2>1. FlashAfter(todo) = t
    BY <1>4 DEF FlashAfter
  <2>2. p \in FlashOps /\ p.op = o.op /\ p.d = o.d /\ p.at = o.at + u /\ p.n = o.n - u
    <3> HIDE DEF o, u
    <3> QED BY <1>1, <1>2, FlashShorter
  <2> HIDE DEF p
  <2>3. /\ t \in Seq(FlashOps) /\ Len(t) = Len(todo) /\ t[1] = p
        /\ \A k \in 1..Len(todo) : k # 1 => t[k] = todo[k]
    BY <1>1, <2>2
  <2> HIDE DEF t
  <2>4. /\ o.at \in Nat /\ o.n \in Nat
        /\ \A x \in Nat : x \in o.at..(o.at + o.n - 1) <=> x \in FlashCells(o) \/ x \in p.at..(p.at + p.n - 1)
        /\ \A x \in FlashCells(o), y \in p.at..(p.at + p.n - 1) : x < y
    <3>1. PICK at \in Nat, n \in Nat, v \in Nat : at = o.at /\ n = o.n /\ v = u /\ v <= n
      BY <1>1, <1>2 DEF FlashOps
    <3>2. FlashCells(o) = at..(at + v - 1) /\ p.at = at + v /\ p.n = n - v
      BY <2>2, <3>1 DEF FlashCells
    <3>3. v <= n
      BY <3>1
    <3>4. (at + v) + (n - v) - 1 = at + n - 1
      OBVIOUS
    <3>5. \A x \in Nat : x \in at..(at + n - 1) <=> x \in at..(at + v - 1) \/ x \in (at + v)..(at + n - 1)
      BY <3>3
    <3>6. \A x \in at..(at + v - 1), y \in (at + v)..(at + n - 1) : x < y
      OBVIOUS
    <3>7. p.at..(p.at + p.n - 1) = (at + v)..(at + n - 1)
      BY <3>2, <3>4
    <3> QED BY <3>1, <3>2, <3>5, <3>6, <3>7
  <2>5. /\ \A x \in Nat : /\ FlashErases(p, x) => FlashErases(o, x)
                          /\ FlashProgs(p, x) => FlashProgs(o, x)
                          /\ FlashErases(o, x) => x \in FlashCells(o) \/ FlashErases(p, x)
                          /\ FlashProgs(o, x) => x \in FlashCells(o) \/ FlashProgs(p, x)
        /\ \A x \in FlashCells(o), y \in Nat : FlashTouches(p, y) => x < y
    BY <2>2, <2>4 DEF FlashErases, FlashProgs, FlashTouches
  <2>6. FlashStepped(todo, t, 0, FlashCells(o))
    <3>1. ASSUME NEW k \in 1..Len(todo)
          PROVE  /\ t[k].op = todo[k].op /\ t[k].d = todo[k].d
                 /\ \A x \in Nat : /\ FlashErases(t[k], x) => FlashErases(todo[k], x)
                                   /\ FlashProgs(t[k], x) => FlashProgs(todo[k], x)
                                   /\ FlashErases(todo[k], x) => (k = 1 /\ x \in FlashCells(o)) \/ FlashErases(t[k], x)
                                   /\ FlashProgs(todo[k], x) => (k = 1 /\ x \in FlashCells(o)) \/ FlashProgs(t[k], x)
      <4>1. CASE k = 1
        BY <2>2, <2>3, <2>5, <4>1
      <4>2. CASE k # 1
        BY <2>3, <4>2
      <4> QED BY <4>1, <4>2
    <3>2. \A k \in 1..Len(todo) : k + 0 = k /\ k - 0 = k /\ Len(todo) - 0 = Len(todo)
      BY <1>1
    <3> HIDE DEF o
    <3> QED BY <1>1, <2>3, <2>5, <3>1, <3>2 DEF FlashStepped
  <2> QED BY <1>4, <2>1, <2>3, <2>6
<1> QED BY <1>3, <1>4
-----------------------------------------------------------------------------
(* e is c after an access of o to the cells C.                             *)
FlashDid(c, e, o, C) ==
    /\ \A x \in C : x \in Nat /\ FlashTouches(o, x)
    /\ \A x \in 0..(FlashLen - 1) :
          /\ x \notin C => e[x] = c[x]
          /\ x \in C /\ FlashErases(o, x) => e[x] = FlashFF
          /\ x \in C /\ FlashProgs(o, x) => e[x] = FlashProg(c[x], o.d[x])

FlashAccess(c, e, todo, t, sh, C) ==
    /\ FlashStepped(todo, t, sh, C) /\ FlashDid(c, e, todo[1], C) /\ Len(todo) \in Nat
    /\ \A k \in 1..Len(todo), x \in Nat : FlashTouches(todo[k], x) => x \in 0..(FlashLen - 1)

\* What an access does, cell by cell.
LEMMA FlashEffectDid ==
    ASSUME NEW c, DOMAIN c = 0..(FlashLen - 1), NEW o \in FlashOps
    PROVE  FlashDid(c, FlashEffect(c, o), o, FlashCells(o))
<1>1. /\ o.at \in Nat /\ o.n \in Nat /\ FlashUnit(o) \in Nat /\ FlashUnit(o) <= o.n
      /\ o.op \notin {"erase", "prog"} => FlashUnit(o) = 0
  BY FlashUnitFacts DEF FlashOps
<1>2. \A x \in FlashCells(o) : x \in Nat /\ FlashTouches(o, x)
  BY <1>1 DEF FlashCells, FlashTouches, FlashErases, FlashProgs
<1>3. ASSUME NEW x \in 0..(FlashLen - 1)
      PROVE  LET e == FlashEffect(c, o) IN
          /\ x \notin FlashCells(o) => e[x] = c[x]
          /\ x \in FlashCells(o) /\ FlashErases(o, x) => e[x] = FlashFF
          /\ x \in FlashCells(o) /\ FlashProgs(o, x) => e[x] = FlashProg(c[x], o.d[x])
  BY DEF FlashEffect, FlashErases, FlashProgs
<1> QED BY <1>2, <1>3 DEF FlashDid

\* What is still to be touched after an access was to be touched before.
LEMMA FlashTouchNext ==
    ASSUME NEW c, NEW e, NEW todo, NEW t, NEW sh, NEW C, FlashAccess(c, e, todo, t, sh, C),
           NEW k \in 1..Len(t), NEW x \in Nat
    PROVE  /\ k + sh \in 1..Len(todo) /\ t[k].op = todo[k + sh].op /\ t[k].d = todo[k + sh].d
           /\ FlashErases(t[k], x) => FlashErases(todo[k + sh], x)
           /\ FlashProgs(t[k], x) => FlashProgs(todo[k + sh], x)
           /\ FlashTouches(t[k], x) => FlashTouches(todo[k + sh], x)
           /\ k + sh = 1 /\ FlashTouches(t[k], x) => x \notin C
<1>1. sh \in 0..1 /\ Len(todo) \in Nat /\ Len(t) = Len(todo) - sh
  BY DEF FlashAccess, FlashStepped
<1>2. k + sh \in 1..Len(todo)
  BY <1>1
<1>3. /\ t[k].op = todo[k + sh].op /\ t[k].d = todo[k + sh].d
      /\ FlashErases(t[k], x) => FlashErases(todo[k + sh], x)
      /\ FlashProgs(t[k], x) => FlashProgs(todo[k + sh], x)
  BY DEF FlashAccess, FlashStepped
<1>4. ASSUME k + sh = 1, FlashTouches(t[k], x), x \in C PROVE FALSE
  <2>1. k = 1 /\ sh = 0
    BY <1>1, <1>4
  <2>2. x < x
    BY <1>4, <2>1 DEF FlashAccess, FlashStepped
  <2> QED BY <2>2
<1> QED BY <1>2, <1>3, <1>4 DEF FlashTouches

\* Programmed once: nothing touches the cell after its access.
LEMMA FlashProgrammed ==
    ASSUME NEW c, NEW e, NEW todo, NEW t, NEW sh, NEW C, FlashAccess(c, e, todo, t, sh, C), FlashOrder(todo),
           NEW x \in C, FlashProgs(todo[1], x), NEW k \in 1..Len(t)
    PROVE  ~FlashTouches(t[k], x)
<1> SUFFICES ASSUME FlashTouches(t[k], x) PROVE FALSE
  OBVIOUS
<1>1. x \in Nat /\ 1 \in 1..Len(todo)
  BY DEF FlashAccess, FlashDid, FlashStepped
<1>2. k + sh \in 1..Len(todo) /\ FlashTouches(todo[k + sh], x) /\ k + sh # 1
  BY <1>1, FlashTouchNext
<1>3. 1 < k + sh
  BY <1>2
<1> QED BY <1>1, <1>2, <1>3 DEF FlashOrder

\* An access keeps the order of the loops,
LEMMA FlashOrderNext ==
    ASSUME NEW c, NEW e, NEW todo, NEW t, NEW sh, NEW C, FlashAccess(c, e, todo, t, sh, C), FlashOrder(todo)
    PROVE  FlashOrder(t)
<1> SUFFICES ASSUME NEW j \in 1..Len(t), NEW k \in 1..Len(t), j < k, NEW x \in Nat, FlashProgs(t[j], x), FlashTouches(t[k], x)
             PROVE  FALSE
  BY DEF FlashOrder
<1>1. /\ j + sh \in 1..Len(todo) /\ FlashProgs(todo[j + sh], x)
      /\ k + sh \in 1..Len(todo) /\ FlashTouches(todo[k + sh], x)
  BY FlashTouchNext
<1>2. j + sh < k + sh
  BY DEF FlashAccess, FlashStepped
<1> QED BY <1>1, <1>2 DEF FlashOrder

\* the cells to be programmed blank when their turn comes,
LEMMA FlashBlankedNext ==
    ASSUME NEW c, NEW e, NEW todo, NEW t, NEW sh, NEW C, FlashAccess(c, e, todo, t, sh, C),
           FlashOrder(todo), FlashBlanked(c, todo)
    PROVE  FlashBlanked(e, t)
<1> SUFFICES ASSUME NEW k \in 1..Len(t), NEW x \in Nat, FlashProgs(t[k], x)
             PROVE  \/ e[x] = FlashFF \/ e[x] = t[k].d[x]
                    \/ \E j \in 1..Len(t) : j < k /\ FlashErases(t[j], x)
  BY DEF FlashBlanked
<1>0. sh \in 0..1 /\ Len(todo) \in Nat /\ Len(t) = Len(todo) - sh
  BY DEF FlashAccess, FlashStepped
<1>1. /\ k + sh \in 1..Len(todo) /\ FlashProgs(todo[k + sh], x) /\ t[k].d = todo[k + sh].d
      /\ FlashTouches(todo[k + sh], x) /\ (k + sh = 1 => x \notin C)
  BY FlashTouchNext DEF FlashTouches
<1>2. x \in 0..(FlashLen - 1)
  BY <1>1 DEF FlashAccess
<1>3. CASE x \in C
  <2>1. FlashTouches(todo[1], x)
    BY <1>3 DEF FlashAccess, FlashDid
  <2>2. ~FlashProgs(todo[1], x)
    BY <1>3, FlashProgrammed DEF FlashTouches
  <2>3. FlashErases(todo[1], x)
    BY <2>1, <2>2 DEF FlashTouches
  <2> QED BY <1>2, <1>3, <2>3 DEF FlashAccess, FlashDid
<1>4. CASE x \notin C
  <2>1. e[x] = c[x]
    BY <1>2, <1>4 DEF FlashAccess, FlashDid
  <2>2. CASE \E j \in 1..Len(todo) : j < k + sh /\ FlashErases(todo[j], x)
    <3>1. PICK j \in 1..Len(todo) : j < k + sh /\ FlashErases(todo[j], x)
      BY <2>2
    <3>2. j - sh \in 1..Len(t) /\ FlashErases(t[j - sh], x)
      BY <1>4, <3>1 DEF FlashAccess, FlashStepped
    <3>3. j - sh < k
      BY <1>0, <3>1
    <3> QED BY <3>2, <3>3
  <2>3. CASE c[x] = FlashFF \/ c[x] = todo[k + sh].d[x]
    BY <1>1, <2>1, <2>3
  <2> QED BY <1>1, <2>2, <2>3 DEF FlashBlanked
<1> QED BY <1>3, <1>4

\* what a cell has in the end,
LEMMA FlashDueNext ==
    ASSUME NEW c, NEW e, NEW todo, NEW t, NEW sh, NEW C, FlashAccess(c, e, todo, t, sh, C),
           FlashOrder(todo), FlashBlanked(c, todo),
           NEW x \in 0..(FlashLen - 1), NEW v, \A k \in 1..Len(todo) : FlashProgs(todo[k], x) => todo[k].d[x] = v,
           FlashDue(c, todo, x, v)
    PROVE  FlashDue(e, t, x, v)
<1>0. x \in Nat /\ 1 \in 1..Len(todo)
  BY DEF FlashAccess, FlashStepped
<1>1. CASE c[x] = v /\ \A k \in 1..Len(todo) : ~FlashTouches(todo[k], x)
  <2>1. x \notin C
    BY <1>0, <1>1 DEF FlashAccess, FlashDid
  <2>2. e[x] = v
    BY <1>1, <2>1 DEF FlashAccess, FlashDid
  <2>3. \A k \in 1..Len(t) : ~FlashTouches(t[k], x)
    BY <1>0, <1>1, FlashTouchNext
  <2> QED BY <2>2, <2>3 DEF FlashDue
<1>2. CASE \E k \in 1..Len(todo) : FlashProgs(todo[k], x)
  <2>1. PICK k \in 1..Len(todo) : FlashProgs(todo[k], x)
    BY <1>2
  <2>2. CASE k = 1 /\ x \in C
    <3>1. c[x] = FlashFF \/ c[x] = v
      BY <1>0, <2>1, <2>2 DEF FlashBlanked
    <3>2. e[x] = FlashProg(c[x], v)
      BY <2>1, <2>2 DEF FlashAccess, FlashDid
    <3>3. e[x] = v
      BY <3>1, <3>2 DEF FlashProg
    <3>4. \A i \in 1..Len(t) : ~FlashTouches(t[i], x)
      BY <2>1, <2>2, FlashProgrammed
    <3> QED BY <3>3, <3>4 DEF FlashDue
  <2>3. CASE ~(k = 1 /\ x \in C)
    <3>1. k - sh \in 1..Len(t) /\ FlashProgs(t[k - sh], x)
      BY <1>0, <2>1, <2>3 DEF FlashAccess, FlashStepped
    <3> QED BY <3>1 DEF FlashDue
  <2> QED BY <2>2, <2>3
<1> QED BY <1>1, <1>2 DEF FlashDue

\* and what is blank in the end.
LEMMA FlashOpenNext ==
    ASSUME NEW c, NEW e, NEW todo, NEW t, NEW sh, NEW C, FlashAccess(c, e, todo, t, sh, C), FlashOrder(todo),
           NEW x \in 0..(FlashLen - 1), NEW v, \A k \in 1..Len(todo) : FlashProgs(todo[k], x) => todo[k].d[x] = v,
           FlashOpen(c, todo, x, v)
    PROVE  FlashOpen(e, t, x, v)
<1>0. x \in Nat /\ 1 \in 1..Len(todo)
  BY DEF FlashAccess, FlashStepped
<1>1. CASE \E k \in 1..Len(todo) : FlashErases(todo[k], x)
  <2>1. PICK k \in 1..Len(todo) : FlashErases(todo[k], x)
    BY <1>1
  <2>2. CASE k = 1 /\ x \in C
    BY <2>1, <2>2 DEF FlashAccess, FlashDid, FlashOpen
  <2>3. CASE ~(k = 1 /\ x \in C)
    <3>1. k - sh \in 1..Len(t) /\ FlashErases(t[k - sh], x)
      BY <1>0, <2>1, <2>3 DEF FlashAccess, FlashStepped
    <3> QED BY <3>1 DEF FlashOpen
  <2> QED BY <2>2, <2>3
<1>2. CASE c[x] = FlashFF \/ c[x] = v
  <2>1. CASE x \notin C
    BY <1>2, <2>1 DEF FlashAccess, FlashDid, FlashOpen
  <2>2. CASE x \in C /\ FlashErases(todo[1], x)
    BY <2>2 DEF FlashAccess, FlashDid, FlashOpen
  <2>3. CASE x \in C /\ FlashProgs(todo[1], x)
    <3>1. e[x] = FlashProg(c[x], v)
      BY <1>0, <2>3 DEF FlashAccess, FlashDid
    <3>2. e[x] = v
      BY <1>2, <3>1 DEF FlashProg
    <3> QED BY <3>2 DEF FlashOpen
  <2>4. x \in C => FlashErases(todo[1], x) \/ FlashProgs(todo[1], x)
    BY DEF FlashAccess, FlashDid, FlashTouches
  <2> QED BY <2>1, <2>2, <2>3, <2>4
<1> QED BY <1>1, <1>2 DEF FlashOpen
\* The last loop stays the last.
LEMMA FlashLastOp ==
    ASSUME NEW c, NEW e, NEW todo, NEW t, NEW sh, NEW C, FlashAccess(c, e, todo, t, sh, C), Len(t) # 0
    PROVE  /\ Len(t) \in 1..Len(t) /\ Len(t) + sh = Len(todo)
           /\ t[Len(t)].op = todo[Len(todo)].op /\ t[Len(t)].d = todo[Len(todo)].d
<1>1. sh \in 0..1 /\ Len(todo) \in Nat /\ Len(todo) >= 1 /\ Len(t) = Len(todo) - sh
  BY DEF FlashAccess, FlashStepped
<1>2. Len(t) \in 1..Len(t) /\ Len(t) + sh = Len(todo)
  BY <1>1
<1> QED BY <1>2, FlashTouchNext

\* An access keeps the header of a master image the last to be written,
LEMMA FlashLastNext ==
    ASSUME NEW c, NEW e, NEW todo, NEW t, NEW sh, NEW C, FlashAccess(c, e, todo, t, sh, C), FlashLast(todo)
    PROVE  FlashLast(t)
<1> SUFFICES ASSUME NEW k \in 1..Len(t), FlashProgs(t[k], FlashMaster + 1)
             PROVE  /\ t[Len(t)].op = "done"
                    /\ \A j \in 1..Len(t), x \in Nat :
                          j >= k /\ FlashTouches(t[j], x) => j = k /\ x <= FlashMaster + 1
  BY DEF FlashLast
<1>0. sh \in 0..1 /\ Len(todo) \in Nat /\ Len(t) = Len(todo) - sh /\ FlashMaster + 1 \in Nat /\ Len(t) # 0
  BY FlashAssumption DEF FlashAccess, FlashStepped
<1>1. k + sh \in 1..Len(todo) /\ FlashProgs(todo[k + sh], FlashMaster + 1)
  BY <1>0, FlashTouchNext
<1>2. todo[Len(todo)].op = "done"
  BY <1>1 DEF FlashLast
<1>3. ASSUME NEW j \in 1..Len(t), NEW x \in Nat, j >= k, FlashTouches(t[j], x)
      PROVE  j = k /\ x <= FlashMaster + 1
  <2>1. j + sh \in 1..Len(todo) /\ FlashTouches(todo[j + sh], x)
    BY <1>3, FlashTouchNext
  <2>2. j + sh >= k + sh
    BY <1>0, <1>3
  <2>3. j + sh = k + sh /\ x <= FlashMaster + 1
    BY <1>1, <2>1, <2>2 DEF FlashLast
  <2> QED BY <1>0, <2>3
<1>4. t[Len(t)].op = "done"
  BY <1>0, <1>2, FlashLastOp
<1> QED BY <1>3, <1>4

\* and hidden until then.
LEMMA FlashHiddenNext ==
    ASSUME NEW c, NEW e, NEW todo, NEW t, NEW sh, FlashAccess(c, e, todo, t, sh, FlashCells(todo[1])), Len(t) # 0,
           todo[1] \in FlashOps, todo[1].op = "erase" => FlashUnit(todo[1]) # 0, FlashLast(todo), FlashHidden(c, todo)
    PROVE  FlashHidden(e, t)
<1> DEFINE C == FlashCells(todo[1])
           m == FlashMaster + 1
<1>0. m \in 0..(FlashLen - 1) /\ m \in Nat /\ 1 \in 1..Len(todo) /\ FlashMaster \in Nat
  BY FlashAssumption DEF FlashAccess, FlashStepped
<1>1. t[Len(t)].op = todo[Len(todo)].op
  BY FlashLastOp
<1>2. CASE todo[1].op = "erase" /\ todo[1].at = FlashMaster
  <2>1. FlashUnit(todo[1]) \in Nat /\ FlashUnit(todo[1]) > 2
    BY <1>2, FlashUnitFacts
  <2>2. m \in C
    BY <1>0, <1>2, <2>1 DEF FlashCells
  <2>3. FlashErases(todo[1], m)
    BY <1>2, <2>2 DEF FlashAccess, FlashDid, FlashTouches, FlashProgs
  <2>4. e[m] = FlashFF
    BY <1>0, <2>2, <2>3 DEF FlashAccess, FlashDid
  <2> QED BY <2>4 DEF FlashHidden
<1>3. CASE c[m] = FlashFF
  <2>1. CASE m \notin C
    BY <1>0, <1>3, <2>1 DEF FlashAccess, FlashDid, FlashHidden
  <2>2. CASE m \in C /\ FlashErases(todo[1], m)
    BY <1>0, <2>2 DEF FlashAccess, FlashDid, FlashHidden
  <2>3. CASE m \in C /\ FlashProgs(todo[1], m)
    <3>1. /\ todo[Len(todo)].op = "done"
          /\ \A j \in 1..Len(todo), x \in Nat : j >= 1 /\ FlashTouches(todo[j], x) => j = 1 /\ x <= m
      BY <1>0, <2>3 DEF FlashLast
    <3>2. ASSUME NEW k \in 1..Len(t), NEW x \in Nat, FlashTouches(t[k], x) PROVE FALSE
      <4>1. k + sh \in 1..Len(todo) /\ FlashTouches(todo[k + sh], x)
        BY <3>2, FlashTouchNext
      <4>2. k + sh = 1 /\ x <= m
        BY <3>1, <4>1
      <4>3. k = 1 /\ sh = 0
        BY <4>2 DEF FlashAccess, FlashStepped
      <4>4. m < x
        BY <2>3, <3>2, <4>3 DEF FlashAccess, FlashStepped
      <4> QED BY <1>0, <4>2, <4>4
    <3> QED BY <1>1, <3>1, <3>2 DEF FlashHidden
  <2>4. m \in C => FlashErases(todo[1], m) \/ FlashProgs(todo[1], m)
    BY DEF FlashAccess, FlashDid, FlashTouches
  <2> QED BY <2>1, <2>2, <2>3, <2>4
<1>4. CASE todo[Len(todo)].op = "done" /\ \A k \in 1..Len(todo) : \A x \in Nat : ~FlashTouches(todo[k], x)
  <2>1. ASSUME NEW k \in 1..Len(t), NEW x \in Nat, FlashTouches(t[k], x) PROVE FALSE
    <3>1. k + sh \in 1..Len(todo) /\ FlashTouches(todo[k + sh], x)
      BY <2>1, FlashTouchNext
    <3> QED BY <1>4, <3>1
  <2> QED BY <1>1, <1>4, <2>1 DEF FlashHidden
<1> QED BY <1>2, <1>3, <1>4 DEF FlashHidden
-----------------------------------------------------------------------------
\* The contents while an access is under way: what it touches is as before, as
\* after it, or neither.
FlashCut(c, e, o) ==
    \/ \A x \in 0..(FlashLen - 1) : e[x] = c[x]
    \/ \A x \in 0..(FlashLen - 1) :
          \/ x \notin FlashCells(o) /\ e[x] = c[x]
          \/ /\ x \in FlashCells(o)
             /\ \/ e[x] = FlashJunk
                \/ FlashErases(o, x) /\ e[x] = FlashFF
                \/ FlashProgs(o, x) /\ e[x] = FlashProg(c[x], o.d[x])

\* An access that did not come to its end, cell by cell.
LEMMA FlashCutIs ==
    ASSUME NEW c, DOMAIN c = 0..(FlashLen - 1), NEW o \in FlashOps, NEW e \in FlashCutShort(c, o)
    PROVE  FlashCut(c, e, o) /\ DOMAIN e = 0..(FlashLen - 1)
<1>1. FlashDid(c, FlashEffect(c, o), o, FlashCells(o))
  BY FlashEffectDid
<1>2. CASE e = FlashEffect(c, o)
  <2>1. \A x \in FlashCells(o) : FlashErases(o, x) \/ FlashProgs(o, x)
    BY <1>1 DEF FlashDid, FlashTouches
  <2>2. DOMAIN e = 0..(FlashLen - 1)
    BY <1>2 DEF FlashEffect
  <2>3. ASSUME NEW x \in 0..(FlashLen - 1)
        PROVE  \/ x \notin FlashCells(o) /\ e[x] = c[x]
               \/ /\ x \in FlashCells(o)
                  /\ \/ FlashErases(o, x) /\ e[x] = FlashFF
                     \/ FlashProgs(o, x) /\ e[x] = FlashProg(c[x], o.d[x])
    <3>1. CASE x \notin FlashCells(o)
      BY <1>1, <1>2, <3>1 DEF FlashDid
    <3>2. CASE x \in FlashCells(o)
      BY <1>1, <1>2, <2>1, <3>2 DEF FlashDid
    <3> QED BY <3>1, <3>2
  <2> QED BY <2>2, <2>3 DEF FlashCut
<1>3. CASE e = c
  BY <1>3 DEF FlashCut
<1>4. CASE e = [i \in DOMAIN c |-> IF i \in FlashCells(o) THEN FlashJunk ELSE c[i]]
  <2>1. DOMAIN e = 0..(FlashLen - 1)
    BY <1>4
  <2>2. \A x \in 0..(FlashLen - 1) : e[x] = IF x \in FlashCells(o) THEN FlashJunk ELSE c[x]
    BY <1>4
  <2> QED BY <2>1, <2>2 DEF FlashCut
<1> QED BY <1>2, <1>3, <1>4 DEF FlashCutShort

\* Values of cells are told apart.
LEMMA FlashValues ==
    /\ FlashFF # FlashJunk
    /\ \A f \in FlashFiles, i \in Nat : <<f.id, i>> # FlashFF /\ <<f.id, i>> # FlashJunk
    /\ \A f, h \in FlashFiles, i, j \in Nat : <<f.id, i>> = <<h.id, j>> => f = h /\ i = j
    /\ \A f \in FlashFiles : f.len \in Nat /\ f.len >= 2
<1>1. \A f \in FlashFiles : f.len \in Nat /\ f.len >= 2
  <2> SUFFICES ASSUME NEW f \in FlashFiles PROVE f.len \in Nat /\ f.len >= 2
    OBVIOUS
  <2>1. f.len \in Nat \ {0} /\ f.len % 2 = 0
    BY FlashAssumption
  <2> QED BY <2>1
<1>2. \A f \in FlashFiles, i \in Nat : <<f.id, i>> # FlashFF /\ <<f.id, i>> # FlashJunk
  BY FlashAssumption DEF FlashFF, FlashJunk
<1>3. \A f, h \in FlashFiles, i, j \in Nat : <<f.id, i>> = <<h.id, j>> => f = h /\ i = j
  BY FlashAssumption
<1> QED BY <1>1, <1>2, <1>3 DEF FlashFF, FlashJunk

\* An image is known by its id.
LEMMA FlashImgIs ==
    ASSUME NEW f \in FlashFiles PROVE FlashImg(f.id) = f
BY FlashAssumption DEF FlashImg

\* xlnx_btstrm_parse_header finds f where its header is, and nothing else.
LEMMA FlashParse ==
    ASSUME NEW c, NEW base
    PROVE  /\ \A f \in FlashFiles : c[base + 0] = <<f.id, 0>> /\ c[base + 1] = <<f.id, 1>> /\ base + 0 = base =>
                   xlnx_btstrm_parse_header(c, base) = f.id
           /\ base + 0 = base /\ xlnx_btstrm_parse_header(c, base) # FlashNone =>
                   \E f \in FlashFiles : /\ xlnx_btstrm_parse_header(c, base) = f.id
                                         /\ c[base] = <<f.id, 0>> /\ c[base + 1] = <<f.id, 1>>
           /\ \A f \in FlashFiles : f.id # FlashNone
<1>1. FlashHdr = {0, 1}
  BY DEF FlashHdr
<1>2. \A f \in FlashFiles : (\A i \in FlashHdr : c[base + i] = <<f.id, i>>) <=>
          c[base + 0] = <<f.id, 0>> /\ c[base + 1] = <<f.id, 1>>
  BY <1>1
<1>3. \A f \in FlashFiles : f.id # FlashNone
  BY FlashAssumption DEF FlashNone
<1>4. \A f \in FlashFiles : <<f.id, 0>>[1] = f.id
  OBVIOUS
<1> QED BY <1>2, <1>3, <1>4 DEF xlnx_btstrm_parse_header
\* What an access of an update touches, whether it comes to its end or not.
LEMMA FlashCutTouches ==
    ASSUME NEW c, NEW e, NEW o \in FlashOps, NEW f \in FlashFiles, NEW b \in FlashBases,
           FlashLoop(o, f, b), FlashCut(c, e, o), NEW x \in 0..(FlashLen - 1), e[x] # c[x]
    PROVE  /\ x \in FlashCells(o) /\ x \in FlashRegion(b)
           /\ e[x] \in {FlashJunk, FlashFF, FlashBlock(f, x - b, FALSE)}
<1>1. /\ x \in FlashCells(o)
      /\ \/ e[x] = FlashJunk
         \/ FlashErases(o, x) /\ e[x] = FlashFF
         \/ FlashProgs(o, x) /\ e[x] = FlashProg(c[x], o.d[x])
  BY DEF FlashCut
<1>2. o.at \in Nat /\ o.n \in Nat /\ FlashUnit(o) \in Nat /\ FlashUnit(o) <= o.n
  BY FlashUnitFacts DEF FlashOps
<1>3. x \in o.at..(o.at + o.n - 1)
  BY <1>1, <1>2 DEF FlashCells
<1>4. x \in FlashRegion(b) /\ (o.op = "prog" => o.d[x] = FlashBlock(f, x - b, FALSE))
  BY <1>3 DEF FlashLoop
<1>5. FlashProgs(o, x) => o.op = "prog"
  BY DEF FlashProgs
<1>6. FlashProg(c[x], o.d[x]) \in {c[x], o.d[x], FlashJunk}
  BY DEF FlashProg
<1> QED BY <1>1, <1>4, <1>5, <1>6

\* A block of the image inside the image.
LEMMA FlashBlockIs ==
    ASSUME NEW f \in FlashFiles, NEW i \in 0..(f.len - 1) PROVE FlashBlock(f, i, FALSE) = <<f.id, i>>
<1>1. f.len \in Nat
  BY FlashValues
<1> QED BY <1>1 DEF FlashBlock

\* The images fit where they go.
LEMMA FlashRooms ==
    /\ FlashMaster \in Nat /\ FlashLen \in Nat /\ FlashMaster > 0 /\ FlashLen > FlashMaster + 2
    /\ \A f \in FlashFiles : /\ f.iprog \in BOOLEAN /\ f.len \in Nat /\ f.len >= 2
                             /\ f.iprog => f.len <= FlashMaster /\ f.wbstar # 0
                             /\ ~f.iprog => FlashMaster + f.len <= FlashLen
<1>1. /\ FlashMaster \in Nat /\ FlashLen \in Nat /\ FlashMaster > 0 /\ FlashLen > FlashMaster + 2
  BY FlashAssumption
<1>2. ASSUME NEW f \in FlashFiles
      PROVE  /\ f.iprog \in BOOLEAN /\ f.len \in Nat /\ f.len >= 2
             /\ f.iprog => f.len <= FlashMaster /\ f.wbstar # 0
             /\ ~f.iprog => FlashMaster + f.len <= FlashLen
  <2>1. f.iprog \in BOOLEAN /\ (f.iprog => f.wbstar # 0) /\ f.len <= (IF f.iprog THEN FlashMaster ELSE FlashLen - FlashMaster)
    BY FlashAssumption
  <2>2. f.len \in Nat /\ f.len >= 2
    BY FlashValues
  <2>3. CASE f.iprog
    BY <2>1, <2>2, <2>3
  <2>4. CASE ~f.iprog
    BY <1>1, <2>1, <2>2, <2>4
  <2> QED BY <2>3, <2>4
<1> QED BY <1>1, <1>2

\* An access, even one cut short, leaves no wrong header behind,
LEMMA FlashCutHeaders ==
    ASSUME NEW c, NEW e, NEW o \in FlashOps, NEW f \in FlashFiles, NEW b \in FlashBases,
           FlashOkImg(f, b), FlashLoop(o, f, b), FlashCut(c, e, o), FlashHeaders(c)
    PROVE  /\ FlashHeaders(e)
           /\ b # 0 /\ FlashGoldWhole(c) => FlashGoldWhole(e)
           /\ b # 0 /\ FlashJumps(c) => FlashJumps(e)
<1>0. 0 \in 0..(FlashLen - 1) /\ FlashMaster \in 0..(FlashLen - 1) /\ 0 \notin FlashRegion(FlashMaster) /\ FlashMaster \notin FlashRegion(0)
  BY FlashRooms DEF FlashRegion
<1>1. b = 0 => f.iprog /\ f.devid = FlashDevid
  BY DEF FlashOkImg
<1>2. b # 0 => ~f.iprog
  BY FlashRooms DEF FlashOkImg
<1>c. ASSUME NEW x \in 0..(FlashLen - 1), e[x] # c[x]
      PROVE  x \in FlashRegion(b) /\ e[x] \in {FlashJunk, FlashFF, FlashBlock(f, x - b, FALSE)}
  BY <1>c, FlashCutTouches
<1>3. FlashHeaders(e)
  <2> SUFFICES ASSUME NEW h \in FlashFiles
               PROVE  /\ e[0] = <<h.id, 0>> => h.iprog /\ h.devid = FlashDevid
                      /\ e[FlashMaster] = <<h.id, 0>> => ~h.iprog
    BY DEF FlashHeaders
  <2>0. FlashBlock(f, 0, FALSE) = <<f.id, 0>>
    <3>1. 0 \in 0..(f.len - 1)
      BY FlashRooms
    <3> QED BY <3>1, FlashBlockIs
  <2>1. ASSUME e[0] = <<h.id, 0>> PROVE h.iprog /\ h.devid = FlashDevid
    <3>1. CASE e[0] = c[0]
      BY <2>1, <3>1 DEF FlashHeaders
    <3>2. CASE e[0] # c[0]
      <4>1. 0 \in FlashRegion(b) /\ e[0] \in {FlashJunk, FlashFF, FlashBlock(f, 0 - b, FALSE)}
        BY <1>0, <1>c, <3>2
      <4>2. b = 0 /\ 0 - b = 0
        <5>1. b = 0
          BY <1>0, <4>1 DEF FlashBases
        <5> QED BY <5>1
      <4>3. e[0] = <<f.id, 0>>
        <5>1. e[0] \in {FlashJunk, FlashFF, <<f.id, 0>>}
          BY <2>0, <4>1, <4>2
        <5> QED BY <2>1, <5>1, FlashValues
      <4> QED BY <1>1, <2>1, <4>2, <4>3, FlashValues
    <3> QED BY <3>1, <3>2
  <2>2. ASSUME e[FlashMaster] = <<h.id, 0>> PROVE ~h.iprog
    <3>1. CASE e[FlashMaster] = c[FlashMaster]
      BY <2>2, <3>1 DEF FlashHeaders
    <3>2. CASE e[FlashMaster] # c[FlashMaster]
      <4>1. /\ FlashMaster \in FlashRegion(b)
            /\ e[FlashMaster] \in {FlashJunk, FlashFF, FlashBlock(f, FlashMaster - b, FALSE)}
        BY <1>0, <1>c, <3>2
      <4>2. b # 0 /\ FlashMaster - b = 0
        <5>1. b # 0
          BY <1>0, <4>1
        <5>2. b = FlashMaster
          BY <5>1 DEF FlashBases
        <5> QED BY <5>1, <5>2, FlashRooms
      <4>3. e[FlashMaster] = <<f.id, 0>>
        <5>1. e[FlashMaster] \in {FlashJunk, FlashFF, <<f.id, 0>>}
          BY <2>0, <4>1, <4>2
        <5> QED BY <2>2, <5>1, FlashValues
      <4> QED BY <1>2, <2>2, <4>2, <4>3, FlashValues
    <3> QED BY <3>1, <3>2
  <2> QED BY <2>1, <2>2
<1>4. ASSUME b # 0, NEW x \in 0..(FlashMaster - 1) PROVE e[x] = c[x]
  <2>1. x \in 0..(FlashLen - 1) /\ x \notin FlashRegion(b)
    BY <1>4, FlashRooms DEF FlashRegion
  <2> QED BY <2>1, FlashCutTouches
<1>5. ASSUME b # 0, FlashGoldWhole(c) PROVE FlashGoldWhole(e)
  <2>1. PICK g \in FlashFiles : g.iprog /\ g.devid = FlashDevid /\ \A i \in 0..(g.len - 1) : c[i] = <<g.id, i>>
    BY <1>5 DEF FlashGoldWhole
  <2>2. \A i \in 0..(g.len - 1) : i \in 0..(FlashMaster - 1)
    BY <2>1, FlashRooms
  <2> QED BY <1>4, <1>5, <2>1, <2>2 DEF FlashGoldWhole
<1>6. ASSUME b # 0, FlashJumps(c) PROVE FlashJumps(e)
  <2>1. PICK g \in FlashFiles : /\ \A i \in FlashHdr : c[i] = <<g.id, i>>
                                /\ g.iprog /\ g.wbstar = FlashMaster /\ g.devid = FlashDevid
    BY <1>6 DEF FlashJumps
  <2>2. \A i \in FlashHdr : i \in 0..(FlashMaster - 1)
    BY <2>1, FlashRooms DEF FlashHdr
  <2> QED BY <1>4, <1>6, <2>1, <2>2 DEF FlashJumps
<1> QED BY <1>3, <1>5, <1>6

\* and no readable header of a master image without the image.
LEMMA FlashCutMaster ==
    ASSUME NEW c, NEW e, NEW todo \in Seq(FlashOps), todo # <<>>, NEW f \in FlashFiles, NEW b \in FlashBases,
           FlashOkImg(f, b), \A k \in 1..Len(todo) : FlashLoop(todo[k], f, b),
           FlashCut(c, e, todo[1]), FlashHeaders(c), FlashMasterWhole(c),
           b # 0 => /\ FlashLast(todo) /\ FlashHidden(c, todo)
                    /\ todo[Len(todo)].op = "done" =>
                          \A i \in 0..(f.len - 1) : FlashDue(c, todo, FlashMaster + i, <<f.id, i>>)
    PROVE  FlashMasterWhole(e)
<1> DEFINE o == todo[1]
           m == FlashMaster + 1
<1>0. /\ 1 \in 1..Len(todo) /\ o \in FlashOps /\ FlashLoop(o, f, b) /\ Len(todo) \in Nat
      /\ m \in 0..(FlashLen - 1) /\ m \in Nat /\ FlashMaster \in 0..(FlashLen - 1) /\ FlashMaster \in Nat
  BY FlashRooms
<1> SUFFICES ASSUME NEW h \in FlashFiles, e[m] = <<h.id, 1>>, e[FlashMaster] = <<h.id, 0>>,
                    NEW i \in 0..(h.len - 1)
             PROVE  e[FlashMaster + i] = <<h.id, i>>
  BY DEF FlashMasterWhole
<1>a. h.len \in Nat /\ i \in Nat
  BY FlashRooms
<1>1. FlashHeaders(e)
  BY <1>0, FlashCutHeaders
<1>2. ~h.iprog
  BY <1>1 DEF FlashHeaders
<1>3. FlashMaster + i \in 0..(FlashLen - 1)
  BY <1>2, <1>a, FlashRooms
<1>4. CASE \A x \in FlashMaster..(FlashLen - 1) : e[x] = c[x]
  <2>1. FlashMaster + i \in FlashMaster..(FlashLen - 1) /\ m \in FlashMaster..(FlashLen - 1) /\ FlashMaster \in FlashMaster..(FlashLen - 1)
    BY <1>0, <1>3, <1>a
  <2>2. c[FlashMaster + i] = <<h.id, i>>
    BY <1>4, <2>1 DEF FlashMasterWhole
  <2> QED BY <1>4, <2>1, <2>2
<1>5. CASE b = 0
  <2>1. \A x \in FlashMaster..(FlashLen - 1) : x \in 0..(FlashLen - 1) /\ x \notin FlashRegion(0)
    BY <1>0 DEF FlashRegion
  <2>2. \A x \in FlashMaster..(FlashLen - 1) : e[x] = c[x]
    BY <1>0, <1>5, <2>1, FlashCutTouches
  <2> QED BY <1>4, <2>2
<1>6. CASE b # 0 /\ FlashCells(o) = {}
  <2>1. \A x \in FlashMaster..(FlashLen - 1) : x \in 0..(FlashLen - 1)
    BY <1>0
  <2>2. \A x \in FlashMaster..(FlashLen - 1) : e[x] = c[x]
    BY <1>6, <2>1 DEF FlashCut
  <2> QED BY <1>4, <2>2
<1>7. CASE b # 0 /\ FlashCells(o) # {}
  <2>0. o.at \in Nat /\ o.n \in Nat /\ FlashUnit(o) \in Nat /\ FlashUnit(o) # 0 /\ FlashUnit(o) <= o.n
    <3>1. o.at \in Nat /\ o.n \in Nat /\ FlashUnit(o) \in Nat /\ FlashUnit(o) <= o.n
      BY <1>0, FlashUnitFacts DEF FlashOps
    <3>2. FlashUnit(o) # 0
      BY <1>7, <3>1 DEF FlashCells
    <3> QED BY <3>1, <3>2
  <2>t. \A x \in FlashCells(o) : x \in Nat /\ FlashTouches(o, x)
    BY <1>0, <2>0, FlashUnitFacts, SMTT(30) DEF FlashCells, FlashTouches, FlashErases, FlashProgs
  <2>1. CASE o.op = "erase" /\ o.at = FlashMaster
    <3>1. FlashUnit(o) > 2
      BY <1>0, <2>0, <2>1, FlashUnitFacts
    <3>2. {FlashMaster, m} \subseteq FlashCells(o)
      BY <1>0, <2>0, <2>1, <3>1 DEF FlashCells
    <3>3. ~FlashProgs(o, m)
      BY <2>1 DEF FlashProgs
    <3>4. e[m] # FlashJunk /\ e[m] # FlashFF
      BY FlashValues
    <3>5. \A x \in 0..(FlashLen - 1) : e[x] = c[x]
      BY <1>0, <3>2, <3>3, <3>4 DEF FlashCut
    <3>6. c[FlashMaster + i] = <<h.id, i>>
      BY <1>0, <3>5 DEF FlashMasterWhole
    <3> QED BY <1>3, <3>5, <3>6
  <2>2. CASE c[m] = FlashFF
    <3>1. e[m] # c[m]
      BY <2>2, FlashValues
    <3>a. e[m] # FlashJunk /\ e[m] # FlashFF
      BY FlashValues
    <3>b. m \in FlashCells(o) /\ e[m] \in {FlashJunk, FlashFF, FlashBlock(f, m - b, FALSE)}
      <4>1. PICK p : p = o /\ p \in FlashOps /\ FlashLoop(p, f, b) /\ FlashCut(c, e, p)
        BY <1>0
      <4> HIDE DEF m, o
      <4>2. m \in FlashCells(p) /\ e[m] \in {FlashJunk, FlashFF, FlashBlock(f, m - b, FALSE)}
        BY <1>0, <3>1, <4>1, FlashCutTouches
      <4> QED BY <4>1, <4>2
    <3>c. FlashProgs(o, m)
      BY <1>0, <3>1, <3>a DEF FlashCut
    <3>2. m \in FlashCells(o) /\ FlashProgs(o, m) /\ e[m] = FlashBlock(f, m - b, FALSE)
      BY <3>a, <3>b, <3>c
    <3>3. e[m] = <<f.id, 1>>
      <4>1. b = FlashMaster
        BY <1>7 DEF FlashBases
      <4>2. 1 \in 0..(f.len - 1) /\ m - FlashMaster = 1
        BY <1>0, FlashRooms
      <4> QED BY <3>2, <4>1, <4>2, FlashBlockIs
    <3>4. h = f
      BY <3>3, FlashValues
    <3>5. FlashCells(o) = {m}
      <4>1. o.op = "prog"
        BY <3>2 DEF FlashProgs
      <4>2. FlashUnit(o) = 1
        BY <1>0, <2>0, <4>1, FlashUnitFacts
      <4> QED BY <1>0, <2>0, <3>2, <4>2 DEF FlashCells
    <3>6. /\ todo[Len(todo)].op = "done"
          /\ \A j \in 1..Len(todo), x \in Nat : j >= 1 /\ FlashTouches(todo[j], x) => j = 1 /\ x <= m
      BY <1>0, <1>7, <3>2 DEF FlashLast
    <3>7. CASE i = 1
      BY <3>3, <3>4, <3>7
    <3>8. CASE i # 1
      <4>1. FlashMaster + i \notin FlashCells(o) /\ FlashMaster + i \in Nat
        BY <1>0, <1>a, <3>5, <3>8
      <4>2. e[FlashMaster + i] = c[FlashMaster + i]
        BY <1>3, <4>1 DEF FlashCut
      <4>3. FlashDue(c, todo, FlashMaster + i, <<f.id, i>>)
        BY <1>7, <3>4, <3>6
      <4>4. ASSUME NEW k \in 1..Len(todo), FlashProgs(todo[k], FlashMaster + i) PROVE c[FlashMaster + i] = <<f.id, i>>
        <5>1. FlashTouches(todo[k], FlashMaster + i)
          BY <4>4 DEF FlashTouches
        <5>2. k = 1 /\ FlashMaster + i <= m
          BY <3>6, <4>1, <5>1
        <5>3. i = 0
          BY <1>0, <1>a, <3>8, <5>2
        <5>4. FlashMaster >= m
          <6>1. o.at = m
            BY <2>0, <3>5 DEF FlashCells
          <6>2. FlashMaster \in o.at..(o.at + o.n - 1)
            BY <1>0, <4>4, <5>2, <5>3 DEF FlashProgs
          <6> QED BY <1>0, <2>0, <6>1, <6>2
        <5> QED BY <1>0, <5>4
      <4> QED BY <3>4, <4>2, <4>3, <4>4 DEF FlashDue
    <3> QED BY <3>7, <3>8
  <2>3. CASE \A k \in 1..Len(todo) : \A x \in Nat : ~FlashTouches(todo[k], x)
    BY <1>0, <1>7, <2>3, <2>t
  <2> QED BY <1>7, <2>1, <2>2, <2>3 DEF FlashHidden
<1> QED BY <1>5, <1>6, <1>7
-----------------------------------------------------------------------------
\* Rounding up to a multiple of u does not reach beyond another multiple.
LEMMA FlashRoundIs ==
    ASSUME NEW n \in Nat \ {0}, NEW u \in Nat \ {0}, NEW p \in Nat, n <= u * p
    PROVE  /\ FlashRoundUp(n, u) \in Nat /\ n <= FlashRoundUp(n, u) /\ u <= FlashRoundUp(n, u)
           /\ FlashRoundUp(n, u) <= u * p
           /\ FlashRoundUp(n, u) = u + ((n - 1) \div u) * u
<1> DEFINE q == (n - 1) \div u
           r == (n - 1) % u
<1>0. n - 1 \in Nat
  OBVIOUS
<1>1. q \in Nat /\ r \in 0..(u - 1) /\ n - 1 = u * q + r
  BY <1>0, DivMod
<1> HIDE DEF q, r
<1>2. u * (q + 1) = u * q + u /\ u * q \in Nat /\ u * p \in Nat /\ u * (q + 1) \in Nat
  BY <1>1
<1>3. n + u - 1 = u * (q + 1) + r
  BY <1>1, <1>2
<1>4. (u * (q + 1) + r) \div u = q + 1
  BY <1>1, DivModUnique
<1>5. FlashRoundUp(n, u) = (q + 1) * u
  BY <1>3, <1>4 DEF FlashRoundUp
<1>6. (q + 1) * u = u * (q + 1) /\ q * u = u * q
  BY <1>1
<1>7. q < p
  <2>1. CASE p <= q
    <3>1. u * p <= u * q
      BY <1>1, <2>1, TimesGrows
    <3> QED BY <1>1, <1>2, <3>1
  <2> QED BY <1>1, <2>1
<1>8. u * (q + 1) <= u * p
  BY <1>1, <1>7, TimesGrows
<1> QED BY <1>1, <1>2, <1>5, <1>6, <1>8 DEF q

\* A number without a remainder is a multiple.
LEMMA FlashMultiple ==
    ASSUME NEW a \in Nat, NEW u \in Nat \ {0}, a % u = 0
    PROVE  \E p \in Nat : a = u * p
<1>1. a \div u \in Nat /\ a = u * (a \div u) + (a % u)
  BY DivMod
<1>2. u * (a \div u) \in Nat
  BY <1>1
<1>3. a = u * (a \div u)
  BY <1>1, <1>2
<1> QED BY <1>1, <1>3

\* The rounded lengths of both kinds of image stay where the image goes.
LEMMA FlashRounded ==
    ASSUME NEW f \in FlashFiles, NEW b \in FlashBases, f.iprog <=> b = 0, NEW u \in {FlashSub, FlashSect}
    PROVE  /\ FlashRoundUp(f.len, u) \in Nat /\ f.len <= FlashRoundUp(f.len, u) /\ u <= FlashRoundUp(f.len, u)
           /\ FlashRoundUp(f.len, u) = u + ((f.len - 1) \div u) * u
           /\ \A x \in b..(b + FlashRoundUp(f.len, u) - 1) : x \in FlashRegion(b)
<1>0. /\ FlashSub \in Nat /\ FlashSect \in Nat /\ FlashSub > 2 /\ FlashSect >= FlashSub
      /\ FlashSect % FlashSub = 0 /\ FlashMaster % FlashSect = 0 /\ FlashLen % FlashSect = 0
  BY FlashAssumption
<1>1. /\ FlashMaster \in Nat /\ FlashLen \in Nat /\ FlashMaster > 0 /\ FlashLen > FlashMaster + 2
      /\ f.len \in Nat /\ f.len >= 2
  BY FlashRooms
<1>r. b = 0 => f.len <= FlashMaster
  BY FlashRooms
<1>q. b # 0 => FlashMaster + f.len <= FlashLen
  BY FlashRooms
<1>s. FlashSect \in Nat \ {0} /\ FlashMaster \in Nat /\ FlashMaster % FlashSect = 0
  BY <1>0, <1>1
<1>2. PICK m \in Nat : FlashMaster = FlashSect * m
  BY <1>s, FlashMultiple
<1>t. FlashLen \in Nat /\ FlashLen % FlashSect = 0
  BY <1>0, <1>1
<1>3. PICK l \in Nat : FlashLen = FlashSect * l
  BY <1>s, <1>t, FlashMultiple
<1>4. PICK k \in Nat : FlashSect = u * k
  <2>1. CASE u = FlashSect
    <3>1. FlashSect = u * 1
      BY <1>0, <2>1
    <3> QED BY <3>1
  <2>2. CASE u = FlashSub
    BY <1>0, <2>2, FlashMultiple
  <2> QED BY <2>1, <2>2
<1>5. FlashLen - FlashMaster = FlashSect * (l - m) /\ l - m \in Nat
  <2>1. CASE l < m
    <3>1. FlashSect * l <= FlashSect * m
      BY <1>0, <2>1, TimesGrows
    <3> QED BY <1>1, <1>2, <1>3, <3>1
  <2>2. FlashSect * (l - m) = FlashSect * l - FlashSect * m
    BY <1>0
  <2> QED BY <1>2, <1>3, <2>1, <2>2
<1>6. u \in Nat \ {0}
  BY <1>0
<1>7. PICK room \in Nat : (room = FlashMaster /\ b = 0) \/ (room = FlashLen - FlashMaster /\ b = FlashMaster)
  <2>1. FlashMaster \in Nat /\ FlashLen - FlashMaster \in Nat
    BY <1>1
  <2>2. b = 0 \/ b = FlashMaster
    BY DEF FlashBases
  <2> QED BY <2>1, <2>2
<1>8. f.len <= room
  <2>1. CASE b = 0
    <3>1. room = FlashMaster
      BY <1>1, <1>7, <2>1
    <3> QED BY <1>r, <2>1, <3>1
  <2>2. CASE b # 0
    <3>1. room = FlashLen - FlashMaster
      BY <1>7, <2>2
    <3>2. FlashMaster + f.len <= FlashLen
      BY <1>q, <2>2
    <3> QED BY <1>1, <3>1, <3>2
  <2> QED BY <2>1, <2>2
<1>9. \E p \in Nat : room = u * p
  <2>1. CASE b = 0
    <3>0. room = FlashMaster
      BY <1>1, <1>7, <2>1
    <3>1. room = u * (k * m) /\ k * m \in Nat
      BY <1>2, <1>4, <1>6, <3>0
    <3> QED BY <3>1
  <2>2. CASE b # 0
    <3>0. room = FlashLen - FlashMaster
      BY <1>7, <2>2
    <3>1. room = u * (k * (l - m)) /\ k * (l - m) \in Nat
      BY <1>4, <1>5, <1>6, <3>0
    <3> QED BY <3>1
  <2> QED BY <2>1, <2>2
<1>10. PICK p \in Nat : room = u * p
  BY <1>9
<1>11. f.len \in Nat \ {0} /\ f.len <= u * p
  BY <1>1, <1>8, <1>10
<1>12. /\ FlashRoundUp(f.len, u) \in Nat /\ f.len <= FlashRoundUp(f.len, u) /\ u <= FlashRoundUp(f.len, u)
       /\ FlashRoundUp(f.len, u) <= u * p
       /\ FlashRoundUp(f.len, u) = u + ((f.len - 1) \div u) * u
  BY <1>6, <1>11, FlashRoundIs
<1>13. FlashRoundUp(f.len, u) <= room
  BY <1>10, <1>12
<1>14. ASSUME NEW x \in b..(b + FlashRoundUp(f.len, u) - 1) PROVE x \in FlashRegion(b)
  <2>1. PICK t \in Nat : t = FlashRoundUp(f.len, u)
    BY <1>12
  <2>2. CASE b = 0
    <3>0. room = FlashMaster
      BY <1>1, <1>7, <2>2
    <3>1. x \in 0..(t - 1) /\ t <= FlashMaster
      BY <1>13, <1>14, <2>1, <2>2, <3>0
    <3> QED BY <1>1, <2>1, <2>2, <3>1 DEF FlashRegion
  <2>3. CASE b # 0
    <3>1. b = FlashMaster
      BY <2>3 DEF FlashBases
    <3>2. room = FlashLen - FlashMaster
      BY <1>7, <2>3
    <3> QED BY <1>1, <1>13, <1>14, <2>1, <2>3, <3>1, <3>2 DEF FlashRegion
  <2> QED BY <2>2, <2>3
<1> QED BY <1>12, <1>14
-----------------------------------------------------------------------------
\* The cells of the flash.
LEMMA FlashArrayIs ==
    ASSUME NEW c, FlashArray(c) PROVE DOMAIN c = 0..(FlashLen - 1)
BY DEF FlashArray

\* The loops after an access are loops of the same update.
LEMMA FlashLoopNext ==
    ASSUME NEW todo \in Seq(FlashOps), todo # <<>>, NEW f \in FlashFiles, NEW b \in FlashBases,
           \A k \in 1..Len(todo) : FlashLoop(todo[k], f, b), NEW k \in 1..Len(FlashAfter(todo))
    PROVE  FlashLoop(FlashAfter(todo)[k], f, b)
<1> DEFINE t == FlashAfter(todo)
           o == todo[1]
           sh == IF o.n = FlashUnit(o) THEN 1 ELSE 0
<1>1. t \in Seq(FlashOps) /\ FlashStepped(todo, t, sh, FlashCells(o))
  BY FlashAfterStepped
<1>2. t[k] \in FlashOps /\ o \in FlashOps
  BY <1>1
<1>3. /\ k + sh \in 1..Len(todo) /\ t[k].op = todo[k + sh].op /\ t[k].d = todo[k + sh].d
      /\ \A x \in Nat : /\ FlashErases(t[k], x) => FlashErases(todo[k + sh], x)
                        /\ FlashProgs(t[k], x) => FlashProgs(todo[k + sh], x)
  <2>1. k \in 1..Len(t) /\ Len(todo) \in Nat
    OBVIOUS
  <2> HIDE DEF t, sh, o
  <2>2. sh \in 0..1 /\ Len(t) = Len(todo) - sh
    BY <1>1 DEF FlashStepped
  <2>3. k + sh \in 1..Len(todo)
    BY <2>1, <2>2
  <2> QED BY <1>1, <2>1, <2>3 DEF FlashStepped
<1>4. PICK p : p = todo[k + sh] /\ FlashLoop(p, f, b)
  BY <1>3
<1>5. t[k].op \notin {"erase", "prog"} => t[k].n = 0
  <2> SUFFICES ASSUME t[k].op \notin {"erase", "prog"} PROVE t[k].n = 0
    OBVIOUS
  <2>1. p.n = 0 /\ p.op \notin {"erase", "prog"}
    BY <1>3, <1>4 DEF FlashLoop
  <2>2. t[k] = p
    <3>1. CASE o.n = FlashUnit(o)
      <4>1. t = Tail(todo) /\ sh = 1
        BY <3>1 DEF FlashAfter
      <4> QED BY <1>3, <1>4, <4>1
    <3>2. CASE o.n # FlashUnit(o)
      <4>1. sh = 0
        BY <3>2
      <4>2. k # 1
        <5>1. CASE k = 1
          <6>1. p = o
            BY <1>4, <4>1, <5>1
          <6>2. FlashUnit(o) = 0 /\ o.n = 0
            BY <1>2, <2>1, <6>1, FlashUnitFacts
          <6> QED BY <3>2, <6>2
        <5> QED BY <5>1
      <4>3. t = [todo EXCEPT ![1] = [o EXCEPT !.at = @ + FlashUnit(o), !.n = @ - FlashUnit(o)]]
        BY <3>2 DEF FlashAfter
      <4>4. k \in 1..Len(todo)
        BY <1>3, <4>1
      <4>5. t[k] = todo[k]
        BY <4>2, <4>3, <4>4
      <4>6. k + 0 = k
        BY <4>4
      <4> QED BY <1>4, <4>1, <4>5, <4>6
    <3> QED BY <3>1, <3>2
  <2> QED BY <2>1, <2>2
<1>6. /\ t[k].n \in Nat /\ t[k].at \in Nat
      /\ t[k].op \in {"erase", "prog", "read", "blanked", "end", "next", "done"}
      /\ t[k].op \in {"blanked", "next", "done"} => t[k].d = f.id
  <2>1. p.op \in {"blanked", "next", "done"} => p.d = f.id
    BY <1>4 DEF FlashLoop
  <2> HIDE DEF t
  <2> QED BY <1>2, <1>3, <1>4, <2>1 DEF FlashOps
<1>7. ASSUME NEW x \in t[k].at..(t[k].at + t[k].n - 1)
      PROVE  x \in FlashRegion(b) /\ (t[k].op = "prog" => t[k].d[x] = FlashBlock(f, x - b, FALSE))
  <2>1. x \in Nat /\ t[k].n # 0
    BY <1>6, <1>7
  <2>2. t[k].op \in {"erase", "prog"}
    BY <1>5, <2>1
  <2>3. FlashErases(t[k], x) \/ FlashProgs(t[k], x)
    BY <1>7, <2>2 DEF FlashErases, FlashProgs
  <2>4. FlashErases(p, x) \/ FlashProgs(p, x)
    BY <1>3, <1>4, <2>1, <2>3
  <2>5. x \in p.at..(p.at + p.n - 1)
    BY <2>4 DEF FlashErases, FlashProgs
  <2>6. x \in FlashRegion(b) /\ (p.op = "prog" => p.d[x] = FlashBlock(f, x - b, FALSE))
    BY <1>4, <2>5 DEF FlashLoop
  <2> QED BY <1>3, <1>4, <2>6
<1> QED BY <1>5, <1>6, <1>7 DEF FlashLoop

\* What the loops of a job touch.
LEMMA FlashLoopTouches ==
    ASSUME NEW o, NEW f \in FlashFiles, NEW b \in FlashBases, FlashLoop(o, f, b), NEW x, FlashTouches(o, x)
    PROVE  /\ x \in FlashRegion(b) /\ x \in 0..(FlashLen - 1)
           /\ FlashProgs(o, x) => o.d[x] = FlashBlock(f, x - b, FALSE)
<1>1. x \in o.at..(o.at + o.n - 1) /\ (FlashProgs(o, x) => o.op = "prog")
  BY DEF FlashTouches, FlashErases, FlashProgs
<1>2. x \in FlashRegion(b) /\ (FlashProgs(o, x) => o.d[x] = FlashBlock(f, x - b, FALSE))
  BY <1>1 DEF FlashLoop
<1>3. FlashRegion(b) \subseteq 0..(FlashLen - 1)
  <2>1. FlashMaster \in Nat /\ FlashLen \in Nat /\ FlashLen > FlashMaster
    BY FlashRooms
  <2>2. 0..(FlashMaster - 1) \subseteq 0..(FlashLen - 1) /\ FlashMaster..(FlashLen - 1) \subseteq 0..(FlashLen - 1)
    BY <2>1
  <2> QED BY <2>2 DEF FlashRegion
<1> QED BY <1>2, <1>3

\* Where block i of the image goes.
LEMMA FlashPlace ==
    ASSUME NEW f \in FlashFiles, NEW b \in FlashBases, FlashOkImg(f, b), NEW i \in 0..(f.len - 1)
    PROVE  /\ b + i \in 0..(FlashLen - 1) /\ b + i \in FlashRegion(b) /\ (b + i) - b = i
           /\ FlashBlock(f, (b + i) - b, FALSE) = <<f.id, i>> /\ (f.iprog <=> b = 0)
<1>0. f.iprog <=> b = 0
  BY FlashRooms DEF FlashOkImg
<1>1. FlashBlock(f, i, FALSE) = <<f.id, i>>
  BY FlashBlockIs
<1>2. CASE b = 0
  <2>1. f.len <= FlashMaster
    BY <1>0, <1>2, FlashRooms
  <2>2. b + i = i /\ (b + i) - b = i
    BY <1>2
  <2>3. FlashMaster \in Nat /\ FlashLen \in Nat /\ f.len \in Nat /\ FlashLen > FlashMaster
    BY FlashRooms
  <2>4. i \in 0..(FlashLen - 1) /\ i \in 0..(FlashMaster - 1)
    BY <2>1, <2>3
  <2>5. FlashRegion(b) = 0..(FlashMaster - 1)
    BY <1>2 DEF FlashRegion
  <2> QED BY <1>0, <1>1, <2>2, <2>4, <2>5
<1>3. CASE b # 0
  <2>0. b = FlashMaster
    BY <1>3 DEF FlashBases
  <2>1. FlashMaster + f.len <= FlashLen
    BY <1>0, <1>3, FlashRooms
  <2>2. FlashMaster \in Nat /\ FlashLen \in Nat /\ f.len \in Nat /\ i \in 0..(f.len - 1)
    BY FlashRooms
  <2>3. (FlashMaster + i) - FlashMaster = i /\ FlashMaster + i \in FlashMaster..(FlashLen - 1) /\ FlashMaster + i \in 0..(FlashLen - 1)
    BY <2>1, <2>2
  <2>4. FlashRegion(b) = FlashMaster..(FlashLen - 1)
    BY <1>3 DEF FlashRegion
  <2> QED BY <1>0, <1>1, <2>0, <2>3, <2>4
<1> QED BY <1>2, <1>3

\* An access of a job.
LEMMA FlashJobAccess ==
    ASSUME NEW c, FlashArray(c), NEW todo \in Seq(FlashOps), todo # <<>>, NEW f \in FlashFiles, NEW b \in FlashBases,
           \A k \in 1..Len(todo) : FlashLoop(todo[k], f, b)
    PROVE  LET o == todo[1] IN
           FlashAccess(c, FlashEffect(c, o), todo, FlashAfter(todo), IF o.n = FlashUnit(o) THEN 1 ELSE 0, FlashCells(o))
<1> DEFINE o == todo[1]
           t == FlashAfter(todo)
           sh == IF o.n = FlashUnit(o) THEN 1 ELSE 0
<1>1. FlashStepped(todo, t, sh, FlashCells(o)) /\ o \in FlashOps /\ Len(todo) \in Nat
  BY FlashAfterStepped
<1>2. FlashDid(c, FlashEffect(c, o), o, FlashCells(o))
  BY <1>1, FlashArrayIs, FlashEffectDid
<1>3. \A k \in 1..Len(todo), x \in Nat : FlashTouches(todo[k], x) => x \in 0..(FlashLen - 1)
  BY FlashLoopTouches
<1> HIDE DEF t, sh
<1>4. FlashAccess(c, FlashEffect(c, o), todo, t, sh, FlashCells(o))
  BY <1>1, <1>2, <1>3 DEF FlashAccess
<1> QED BY <1>4 DEF t, sh

\* With a golden image, the FPGA starts something.
LEMMA FlashStarts ==
    ASSUME NEW c, FlashMasterWhole(c)
    PROVE  /\ FlashGoldWhole(c) => FlashBoot(c) # FlashNone
           /\ \A f \in FlashFiles : /\ FlashJumps(c) /\ f.devid = FlashDevid
                                    /\ \A i \in 0..(f.len - 1) : c[FlashMaster + i] = <<f.id, i>>
                 => FlashBoot(c) = f.id
<1>0. FlashMaster + 0 = FlashMaster /\ 0 + 0 = 0 /\ 0 + 1 = 1 /\ \A f \in FlashFiles : f.id # FlashNone
  BY FlashRooms, FlashParse
<1>1. ASSUME NEW g \in FlashFiles, c[0] = <<g.id, 0>>, c[1] = <<g.id, 1>>
      PROVE  xlnx_btstrm_parse_header(c, 0) = g.id
  BY <1>0, <1>1, FlashParse
<1>2. ASSUME NEW f \in FlashFiles, c[FlashMaster] = <<f.id, 0>>, c[FlashMaster + 1] = <<f.id, 1>>
      PROVE  xlnx_btstrm_parse_header(c, FlashMaster) = f.id
  BY <1>0, <1>2, FlashParse
<1>3. ASSUME NEW base, NEW f \in FlashFiles, xlnx_btstrm_parse_header(c, base) = f.id,
             \A i \in 0..(f.len - 1) : c[base + i] = <<f.id, i>>
      PROVE  FlashWholeAt(c, base)
  BY <1>0, <1>3, FlashImgIs DEF FlashWholeAt
<1>4. ASSUME FlashGoldWhole(c) PROVE FlashBoot(c) # FlashNone
  <2>1. PICK g \in FlashFiles : g.iprog /\ g.devid = FlashDevid /\ \A i \in 0..(g.len - 1) : c[i] = <<g.id, i>>
    BY <1>4 DEF FlashGoldWhole
  <2>2. 0 \in 0..(g.len - 1) /\ 1 \in 0..(g.len - 1) /\ \A i \in 0..(g.len - 1) : 0 + i = i
    BY FlashRooms
  <2>3. xlnx_btstrm_parse_header(c, 0) = g.id
    BY <1>1, <2>1, <2>2
  <2>4. FlashWholeAt(c, 0)
    BY <1>3, <2>1, <2>2, <2>3
  <2>5. FlashWholeAt(c, FlashMaster) => xlnx_btstrm_parse_header(c, FlashMaster) # FlashNone
    BY DEF FlashWholeAt
  <2> QED BY <1>0, <2>3, <2>4, <2>5 DEF FlashBoot
<1>5. ASSUME FlashJumps(c), NEW f \in FlashFiles, f.devid = FlashDevid, 
             \A i \in 0..(f.len - 1) : c[FlashMaster + i] = <<f.id, i>>
      PROVE  FlashBoot(c) = f.id
  <2>1. PICK g \in FlashFiles : /\ \A i \in FlashHdr : c[i] = <<g.id, i>>
                                /\ g.iprog /\ g.wbstar = FlashMaster /\ g.devid = FlashDevid
    BY <1>5 DEF FlashJumps
  <2>2. xlnx_btstrm_parse_header(c, 0) = g.id
    BY <1>1, <2>1 DEF FlashHdr
  <2>3. 0 \in 0..(f.len - 1) /\ 1 \in 0..(f.len - 1)
    BY FlashRooms
  <2>4. c[FlashMaster + 0] = <<f.id, 0>> /\ c[FlashMaster + 1] = <<f.id, 1>>
    BY <1>5, <2>3
  <2>5. xlnx_btstrm_parse_header(c, FlashMaster) = f.id
    BY <1>0, <1>2, <2>4
  <2>6. FlashWholeAt(c, FlashMaster)
    BY <1>3, <1>5, <2>5
  <2>7. FlashImg(g.id) = g /\ FlashImg(f.id) = f
    BY FlashImgIs
  <2> QED BY <1>0, <1>5, <2>1, <2>2, <2>5, <2>6, <2>7 DEF FlashBoot
<1> QED BY <1>4, <1>5
-----------------------------------------------------------------------------
\* What a job programs is the image.
LEMMA FlashJobData ==
    ASSUME NEW todo, NEW f \in FlashFiles, NEW b \in FlashBases, FlashOkImg(f, b),
           \A k \in 1..Len(todo) : FlashLoop(todo[k], f, b), NEW i \in 0..(f.len - 1)
    PROVE  /\ b + i \in 0..(FlashLen - 1)
           /\ \A k \in 1..Len(todo) : FlashProgs(todo[k], b + i) => todo[k].d[b + i] = <<f.id, i>>
<1>1. b + i \in 0..(FlashLen - 1) /\ FlashBlock(f, (b + i) - b, FALSE) = <<f.id, i>>
  BY FlashPlace
<1>2. PICK x : x = b + i
  OBVIOUS
<1>3. ASSUME NEW k \in 1..Len(todo), FlashProgs(todo[k], x) PROVE todo[k].d[x] = FlashBlock(f, x - b, FALSE)
  BY <1>3, FlashLoopTouches DEF FlashTouches
<1> QED BY <1>1, <1>2, <1>3

\* r is s after the next access of its job.
FlashStepOf(s, r) ==
    LET o == s.todo[1] IN
    /\ r.c = FlashEffect(s.c, o) /\ r.todo = FlashAfter(s.todo)
    /\ r.rpc = s.rpc /\ (r.gold <=> s.gold) /\ (o.op # "end" => r.op_len = s.op_len)
    /\ o.op # "blanked" => (r.validated <=> s.validated) /\ r.header = s.header /\ (r.op_golden <=> s.op_golden)
    /\ o.op = "blanked" => r.validated /\ r.header = o.d /\ (r.op_golden <=> s.rpc.golden)

\* An access keeps what a sector of the JSON calls has to do,
LEMMA FlashSectorNext ==
    ASSUME NEW s, NEW r, NEW f \in FlashFiles, NEW b \in FlashBases, FlashOkImg(f, b), FlashStepOf(s, r),
           NEW sh, FlashAccess(s.c, r.c, s.todo, r.todo, sh, FlashCells(s.todo[1])), FlashOrder(s.todo),
           \A k \in 1..Len(s.todo) : FlashLoop(s.todo[k], f, b),
           sh = (IF s.todo[1].n = FlashUnit(s.todo[1]) THEN 1 ELSE 0), s.todo[1] \in FlashOps,
           s.rpc.next \in Nat, FlashSector(s, f, b)
    PROVE  FlashSector(r, f, b)
<1> DEFINE o == s.todo[1]
<1>1. s.rpc.id = f.id /\ (s.rpc.golden <=> b = 0) /\ s.op_len = f.len /\ s.rpc.next + 2 < f.len
  BY DEF FlashSector
<1>2. \A k \in 1..Len(s.todo) : s.todo[k].op # "end"
  BY DEF FlashSector
<1>3. /\ sh \in 0..1 /\ Len(s.todo) \in Nat /\ Len(s.todo) >= 1 /\ Len(r.todo) = Len(s.todo) - sh
  BY DEF FlashAccess, FlashStepped
<1>4. r.rpc = s.rpc /\ o.op # "end" /\ r.op_len = s.op_len
  BY <1>2, <1>3 DEF FlashStepOf
<1>5. \A k \in 1..Len(r.todo) : r.todo[k].op # "end"
  <2> SUFFICES ASSUME NEW k \in 1..Len(r.todo) PROVE r.todo[k].op # "end"
    OBVIOUS
  <2>1. k + sh \in 1..Len(s.todo) /\ r.todo[k].op = s.todo[k + sh].op
    <3>1. 0 \in Nat
      OBVIOUS
    <3> QED BY <3>1, FlashTouchNext
  <2> QED BY <1>2, <2>1
<1>6. \/ r.validated /\ r.header = f.id /\ (r.op_golden <=> b = 0)
      \/ \E k \in 1..Len(r.todo) : r.todo[k].op = "blanked"
  <2>1. CASE o.op = "blanked"
    <3>0. FlashLoop(o, f, b)
      BY <1>3
    <3>1. o.d = f.id
      BY <2>1, <3>0 DEF FlashLoop
    <3> QED BY <1>1, <2>1, <3>1 DEF FlashStepOf
  <2>2. CASE o.op # "blanked" /\ \E k \in 1..Len(s.todo) : s.todo[k].op = "blanked"
    <3>1. PICK k \in 1..Len(s.todo) : s.todo[k].op = "blanked"
      BY <2>2
    <3>2. k # 1
      BY <2>2, <3>1
    <3>3. k - sh \in 1..Len(r.todo) /\ (k - sh) + sh = k
      BY <1>3, <3>2
    <3>4. r.todo[k - sh].op = s.todo[(k - sh) + sh].op
      <4>1. 0 \in Nat
        OBVIOUS
      <4> QED BY <3>3, <4>1, FlashTouchNext
    <3> QED BY <3>1, <3>3, <3>4
  <2>3. CASE o.op # "blanked" /\ s.validated /\ s.header = f.id /\ (s.op_golden <=> b = 0)
    BY <2>3 DEF FlashStepOf
  <2> QED BY <2>1, <2>2, <2>3 DEF FlashSector
<1>7. ASSUME NEW i \in 0..(f.len - 1), FlashOpen(s.c, s.todo, b + i, <<f.id, i>>)
      PROVE  FlashOpen(r.c, r.todo, b + i, <<f.id, i>>)
  <2>1. PICK x : x = b + i
    OBVIOUS
  <2>2. x \in 0..(FlashLen - 1) /\ \A k \in 1..Len(s.todo) : FlashProgs(s.todo[k], x) => s.todo[k].d[x] = <<f.id, i>>
    BY <2>1, FlashJobData
  <2>3. FlashOpen(s.c, s.todo, x, <<f.id, i>>)
    BY <1>7, <2>1
  <2>4. FlashOpen(r.c, r.todo, x, <<f.id, i>>)
    BY <2>2, <2>3, FlashOpenNext, SMTT(30)
  <2> QED BY <2>1, <2>4
<1>8. ASSUME NEW i \in (r.rpc.next + 2)..(f.len - 1) PROVE FlashOpen(r.c, r.todo, b + i, <<f.id, i>>)
  <2>1. i \in 0..(f.len - 1) /\ i \in (s.rpc.next + 2)..(f.len - 1)
    BY <1>4, <1>8, FlashRooms
  <2>2. FlashOpen(s.c, s.todo, b + i, <<f.id, i>>)
    BY <2>1 DEF FlashSector
  <2> QED BY <1>7, <2>1, <2>2
<1>9. ASSUME b # 0, NEW i \in FlashHdr PROVE FlashOpen(r.c, r.todo, FlashMaster + i, <<f.id, i>>)
  <2>1. i \in 0..(f.len - 1) /\ b = FlashMaster
    BY <1>9, FlashRooms DEF FlashHdr, FlashBases
  <2>2. FlashOpen(s.c, s.todo, FlashMaster + i, <<f.id, i>>)
    BY <1>9 DEF FlashSector
  <2> QED BY <1>7, <2>1, <2>2
<1> QED BY <1>1, <1>4, <1>5, <1>6, <1>8, <1>9 DEF FlashSector

\* what the call has to write,
LEMMA FlashPlannedNext ==
    ASSUME NEW s, NEW r, NEW f \in FlashFiles, NEW b \in FlashBases, FlashOkImg(f, b), r.rpc = s.rpc,
           NEW sh, FlashAccess(s.c, r.c, s.todo, r.todo, sh, FlashCells(s.todo[1])), Len(r.todo) # 0,
           FlashOrder(s.todo), FlashBlanked(s.c, s.todo),
           \A k \in 1..Len(s.todo) : FlashLoop(s.todo[k], f, b), s.rpc.next \in Nat,
           s.todo[Len(s.todo)].op # "done" => s.rpc.next + 2 < f.len, FlashPlanned(s, f, b)
    PROVE  FlashPlanned(r, f, b)
<1>1. r.todo[Len(r.todo)].op = s.todo[Len(s.todo)].op
  BY FlashLastOp
<1>2. ASSUME NEW i \in 0..(f.len - 1), FlashDue(s.c, s.todo, b + i, <<f.id, i>>)
      PROVE  FlashDue(r.c, r.todo, b + i, <<f.id, i>>)
  <2>1. PICK x : x = b + i
    OBVIOUS
  <2>2. x \in 0..(FlashLen - 1) /\ \A k \in 1..Len(s.todo) : FlashProgs(s.todo[k], x) => s.todo[k].d[x] = <<f.id, i>>
    BY <2>1, FlashJobData
  <2>3. FlashDue(s.c, s.todo, x, <<f.id, i>>)
    BY <1>2, <2>1
  <2>4. FlashDue(r.c, r.todo, x, <<f.id, i>>)
    BY <2>2, <2>3, FlashDueNext, SMTT(30)
  <2> QED BY <2>1, <2>4
<1>3. CASE s.todo[Len(s.todo)].op = "done"
  <2>1. \A i \in 0..(f.len - 1) : FlashDue(s.c, s.todo, b + i, <<f.id, i>>)
    BY <1>3 DEF FlashPlanned
  <2> QED BY <1>1, <1>2, <1>3, <2>1 DEF FlashPlanned
<1>4. CASE s.todo[Len(s.todo)].op # "done"
  <2>1. \A i \in (IF b = 0 THEN 0 ELSE 2)..(s.rpc.next + 1) : FlashDue(s.c, s.todo, b + i, <<f.id, i>>)
    BY <1>4 DEF FlashPlanned
  <2>2. \A i \in (IF b = 0 THEN 0 ELSE 2)..(s.rpc.next + 1) : i \in 0..(f.len - 1)
    BY <1>4, FlashRooms
  <2>3. \A i \in (IF b = 0 THEN 0 ELSE 2)..(r.rpc.next + 1) : FlashDue(r.c, r.todo, b + i, <<f.id, i>>)
    BY <1>2, <2>1, <2>2
  <2> QED BY <1>1, <1>4, <2>3 DEF FlashPlanned
<1> QED BY <1>3, <1>4

\* and the call as a whole, until its last step.
LEMMA FlashJobNext ==
    ASSUME NEW s, NEW r, NEW f \in FlashFiles, NEW b \in FlashBases, FlashJob(s, f, b), FlashStepOf(s, r),
           s.todo \in Seq(FlashOps), s.todo # <<>>, FlashArray(s.c), FlashHeaders(s.c), s.rpc.next \in Nat,
           s.todo[1].op \notin {"next", "done"}, s.todo[1].op = "erase" => FlashUnit(s.todo[1]) # 0
    PROVE  r.todo # <<>> /\ FlashJob(r, f, b)
<1> DEFINE o == s.todo[1]
<1>0. /\ FlashOkImg(f, b) /\ FlashOrder(s.todo) /\ FlashBlanked(s.c, s.todo) /\ FlashPlanned(s, f, b)
      /\ \A k \in 1..Len(s.todo) : /\ FlashLoop(s.todo[k], f, b)
                                   /\ s.todo[k].op \in {"next", "done"} <=> k = Len(s.todo)
      /\ s.todo[Len(s.todo)].op = "next" => FlashSector(s, f, b)
      /\ o \in FlashOps /\ Len(s.todo) \in Nat /\ Len(s.todo) >= 1
  BY DEF FlashJob
<1>1. r.todo \in Seq(FlashOps)
  BY FlashAfterStepped DEF FlashStepOf
<1>2. PICK sh : /\ sh = (IF o.n = FlashUnit(o) THEN 1 ELSE 0)
                /\ FlashAccess(s.c, r.c, s.todo, r.todo, sh, FlashCells(o))
  BY <1>0, FlashJobAccess DEF FlashStepOf
<1>3. sh \in 0..1 /\ Len(r.todo) = Len(s.todo) - sh /\ Len(s.todo) # 1 /\ Len(r.todo) # 0 /\ r.todo # <<>>
  <2>1. sh \in 0..1 /\ Len(r.todo) = Len(s.todo) - sh
    BY <1>2 DEF FlashAccess, FlashStepped
  <2>2. Len(s.todo) # 1
    BY <1>0
  <2> QED BY <1>0, <1>1, <2>1, <2>2
<1>4. ASSUME NEW k \in 1..Len(r.todo)
      PROVE  FlashLoop(r.todo[k], f, b) /\ (r.todo[k].op \in {"next", "done"} <=> k = Len(r.todo))
  <2>1. FlashLoop(r.todo[k], f, b)
    BY <1>0, FlashLoopNext DEF FlashStepOf
  <2>2. k + sh \in 1..Len(s.todo) /\ r.todo[k].op = s.todo[k + sh].op
    <3>1. 0 \in Nat
      OBVIOUS
    <3> QED BY <1>2, <3>1, FlashTouchNext, SMTT(30)
  <2>3. k = Len(r.todo) <=> k + sh = Len(s.todo)
    BY <1>0, <1>3
  <2> QED BY <1>0, <2>1, <2>2, <2>3
<1>5. FlashOrder(r.todo)
  BY <1>0, <1>2, FlashOrderNext
<1>6. FlashBlanked(r.c, r.todo)
  BY <1>0, <1>2, FlashBlankedNext
<1>7. r.todo[Len(r.todo)].op = s.todo[Len(s.todo)].op
  <2>0. Len(r.todo) \in Nat /\ Len(r.todo) >= 1
    <3> HIDE DEF o
    <3> QED BY <1>1, <1>3
  <2>1. PICK n \in 1..Len(r.todo) : n = Len(r.todo)
    BY <2>0
  <2>2. n + sh = Len(s.todo) /\ 0 \in Nat
    BY <1>0, <1>3, <2>1
  <2>3. r.todo[n].op = s.todo[n + sh].op
    BY <1>2, <2>2, FlashTouchNext, SMTT(30)
  <2> QED BY <2>1, <2>2, <2>3
<1>8. s.todo[Len(s.todo)].op # "done" => s.todo[Len(s.todo)].op = "next" /\ s.rpc.next + 2 < f.len
  BY <1>0 DEF FlashSector
<1>9. FlashPlanned(r, f, b)
  BY <1>0, <1>2, <1>3, <1>8, FlashPlannedNext DEF FlashStepOf
<1>10. r.todo[Len(r.todo)].op = "next" => FlashSector(r, f, b)
  BY <1>0, <1>2, <1>7, FlashSectorNext
<1>11. /\ r.rpc.id # FlashNone => r.rpc.id = f.id /\ (r.rpc.golden <=> b = 0)
       /\ b = 0 => r.gold
  BY DEF FlashJob, FlashStepOf
<1>12. ASSUME b # 0 PROVE FlashJumps(r.c) /\ FlashLast(r.todo) /\ FlashHidden(r.c, r.todo)
  <2>1. FlashJumps(s.c) /\ FlashLast(s.todo) /\ FlashHidden(s.c, s.todo)
    BY <1>12 DEF FlashJob
  <2>2. FlashLast(r.todo)
    BY <1>2, <2>1, FlashLastNext
  <2>3. FlashHidden(r.c, r.todo)
    BY <1>0, <1>2, <1>3, <2>1, FlashHiddenNext
  <2>4. r.c \in FlashCutShort(s.c, o)
    BY DEF FlashStepOf, FlashCutShort
  <2>5. FlashCut(s.c, r.c, o)
    BY <1>0, <2>4, FlashCutIs, FlashArrayIs
  <2>6. FlashLoop(o, f, b)
    BY <1>0
  <2>7. FlashJumps(r.c)
    BY <1>0, <1>12, <2>1, <2>5, <2>6, FlashCutHeaders
  <2> QED BY <2>2, <2>3, <2>7
<1> QED BY <1>0, <1>3, <1>4, <1>5, <1>6, <1>9, <1>10, <1>11, <1>12 DEF FlashJob
-----------------------------------------------------------------------------
\* Whatever becomes of an access, the images are as they should be.
LEMMA FlashCutSafe ==
    ASSUME NEW s, FlashSafe(s), s.todo # <<>>, NEW e \in FlashCutShort(s.c, s.todo[1])
    PROVE  /\ FlashArray(e) /\ FlashHeaders(e) /\ FlashMasterWhole(e)
           /\ ~s.gold => FlashGoldWhole(e)
<1> DEFINE o == s.todo[1]
<1>1. PICK f \in FlashFiles, b \in FlashBases : FlashJob(s, f, b)
  BY DEF FlashSafe
<1>2. /\ s.todo \in Seq(FlashOps) /\ FlashArray(s.c) /\ FlashHeaders(s.c) /\ FlashMasterWhole(s.c)
      /\ ~s.gold => FlashGoldWhole(s.c)
  BY DEF FlashSafe
<1>3. Len(s.todo) \in Nat /\ 1 \in 1..Len(s.todo) /\ o \in FlashOps
  BY <1>2
<1>4. FlashCut(s.c, e, o) /\ DOMAIN s.c = 0..(FlashLen - 1)
  BY <1>2, <1>3, FlashArrayIs, FlashCutIs
<1>5. FlashArray(e)
  <2>1. e \in {s.c, FlashEffect(s.c, o), [i \in DOMAIN s.c |-> IF i \in FlashCells(o) THEN FlashJunk ELSE s.c[i]]}
    BY DEF FlashCutShort
  <2>2. CASE e = s.c
    BY <1>2, <2>2
  <2>3. CASE e = FlashEffect(s.c, o)
    BY <1>4, <2>3 DEF FlashEffect, FlashArray
  <2>4. CASE e = [i \in DOMAIN s.c |-> IF i \in FlashCells(o) THEN FlashJunk ELSE s.c[i]]
    BY <1>4, <2>4 DEF FlashArray
  <2> QED BY <2>1, <2>2, <2>3, <2>4
<1>6. FlashOkImg(f, b) /\ \A k \in 1..Len(s.todo) : FlashLoop(s.todo[k], f, b)
  BY <1>1 DEF FlashJob
<1>7. FlashLoop(o, f, b)
  BY <1>3, <1>6
<1>8. FlashHeaders(e) /\ (b # 0 /\ FlashGoldWhole(s.c) => FlashGoldWhole(e))
  BY <1>2, <1>3, <1>4, <1>6, <1>7, FlashCutHeaders
<1>9. b = 0 => s.gold
  BY <1>1 DEF FlashJob
<1>10. ASSUME b # 0
       PROVE  /\ FlashLast(s.todo) /\ FlashHidden(s.c, s.todo)
              /\ s.todo[Len(s.todo)].op = "done" =>
                    \A i \in 0..(f.len - 1) : FlashDue(s.c, s.todo, FlashMaster + i, <<f.id, i>>)
  <2>1. b = FlashMaster
    BY <1>10 DEF FlashBases
  <2>2. FlashLast(s.todo) /\ FlashHidden(s.c, s.todo) /\ FlashPlanned(s, f, b)
    BY <1>1, <1>10 DEF FlashJob
  <2> QED BY <2>1, <2>2 DEF FlashPlanned
<1>11. FlashMasterWhole(e)
  BY <1>2, <1>4, <1>6, <1>10, FlashCutMaster
<1> QED BY <1>2, <1>5, <1>8, <1>9, <1>11

\* An access of a later sector keeps the cells of the earlier ones,
LEMMA FlashWrittenNext ==
    ASSUME NEW c, NEW e, NEW o, NEW C, FlashDid(c, e, o, C), NEW f \in FlashFiles, NEW b \in FlashBases, FlashOkImg(f, b),
           FlashLoop(o, f, b), NEW n \in Nat, n % 2 = 0, n # 0, n <= f.len,
           \A x \in Nat : FlashTouches(o, x) => FlashProgs(o, x) /\ x - b \in n..(n + 1),
           FlashWritten(c, n, f, b), b # 0 => FlashJumps(e)
    PROVE  FlashWritten(e, n, f, b)
<1>0. n >= 2 /\ f.len \in Nat
  BY FlashRooms
<1>1. ASSUME NEW i \in 0..(f.len - 1), i < n PROVE e[b + i] = c[b + i]
  <2>1. b + i \in 0..(FlashLen - 1) /\ (b + i) - b = i
    BY FlashPlace
  <2>2. PICK x : x = b + i
    OBVIOUS
  <2>3. x \in 0..(FlashLen - 1) /\ x \in Nat /\ x - b = i
    BY <2>1, <2>2
  <2>4. x \notin C
    BY <1>1, <2>3 DEF FlashDid
  <2>5. e[x] = c[x]
    BY <2>3, <2>4 DEF FlashDid
  <2> QED BY <2>2, <2>5
<1>2. ASSUME NEW i \in 0..(f.len - 1), c[b + i] = FlashFF \/ c[b + i] = <<f.id, i>>
      PROVE  e[b + i] = FlashFF \/ e[b + i] = <<f.id, i>>
  <2>1. b + i \in 0..(FlashLen - 1) /\ FlashBlock(f, (b + i) - b, FALSE) = <<f.id, i>>
    BY FlashPlace
  <2>2. PICK x : x = b + i
    OBVIOUS
  <2>3. x \in 0..(FlashLen - 1) /\ x \in Nat
    BY <2>1, <2>2
  <2>6. FlashBlock(f, x - b, FALSE) = <<f.id, i>>
    BY <2>1, <2>2, Zenon
  <2>4. CASE x \notin C
    <3>1. e[x] = c[x]
      BY <2>3, <2>4 DEF FlashDid
    <3> QED BY <1>2, <2>2, <3>1
  <2>5. CASE x \in C
    <3>1. FlashTouches(o, x) /\ FlashProgs(o, x)
      BY <2>3, <2>5 DEF FlashDid
    <3>2. o.d[x] = <<f.id, i>>
      BY <2>3, <2>6, <3>1, FlashLoopTouches
    <3>3. e[x] = FlashProg(c[x], <<f.id, i>>)
      BY <2>3, <2>5, <3>1, <3>2 DEF FlashDid
    <3>4. e[x] = <<f.id, i>>
      BY <1>2, <2>2, <3>3 DEF FlashProg
    <3> QED BY <2>2, <3>4
  <2> QED BY <2>4, <2>5
<1>3. ASSUME NEW i \in (IF b = 0 THEN 0 ELSE 2)..(n - 1) PROVE e[b + i] = <<f.id, i>>
  <2>1. i \in 0..(f.len - 1) /\ i < n
    BY <1>0, <1>3
  <2>2. c[b + i] = <<f.id, i>>
    BY <1>3 DEF FlashWritten
  <2> QED BY <1>1, <2>1, <2>2
<1>4. ASSUME NEW i \in n..(f.len - 1) PROVE e[b + i] = FlashFF \/ e[b + i] = <<f.id, i>>
  <2>1. i \in 0..(f.len - 1)
    BY <1>0, <1>4
  <2>2. c[b + i] = FlashFF \/ c[b + i] = <<f.id, i>>
    BY <1>4 DEF FlashWritten
  <2> QED BY <1>2, <2>1, <2>2
<1>5. ASSUME b # 0
      PROVE  /\ e[FlashMaster] = FlashFF \/ e[FlashMaster] = <<f.id, 0>>
             /\ e[FlashMaster + 1] = FlashFF
  <2>1. b = FlashMaster /\ FlashMaster + 0 = FlashMaster
    BY <1>5, FlashRooms DEF FlashBases
  <2>2. 0 \in 0..(f.len - 1) /\ 1 \in 0..(f.len - 1) /\ 0 < n /\ 1 < n
    BY <1>0, FlashRooms
  <2>3. e[FlashMaster + 0] = c[FlashMaster + 0] /\ e[FlashMaster + 1] = c[FlashMaster + 1]
    BY <1>1, <2>1, <2>2
  <2> QED BY <1>5, <2>1, <2>3 DEF FlashWritten
<1> QED BY <1>3, <1>4, <1>5 DEF FlashWritten

\* and touches those of its own only.
LEMMA FlashOnlyNext ==
    ASSUME NEW c, NEW e, NEW todo, NEW t, NEW sh, NEW C, FlashAccess(c, e, todo, t, sh, C), NEW n, NEW b, FlashOnly(todo, n, b)
    PROVE  FlashOnly(t, n, b)
<1> SUFFICES ASSUME NEW k \in 1..Len(t), NEW x \in Nat, FlashTouches(t[k], x)
             PROVE  FlashProgs(t[k], x) /\ x - b \in n..(n + 1)
  BY DEF FlashOnly
<1>1. /\ k + sh \in 1..Len(todo) /\ t[k].op = todo[k + sh].op
      /\ FlashErases(t[k], x) => FlashErases(todo[k + sh], x)
      /\ FlashTouches(todo[k + sh], x)
  BY FlashTouchNext
<1>2. FlashProgs(todo[k + sh], x) /\ x - b \in n..(n + 1)
  BY <1>1 DEF FlashOnly
<1>3. ~FlashErases(t[k], x)
  BY <1>1, <1>2 DEF FlashErases, FlashProgs
<1> QED BY <1>2, <1>3 DEF FlashTouches
-----------------------------------------------------------------------------
\* The parts of a safe state that every step needs.
LEMMA FlashSafeIs ==
    ASSUME NEW s, FlashSafe(s)
    PROVE  /\ s.todo \in Seq(FlashOps) /\ FlashArray(s.c) /\ s.rpc.next \in Nat /\ s.rpc.next % 2 = 0
           /\ FlashHeaders(s.c) /\ FlashMasterWhole(s.c)
           /\ FlashClient(s)
BY DEF FlashSafe

\* The update of the JSON calls and the call under way are about the same image.
LEMMA FlashSameImg ==
    ASSUME NEW s, NEW f \in FlashFiles, NEW b \in FlashBases, FlashJob(s, f, b), s.rpc.id # FlashNone,
           FlashClient(s)
    PROVE  /\ f.id = s.rpc.id /\ (s.rpc.golden <=> b = 0) /\ s.op_len \in {0, f.len}
           /\ s.op_len # 0 /\ s.rpc.next # 0 => FlashGoing(s, f, b)
<1>1. PICK h \in FlashFiles, a \in FlashBases :
            /\ h.id = s.rpc.id /\ (s.rpc.golden <=> a = 0) /\ s.op_len \in {0, h.len}
            /\ s.op_len # 0 /\ s.rpc.next # 0 => FlashGoing(s, h, a)
  BY DEF FlashClient
<1>2. f.id = s.rpc.id /\ (s.rpc.golden <=> b = 0)
  BY DEF FlashJob
<1>3. h = f
  BY <1>1, <1>2, FlashAssumption
<1>4. a = b
  BY <1>1, <1>2 DEF FlashBases
<1> QED BY <1>1, <1>2, <1>3, <1>4

\* Cells an access of a JSON call leaves behind, after its first sector.
LEMMA FlashGoingAccess ==
    ASSUME NEW s, FlashSafe(s), s.todo # <<>>, NEW f \in FlashFiles, NEW b \in FlashBases, FlashJob(s, f, b),
           FlashGoing(s, f, b), s.rpc.next # 0, s.todo[1].op # "end", NEW e \in {s.c, FlashEffect(s.c, s.todo[1])}
    PROVE  FlashWritten(e, s.rpc.next, f, b) /\ FlashOnly(s.todo, s.rpc.next, b)
<1> DEFINE o == s.todo[1]
<1>1. /\ FlashWritten(s.c, s.rpc.next, f, b) /\ FlashOnly(s.todo, s.rpc.next, b) /\ s.rpc.next < f.len /\ FlashOkImg(f, b)
  BY DEF FlashGoing
<1>2. /\ s.todo \in Seq(FlashOps) /\ FlashArray(s.c) /\ s.rpc.next \in Nat /\ s.rpc.next % 2 = 0 /\ FlashHeaders(s.c)
  BY FlashSafeIs
<1>3. 1 \in 1..Len(s.todo) /\ o \in FlashOps
  BY <1>2
<1>4. FlashLoop(o, f, b)
  BY <1>3 DEF FlashJob
<1>5. CASE e = FlashEffect(s.c, o)
  <2>1. FlashDid(s.c, e, o, FlashCells(o))
    BY <1>2, <1>3, <1>5, FlashArrayIs, FlashEffectDid
  <2>2. \A x \in Nat : FlashTouches(o, x) => FlashProgs(o, x) /\ x - b \in s.rpc.next..(s.rpc.next + 1)
    BY <1>1, <1>3 DEF FlashOnly
  <2>3. e \in FlashCutShort(s.c, o)
    BY <1>5 DEF FlashCutShort
  <2>4. FlashCut(s.c, e, o)
    BY <1>2, <1>3, <2>3, FlashArrayIs, FlashCutIs
  <2>5. b # 0 => FlashJumps(s.c)
    BY <1>1 DEF FlashWritten
  <2>6. b # 0 => FlashJumps(e)
    BY <1>1, <1>2, <1>3, <1>4, <2>4, <2>5, FlashCutHeaders
  <2>7. PICK n \in Nat : n = s.rpc.next
    BY <1>2
  <2>8. n % 2 = 0 /\ n # 0 /\ n <= f.len
    BY <1>1, <1>2, <2>7, FlashRooms
  <2>9. FlashWritten(e, n, f, b)
    <3> HIDE DEF o
    <3> QED BY <1>1, <1>4, <2>1, <2>2, <2>6, <2>7, <2>8, FlashWrittenNext
  <2> QED BY <1>1, <2>7, <2>9
<1> QED BY <1>1, <1>5

\* A step of a call that is not its last.
LEMMA FlashMiddle ==
    ASSUME NEW s, NEW r, FlashSafe(s), s.todo # <<>>, FlashStepOf(s, r), r.done = s.done, r.curfwid = s.curfwid,
           s.todo[1].op \notin {"next", "done"}, s.todo[1].op = "erase" => FlashUnit(s.todo[1]) # 0,
           s.todo[1].op = "end" => r.op_len = 0
    PROVE  FlashSafe(r)
<1> DEFINE o == s.todo[1]
<1>1. PICK f \in FlashFiles, b \in FlashBases : FlashJob(s, f, b)
  BY DEF FlashSafe
<1>2. /\ s.todo \in Seq(FlashOps) /\ FlashArray(s.c) /\ s.rpc.next \in Nat /\ s.rpc.next % 2 = 0
      /\ FlashHeaders(s.c) /\ FlashMasterWhole(s.c)
      /\ FlashClient(s)
  BY FlashSafeIs
<1>3. /\ r.c = FlashEffect(s.c, o) /\ r.todo = FlashAfter(s.todo) /\ r.rpc = s.rpc /\ (r.gold <=> s.gold)
      /\ o.op # "end" => r.op_len = s.op_len
  BY DEF FlashStepOf
<1>4. r.todo \in Seq(FlashOps)
  BY <1>2, <1>3, FlashAfterStepped
<1>5. r.c \in FlashCutShort(s.c, o)
  BY <1>3 DEF FlashCutShort
<1>6. FlashArray(r.c) /\ FlashHeaders(r.c) /\ FlashMasterWhole(r.c) /\ (~s.gold => FlashGoldWhole(r.c))
  BY <1>5, FlashCutSafe
<1>7. r.todo # <<>> /\ FlashJob(r, f, b)
  BY <1>1, <1>2, FlashJobNext
<1>8. s.done = FlashNone /\ s.curfwid # FlashNone
  BY DEF FlashSafe
<1>9. FlashClient(r)
  <2> SUFFICES ASSUME r.rpc.id # FlashNone
               PROVE  /\ f.id = r.rpc.id /\ (r.rpc.golden <=> b = 0) /\ r.op_len \in {0, f.len}
                      /\ r.op_len # 0 /\ r.rpc.next # 0 => FlashGoing(r, f, b)
    BY DEF FlashClient
  <2>1. /\ f.id = s.rpc.id /\ (s.rpc.golden <=> b = 0) /\ s.op_len \in {0, f.len}
        /\ s.op_len # 0 /\ s.rpc.next # 0 => FlashGoing(s, f, b)
    BY <1>1, <1>2, <1>3, FlashSameImg
  <2>2. r.op_len \in {0, f.len}
    BY <1>3, <2>1
  <2>3. ASSUME r.op_len # 0, r.rpc.next # 0 PROVE FlashGoing(r, f, b)
    <3>1. o.op # "end" /\ s.op_len # 0 /\ s.rpc.next # 0
      BY <1>3, <2>3
    <3>2. FlashGoing(s, f, b)
      BY <2>1, <3>1
    <3>3. FlashWritten(r.c, s.rpc.next, f, b) /\ FlashOnly(s.todo, s.rpc.next, b)
      BY <1>1, <1>3, <3>1, <3>2, FlashGoingAccess
    <3>4. FlashOnly(r.todo, s.rpc.next, b)
      <4>1. \A k \in 1..Len(s.todo) : FlashLoop(s.todo[k], f, b)
        BY <1>1 DEF FlashJob
      <4>2. PICK sh : FlashAccess(s.c, r.c, s.todo, r.todo, sh, FlashCells(o))
        BY <1>2, <1>3, <4>1, FlashJobAccess
      <4> QED BY <3>3, <4>2, FlashOnlyNext
    <3>5. /\ s.validated /\ s.header = f.id /\ (s.op_golden <=> b = 0) /\ FlashOkImg(f, b)
          /\ s.rpc.next < f.len /\ (b = 0 => s.gold)
      BY <3>2 DEF FlashGoing
    <3>6. r.validated /\ r.header = f.id /\ (r.op_golden <=> b = 0)
      <4>1. CASE o.op # "blanked"
        BY <3>5, <4>1 DEF FlashStepOf
      <4>2. CASE o.op = "blanked"
        <5>1. FlashLoop(o, f, b)
          BY <1>1, <1>2 DEF FlashJob
        <5>2. o.d = f.id
          BY <4>2, <5>1 DEF FlashLoop
        <5> QED BY <2>1, <4>2, <5>2 DEF FlashStepOf
      <4> QED BY <4>1, <4>2
    <3> QED BY <1>3, <3>3, <3>4, <3>5, <3>6 DEF FlashGoing
  <2> QED BY <1>3, <2>1, <2>2, <2>3
<1> QED BY <1>1, <1>2, <1>3, <1>4, <1>6, <1>7, <1>8, <1>9 DEF FlashSafe
-----------------------------------------------------------------------------
\* The last step of a call touches nothing.
LEMMA FlashLastStep ==
    ASSUME NEW s, FlashSafe(s), s.todo # <<>>, NEW f \in FlashFiles, NEW b \in FlashBases, FlashJob(s, f, b),
           s.todo[1].op \in {"next", "done"}
    PROVE  /\ Len(s.todo) = 1 /\ s.todo[1].d = f.id
           /\ FlashAfter(s.todo) = <<>> /\ FlashEffect(s.c, s.todo[1]) = s.c
           /\ \A k \in 1..Len(s.todo) : \A x : ~FlashTouches(s.todo[k], x)
<1> DEFINE o == s.todo[1]
<1>1. s.todo \in Seq(FlashOps) /\ FlashArray(s.c)
  BY FlashSafeIs
<1>2. Len(s.todo) \in Nat /\ 1 \in 1..Len(s.todo) /\ o \in FlashOps
  BY <1>1
<1>3. Len(s.todo) = 1
  BY <1>2 DEF FlashJob
<1>4. FlashLoop(o, f, b)
  BY <1>2 DEF FlashJob
<1>5. o.n = 0 /\ o.d = f.id /\ o.at \in Nat
  BY <1>4 DEF FlashLoop
<1>6. FlashUnit(o) = 0
  BY <1>2, FlashUnitFacts
<1>7. FlashAfter(s.todo) = <<>>
  <2>1. FlashAfter(s.todo) = Tail(s.todo)
    BY <1>5, <1>6 DEF FlashAfter
  <2>2. Tail(s.todo) \in Seq(FlashOps) /\ Len(Tail(s.todo)) = 0
    BY <1>1, <1>3
  <2>3. Tail(s.todo) = <<>>
    BY <2>2, EmptySeq
  <2> QED BY <2>1, <2>3
<1>8. FlashCells(o) = {}
  BY <1>5, <1>6 DEF FlashCells
<1>9. FlashEffect(s.c, o) = s.c
  <2>1. DOMAIN s.c = 0..(FlashLen - 1)
    BY <1>1, FlashArrayIs
  <2>2. FlashEffect(s.c, o) = [i \in 0..(FlashLen - 1) |-> s.c[i]]
    BY <1>8, <2>1 DEF FlashEffect
  <2> QED BY <1>1, <2>2 DEF FlashArray
<1>10. ASSUME NEW k \in 1..Len(s.todo), NEW x, FlashTouches(s.todo[k], x) PROVE FALSE
  <2>1. k = 1
    BY <1>3, <1>10
  <2> QED BY <1>10, <2>1 DEF FlashTouches, FlashErases, FlashProgs
<1> QED BY <1>3, <1>5, <1>7, <1>9, <1>10

\* The end of a sector that is not the last,
LEMMA FlashNextSafe ==
    ASSUME NEW s, NEW r, FlashSafe(s), s.todo # <<>>, s.todo[1].op = "next",
           r.c = FlashEffect(s.c, s.todo[1]), r.todo = FlashAfter(s.todo),
           r.rpc.id = s.rpc.id, r.rpc.golden <=> s.rpc.golden, r.rpc.next = s.rpc.next + 2,
           r.gold <=> s.gold, r.op_len = s.op_len, r.validated <=> s.validated, r.header = s.header,
           r.op_golden <=> s.op_golden, r.done = s.done, r.curfwid = s.curfwid
    PROVE  FlashSafe(r)
<1>1. PICK f \in FlashFiles, b \in FlashBases : FlashJob(s, f, b)
  BY DEF FlashSafe
<1>2. /\ Len(s.todo) = 1 /\ r.todo = <<>> /\ r.c = s.c
      /\ \A k \in 1..Len(s.todo) : \A x : ~FlashTouches(s.todo[k], x)
  BY <1>1, FlashLastStep
<1>3. /\ s.todo \in Seq(FlashOps) /\ FlashArray(s.c) /\ s.rpc.next \in Nat /\ s.rpc.next % 2 = 0
      /\ FlashHeaders(s.c) /\ FlashMasterWhole(s.c)
      /\ s.done = FlashNone /\ (~s.gold => FlashGoldWhole(s.c) /\ s.curfwid # FlashNone)
  BY DEF FlashSafe
<1>4. r.rpc.next \in Nat /\ r.rpc.next % 2 = 0 /\ r.rpc.next # 0
  BY <1>3
<1>5. /\ FlashOkImg(f, b) /\ FlashPlanned(s, f, b) /\ FlashSector(s, f, b) /\ (b = 0 => s.gold)
      /\ b # 0 => FlashJumps(s.c) /\ FlashHidden(s.c, s.todo)
  BY <1>1, <1>2 DEF FlashJob
<1>6. /\ s.rpc.id = f.id /\ (s.rpc.golden <=> b = 0) /\ s.op_len = f.len /\ s.rpc.next + 2 < f.len
      /\ \A i \in (s.rpc.next + 2)..(f.len - 1) : FlashOpen(s.c, s.todo, b + i, <<f.id, i>>)
      /\ b # 0 => \A i \in FlashHdr : FlashOpen(s.c, s.todo, FlashMaster + i, <<f.id, i>>)
  BY <1>5 DEF FlashSector
<1>7. s.validated /\ s.header = f.id /\ (s.op_golden <=> b = 0)
  <2>1. \A k \in 1..Len(s.todo) : s.todo[k].op # "blanked"
    BY <1>2
  <2> QED BY <1>5, <2>1 DEF FlashSector
<1>8. \A x, v : FlashOpen(s.c, s.todo, x, v) => s.c[x] = FlashFF \/ s.c[x] = v
  BY <1>2 DEF FlashOpen, FlashTouches
<1>9. \A x, v : FlashDue(s.c, s.todo, x, v) => s.c[x] = v
  BY <1>2 DEF FlashDue, FlashTouches
<1>10. FlashWritten(r.c, r.rpc.next, f, b)
  <2>1. ASSUME NEW i \in (IF b = 0 THEN 0 ELSE 2)..(r.rpc.next - 1) PROVE s.c[b + i] = <<f.id, i>>
    <3>1. r.rpc.next - 1 = s.rpc.next + 1
      BY <1>3
    <3>2. s.todo[Len(s.todo)].op # "done"
      BY <1>2
    <3>3. FlashDue(s.c, s.todo, b + i, <<f.id, i>>)
      BY <1>5, <2>1, <3>1, <3>2 DEF FlashPlanned
    <3> QED BY <1>9, <3>3
  <2>2. \A i \in r.rpc.next..(f.len - 1) : s.c[b + i] = FlashFF \/ s.c[b + i] = <<f.id, i>>
    BY <1>6, <1>8
  <2>3. ASSUME b # 0
        PROVE  /\ FlashJumps(s.c) /\ s.c[FlashMaster + 1] = FlashFF
               /\ s.c[FlashMaster] = FlashFF \/ s.c[FlashMaster] = <<f.id, 0>>
    <3>1. s.c[FlashMaster + 1] = FlashFF
      BY <1>2, <1>5, <2>3 DEF FlashHidden
    <3>2. 0 \in FlashHdr /\ FlashMaster + 0 = FlashMaster
      BY FlashRooms DEF FlashHdr
    <3>3. FlashOpen(s.c, s.todo, FlashMaster + 0, <<f.id, 0>>)
      BY <1>6, <2>3, <3>2
    <3> QED BY <1>5, <1>8, <2>3, <3>1, <3>2, <3>3
  <2> QED BY <1>2, <2>1, <2>2, <2>3 DEF FlashWritten
<1>11. FlashGoing(r, f, b)
  BY <1>2, <1>5, <1>6, <1>7, <1>10 DEF FlashGoing
<1>12. FlashClient(r)
  BY <1>6, <1>11 DEF FlashClient
<1> QED BY <1>2, <1>3, <1>4, <1>12 DEF FlashSafe

\* and the end of an update.
LEMMA FlashDoneSafe ==
    ASSUME NEW s, NEW r, FlashSafe(s), s.todo # <<>>, s.todo[1].op = "done",
           r.c = FlashEffect(s.c, s.todo[1]), r.todo = FlashAfter(s.todo),
           r.rpc.id = FlashNone, r.rpc.next = s.rpc.next,
           r.gold <=> s.gold /\ ~FlashImg(s.todo[1].d).iprog, r.done = s.todo[1].d, r.curfwid = s.curfwid
    PROVE  FlashSafe(r)
<1>1. PICK f \in FlashFiles, b \in FlashBases : FlashJob(s, f, b)
  BY DEF FlashSafe
<1>2. /\ Len(s.todo) = 1 /\ r.todo = <<>> /\ r.c = s.c /\ r.done = f.id
      /\ \A k \in 1..Len(s.todo) : \A x : ~FlashTouches(s.todo[k], x)
  BY <1>1, FlashLastStep
<1>3. /\ s.todo \in Seq(FlashOps) /\ FlashArray(s.c) /\ s.rpc.next \in Nat /\ s.rpc.next % 2 = 0
      /\ FlashHeaders(s.c) /\ FlashMasterWhole(s.c) /\ s.curfwid # FlashNone
      /\ ~s.gold => FlashGoldWhole(s.c)
  BY DEF FlashSafe
<1>4. FlashOkImg(f, b) /\ FlashPlanned(s, f, b) /\ (b # 0 => FlashJumps(s.c))
  BY <1>1, <1>2 DEF FlashJob
<1>5. \A x, v : FlashDue(s.c, s.todo, x, v) => s.c[x] = v
  BY <1>2 DEF FlashDue, FlashTouches
<1>6. \A i \in 0..(f.len - 1) : s.c[b + i] = <<f.id, i>>
  BY <1>2, <1>4, <1>5 DEF FlashPlanned
<1>7. FlashImg(f.id) = f
  BY FlashImgIs
<1>8. f.iprog <=> b = 0
  BY <1>4, FlashRooms DEF FlashOkImg
<1>9. CASE b = 0
  <2>1. f.iprog /\ f.devid = FlashDevid
    BY <1>4, <1>9 DEF FlashOkImg
  <2>2. \A i \in 0..(f.len - 1) : s.c[i] = <<f.id, i>>
    <3>1. \A i \in 0..(f.len - 1) : b + i = i
      BY <1>9
    <3> QED BY <1>6, <3>1
  <2>3. FlashGoldWhole(r.c)
    BY <1>2, <2>1, <2>2 DEF FlashGoldWhole
  <2>4. FlashBoot(r.c) # FlashNone
    BY <1>2, <1>3, <2>3, FlashStarts
  <2>5. FlashClient(r)
    BY DEF FlashClient
  <2> QED BY <1>2, <1>3, <1>7, <2>1, <2>3, <2>4, <2>5 DEF FlashSafe
<1>10. CASE b # 0
  <2>0. b = FlashMaster
    BY <1>10 DEF FlashBases
  <2>1. ~f.iprog /\ f.devid = FlashDevid
    BY <1>4, <1>8, <1>10 DEF FlashOkImg
  <2>2. FlashBoot(r.c) = f.id
    BY <1>2, <1>3, <1>4, <1>6, <1>10, <2>0, <2>1, FlashStarts
  <2>3. r.gold <=> s.gold
    BY <1>2, <1>7, <2>1
  <2>4. FlashClient(r)
    BY DEF FlashClient
  <2> QED BY <1>2, <1>3, <1>7, <2>1, <2>2, <2>3, <2>4 DEF FlashSafe
<1> QED BY <1>9, <1>10

\* A call that ends with an error.
LEMMA FlashAbortSafe ==
    ASSUME NEW s, NEW r, FlashSafe(s), s.todo # <<>>, s.todo[1].op # "end",
           r.c \in {s.c, FlashEffect(s.c, s.todo[1])}, r.todo = <<>>,
           r.rpc = s.rpc, r.gold <=> s.gold, r.op_len \in {0, s.op_len}, r.validated <=> s.validated,
           r.header = s.header, r.op_golden <=> s.op_golden, r.done = s.done, r.curfwid = s.curfwid
    PROVE  FlashSafe(r)
<1>1. PICK f \in FlashFiles, b \in FlashBases : FlashJob(s, f, b)
  BY DEF FlashSafe
<1>2. /\ s.todo \in Seq(FlashOps) /\ s.rpc.next \in Nat /\ s.rpc.next % 2 = 0 /\ FlashClient(s)
      /\ s.done = FlashNone /\ s.curfwid # FlashNone
  BY DEF FlashSafe
<1>3. r.c \in FlashCutShort(s.c, s.todo[1])
  BY DEF FlashCutShort
<1>4. FlashArray(r.c) /\ FlashHeaders(r.c) /\ FlashMasterWhole(r.c) /\ (~s.gold => FlashGoldWhole(r.c))
  BY <1>3, FlashCutSafe
<1>5. FlashClient(r)
  <2> SUFFICES ASSUME r.rpc.id # FlashNone
               PROVE  /\ f.id = r.rpc.id /\ (r.rpc.golden <=> b = 0) /\ r.op_len \in {0, f.len}
                      /\ r.op_len # 0 /\ r.rpc.next # 0 => FlashGoing(r, f, b)
    BY DEF FlashClient
  <2>1. /\ f.id = s.rpc.id /\ (s.rpc.golden <=> b = 0) /\ s.op_len \in {0, f.len}
        /\ s.op_len # 0 /\ s.rpc.next # 0 => FlashGoing(s, f, b)
    BY <1>1, <1>2, FlashSameImg
  <2>2. ASSUME r.op_len # 0, r.rpc.next # 0 PROVE FlashGoing(r, f, b)
    <3>1. s.op_len # 0 /\ s.rpc.next # 0
      BY <2>2
    <3>2. FlashGoing(s, f, b)
      BY <2>1, <3>1
    <3>3. FlashWritten(r.c, s.rpc.next, f, b)
      BY <1>1, <3>1, <3>2, FlashGoingAccess
    <3> QED BY <3>2, <3>3 DEF FlashGoing
  <2> QED BY <2>1, <2>2
<1>6. <<>> \in Seq(FlashOps)
  OBVIOUS
<1> QED BY <1>2, <1>4, <1>5, <1>6 DEF FlashSafe

\* Power is lost.
LEMMA FlashCutOffSafe ==
    ASSUME NEW s, NEW r, FlashSafe(s),
           r.c \in (IF s.todo = <<>> THEN {s.c} ELSE FlashCutShort(s.c, s.todo[1])), r.todo = <<>>,
           r.rpc.id = FlashNone, r.rpc.next = s.rpc.next, r.gold <=> s.gold, r.done = FlashNone, r.curfwid = FlashBoot(r.c)
    PROVE  FlashSafe(r)
<1>1. /\ s.rpc.next \in Nat /\ s.rpc.next % 2 = 0 /\ FlashArray(s.c) /\ FlashHeaders(s.c) /\ FlashMasterWhole(s.c)
      /\ ~s.gold => FlashGoldWhole(s.c)
  BY DEF FlashSafe
<1>2. FlashArray(r.c) /\ FlashHeaders(r.c) /\ FlashMasterWhole(r.c) /\ (~s.gold => FlashGoldWhole(r.c))
  <2>1. CASE s.todo = <<>>
    BY <1>1, <2>1
  <2>2. CASE s.todo # <<>>
    BY <2>2, FlashCutSafe
  <2> QED BY <2>1, <2>2
<1>3. ~s.gold => FlashBoot(r.c) # FlashNone
  BY <1>2, FlashStarts
<1>4. FlashClient(r)
  BY DEF FlashClient
<1>5. <<>> \in Seq(FlashOps)
  OBVIOUS
<1> QED BY <1>1, <1>2, <1>3, <1>4, <1>5 DEF FlashSafe
-----------------------------------------------------------------------------
\* The image an updater has checked, and the golden image it was checked with.
LEMMA FlashCheckedIs ==
    ASSUME NEW c, FlashHeaders(c), NEW f \in FlashFiles
    PROVE  /\ FlashChecked(c, f, TRUE) => FlashOkImg(f, 0)
           /\ FlashChecked(c, f, FALSE) => FlashOkImg(f, FlashMaster) /\ FlashJumps(c)
<1>1. ASSUME NEW golden, FlashChecked(c, f, golden)
      PROVE  \E g \in FlashFiles : /\ c[0] = <<g.id, 0>> /\ c[1] = <<g.id, 1>> /\ g.iprog /\ g.devid = FlashDevid
                                   /\ f.devid = FlashDevid /\ FlashImg(xlnx_btstrm_parse_header(c, 0)) = g
  <2>1. xlnx_btstrm_parse_header(c, 0) # FlashNone /\ xlnx_btstrm_iprgcheck(c, f, golden)
    BY <1>1 DEF FlashChecked
  <2>2. 0 + 0 = 0 /\ 0 + 1 = 1
    OBVIOUS
  <2>3. PICK g \in FlashFiles : xlnx_btstrm_parse_header(c, 0) = g.id /\ c[0] = <<g.id, 0>> /\ c[1] = <<g.id, 1>>
    BY <2>1, <2>2, FlashParse
  <2>4. FlashImg(g.id) = g
    BY FlashImgIs
  <2>5. g.devid = f.devid
    BY <2>1, <2>3, <2>4 DEF xlnx_btstrm_iprgcheck
  <2>6. g.iprog /\ g.devid = FlashDevid
    BY <2>3 DEF FlashHeaders
  <2> QED BY <2>3, <2>4, <2>5, <2>6
<1>2. ASSUME FlashChecked(c, f, TRUE) PROVE FlashOkImg(f, 0)
  <2>1. f.devid = FlashDevid
    BY <1>1, <1>2
  <2>2. f.wbstar = FlashMaster /\ f.iprog
    BY <1>2 DEF FlashChecked, xlnx_btstrm_iprgcheck
  <2> QED BY <2>1, <2>2 DEF FlashOkImg
<1>3. ASSUME FlashChecked(c, f, FALSE) PROVE FlashOkImg(f, FlashMaster) /\ FlashJumps(c)
  <2>1. PICK g \in FlashFiles : /\ c[0] = <<g.id, 0>> /\ c[1] = <<g.id, 1>> /\ g.iprog /\ g.devid = FlashDevid
                                /\ f.devid = FlashDevid /\ FlashImg(xlnx_btstrm_parse_header(c, 0)) = g
    BY <1>1, <1>3
  <2>2. f.wbstar = 0 /\ g.wbstar = FlashMaster
    BY <1>3, <2>1 DEF FlashChecked, xlnx_btstrm_iprgcheck
  <2>3. FlashOkImg(f, FlashMaster)
    BY <2>1, <2>2, FlashRooms DEF FlashOkImg
  <2>4. \A i \in FlashHdr : c[i] = <<g.id, i>>
    BY <2>1 DEF FlashHdr
  <2> QED BY <2>1, <2>2, <2>3, <2>4 DEF FlashJumps
<1> QED BY <1>2, <1>3

\* o is a loop that erases the n cells from at, one that programs the cells
\* from i to j of the image, or something that is noted.
FlashIsErase(o, at, n, f, b) ==
    /\ o \in FlashOps /\ FlashLoop(o, f, b) /\ o.op = "erase" /\ o.at = at
    /\ \A x \in Nat : (FlashErases(o, x) <=> at <= x /\ x < at + n) /\ ~FlashProgs(o, x)

FlashIsProg(o, i, j, f, b) ==
    /\ o \in FlashOps /\ FlashLoop(o, f, b) /\ o.op = "prog"
    /\ \A x \in Nat : (FlashProgs(o, x) <=> b + i <= x /\ x <= b + j) /\ ~FlashErases(o, x)

FlashIsNote(o, op, f, b) ==
    /\ o \in FlashOps /\ FlashLoop(o, f, b) /\ o.op = op
    /\ \A x \in Nat : ~FlashTouches(o, x) /\ ~FlashProgs(o, x) /\ ~FlashErases(o, x)

\* The loops of espi_flash_erase and espi_flash_write, and the notes between them.
LEMMA FlashEraseLoop ==
    ASSUME NEW f \in FlashFiles, NEW b \in FlashBases, NEW at \in Nat, NEW n \in Nat,
           \A x \in at..(at + n - 1) : x \in FlashRegion(b)
    PROVE  \E o : espi_flash_erase(at, n) = <<o>> /\ FlashIsErase(o, at, n, f, b)
<1>1. PICK o : o = [op |-> "erase", at |-> at, n |-> n, d |-> FlashNone]
  OBVIOUS
<1>2. o.op = "erase" /\ o.at = at /\ o.n = n /\ o \in FlashOps
  <2>1. FlashNone \in FlashData
    BY DEF FlashData
  <2> QED BY <1>1, <2>1 DEF FlashOps
<1>3. FlashLoop(o, f, b)
  BY <1>2 DEF FlashLoop
<1>4. \A x \in Nat : (FlashErases(o, x) <=> at <= x /\ x < at + n) /\ ~FlashProgs(o, x)
  BY <1>2 DEF FlashErases, FlashProgs
<1>5. espi_flash_erase(at, n) = <<o>>
  BY <1>1 DEF espi_flash_erase, FlashOp
<1> QED BY <1>2, <1>3, <1>4, <1>5 DEF FlashIsErase

LEMMA FlashProgLoop ==
    ASSUME NEW f \in FlashFiles, NEW b \in FlashBases, NEW i \in Nat, NEW j \in Nat, i <= j + 1,
           \A x \in (b + i)..(b + j) : x \in FlashRegion(b)
    PROVE  \E o : espi_flash_write(f, i, j, b, FALSE) = <<o>> /\ FlashIsProg(o, i, j, f, b)
<1>0. b \in Nat
  BY FlashRooms DEF FlashBases
<1>1. PICK d : d = [x \in (b + i)..(b + j) |-> FlashBlock(f, x - b, FALSE)]
  OBVIOUS
<1>2. PICK o : o = [op |-> "prog", at |-> b + i, n |-> j + 1 - i, d |-> d]
  OBVIOUS
<1>3. d \in FlashData
  <2>1. ASSUME NEW x \in (b + i)..(b + j) PROVE FlashBlock(f, x - b, FALSE) \in FlashVals
    <3>1. x - b \in Nat
      BY <1>0, <2>1
    <3> QED BY <3>1 DEF FlashBlock, FlashVals
  <2>2. d \in [(b + i)..(b + j) -> FlashVals]
    BY <1>1, <2>1
  <2>3. b + i \in Nat /\ b + j \in Int
    BY <1>0
  <2>4. \E p \in Nat, q \in Int : d \in FlashSpan(p, q)
    BY <2>2, <2>3 DEF FlashSpan
  <2>5. d \in FlashSpans
    BY <2>4 DEF FlashSpans
  <2> QED BY <2>5 DEF FlashData
<1>4. b + i \in Nat /\ j + 1 - i \in Nat
  BY <1>0
<1>5. o.op = "prog" /\ o.at = b + i /\ o.n = j + 1 - i /\ o.d = d /\ o \in FlashOps
  BY <1>2, <1>3, <1>4 DEF FlashOps
<1>6. o.at..(o.at + o.n - 1) = (b + i)..(b + j)
  <2>1. (b + i) + (j + 1 - i) - 1 = b + j
    BY <1>0
  <2> QED BY <1>5, <2>1
<1>7. FlashLoop(o, f, b)
  <2>1. \A x \in (b + i)..(b + j) : x \in FlashRegion(b) /\ d[x] = FlashBlock(f, x - b, FALSE)
    BY <1>1
  <2> QED BY <1>4, <1>5, <1>6, <2>1 DEF FlashLoop
<1>8. \A x \in Nat : (FlashProgs(o, x) <=> b + i <= x /\ x <= b + j) /\ ~FlashErases(o, x)
  <2>1. \A x \in Nat : x \in (b + i)..(b + j) <=> b + i <= x /\ x <= b + j
    BY <1>0
  <2> QED BY <1>5, <1>6, <2>1 DEF FlashErases, FlashProgs
<1>9. espi_flash_write(f, i, j, b, FALSE) = <<o>>
  BY <1>1, <1>2 DEF espi_flash_write, FlashOp
<1> QED BY <1>5, <1>7, <1>8, <1>9 DEF FlashIsProg

LEMMA FlashNoteLoop ==
    ASSUME NEW f \in FlashFiles, NEW b \in FlashBases, NEW op \in {"read", "blanked", "end", "next", "done"},
           NEW d \in {FlashNone, f.id}, op \in {"blanked", "next", "done"} => d = f.id
    PROVE  \E o : FlashOp(op, 0, 0, d) = <<o>> /\ FlashIsNote(o, op, f, b)
<1>1. PICK o : o = [op |-> op, at |-> 0, n |-> 0, d |-> d]
  OBVIOUS
<1>2. o.op = op /\ o.at = 0 /\ o.n = 0 /\ o.d = d /\ o \in FlashOps
  <2>1. d \in FlashData
    BY DEF FlashData
  <2> QED BY <1>1, <2>1 DEF FlashOps
<1>3. 0..(0 + 0 - 1) = {}
  OBVIOUS
<1>4. FlashLoop(o, f, b)
  BY <1>2, <1>3 DEF FlashLoop
<1>5. \A x \in Nat : ~FlashTouches(o, x) /\ ~FlashProgs(o, x) /\ ~FlashErases(o, x)
  BY <1>2, <1>3 DEF FlashErases, FlashProgs, FlashTouches
<1>6. FlashOp(op, 0, 0, d) = <<o>>
  BY <1>1 DEF FlashOp
<1> QED BY <1>2, <1>4, <1>5, <1>6 DEF FlashIsNote
-----------------------------------------------------------------------------
\* The loops of a plan, one after the other.
LEMMA FlashTuple2 ==
    ASSUME NEW p \in FlashOps, NEW q \in FlashOps
    PROVE  <<p>> \o <<q>> = <<p, q>>
<1>1. <<p>> \in Seq(FlashOps) /\ <<q>> \in Seq(FlashOps) /\ <<p, q>> \in Seq(FlashOps)
  OBVIOUS
<1>2. Len(<<p>> \o <<q>>) = 2 /\ Len(<<p, q>>) = 2 /\ <<p>> \o <<q>> \in Seq(FlashOps)
  BY <1>1
<1>3. \A i \in 1..2 : (<<p>> \o <<q>>)[i] = <<p, q>>[i]
  BY <1>1
<1>4. PICK s \in Seq(FlashOps) : s = <<p>> \o <<q>>
  BY <1>2
<1>5. PICK t \in Seq(FlashOps) : t = <<p, q>>
  BY <1>1
<1> QED BY <1>2, <1>3, <1>4, <1>5, SeqEqual

LEMMA FlashTuple3 ==
    ASSUME NEW p \in FlashOps, NEW q \in FlashOps, NEW u \in FlashOps
    PROVE  <<p, q>> \o <<u>> = <<p, q, u>>
<1>1. <<p, q>> \in Seq(FlashOps) /\ <<u>> \in Seq(FlashOps) /\ <<p, q, u>> \in Seq(FlashOps)
  OBVIOUS
<1>2. Len(<<p, q>> \o <<u>>) = 3 /\ Len(<<p, q, u>>) = 3 /\ <<p, q>> \o <<u>> \in Seq(FlashOps)
  BY <1>1
<1>3. \A i \in 1..3 : (<<p, q>> \o <<u>>)[i] = <<p, q, u>>[i]
  BY <1>1
<1>4. PICK s \in Seq(FlashOps) : s = <<p, q>> \o <<u>>
  BY <1>2
<1>5. PICK t \in Seq(FlashOps) : t = <<p, q, u>>
  BY <1>1
<1> QED BY <1>2, <1>3, <1>4, <1>5, SeqEqual

LEMMA FlashTuple4 ==
    ASSUME NEW p \in FlashOps, NEW q \in FlashOps, NEW u \in FlashOps, NEW v \in FlashOps
    PROVE  <<p, q, u>> \o <<v>> = <<p, q, u, v>>
<1>1. <<p, q, u>> \in Seq(FlashOps) /\ <<v>> \in Seq(FlashOps) /\ <<p, q, u, v>> \in Seq(FlashOps)
  OBVIOUS
<1>2. Len(<<p, q, u>> \o <<v>>) = 4 /\ Len(<<p, q, u, v>>) = 4 /\ <<p, q, u>> \o <<v>> \in Seq(FlashOps)
  BY <1>1
<1>3. \A i \in 1..4 : (<<p, q, u>> \o <<v>>)[i] = <<p, q, u, v>>[i]
  BY <1>1
<1>4. PICK s \in Seq(FlashOps) : s = <<p, q, u>> \o <<v>>
  BY <1>2
<1>5. PICK t \in Seq(FlashOps) : t = <<p, q, u, v>>
  BY <1>1
<1> QED BY <1>2, <1>3, <1>4, <1>5, SeqEqual

LEMMA FlashTuple5 ==
    ASSUME NEW p \in FlashOps, NEW q \in FlashOps, NEW u \in FlashOps, NEW v \in FlashOps, NEW w \in FlashOps
    PROVE  <<p, q, u, v>> \o <<w>> = <<p, q, u, v, w>>
<1>1. <<p, q, u, v>> \in Seq(FlashOps) /\ <<w>> \in Seq(FlashOps) /\ <<p, q, u, v, w>> \in Seq(FlashOps)
  OBVIOUS
<1>2. Len(<<p, q, u, v>> \o <<w>>) = 5 /\ Len(<<p, q, u, v, w>>) = 5 /\ <<p, q, u, v>> \o <<w>> \in Seq(FlashOps)
  BY <1>1
<1>3. \A i \in 1..5 : (<<p, q, u, v>> \o <<w>>)[i] = <<p, q, u, v, w>>[i]
  BY <1>1
<1>4. PICK s \in Seq(FlashOps) : s = <<p, q, u, v>> \o <<w>>
  BY <1>2
<1>5. PICK t \in Seq(FlashOps) : t = <<p, q, u, v, w>>
  BY <1>1
<1> QED BY <1>2, <1>3, <1>4, <1>5, SeqEqual

LEMMA FlashTuple6 ==
    ASSUME NEW p \in FlashOps, NEW q \in FlashOps, NEW u \in FlashOps, NEW v \in FlashOps, NEW w \in FlashOps, NEW z \in FlashOps
    PROVE  <<p, q, u, v, w>> \o <<z>> = <<p, q, u, v, w, z>>
<1>1. <<p, q, u, v, w>> \in Seq(FlashOps) /\ <<z>> \in Seq(FlashOps) /\ <<p, q, u, v, w, z>> \in Seq(FlashOps)
  OBVIOUS
<1>2. Len(<<p, q, u, v, w>> \o <<z>>) = 6 /\ Len(<<p, q, u, v, w, z>>) = 6 /\ <<p, q, u, v, w>> \o <<z>> \in Seq(FlashOps)
  BY <1>1
<1>3. \A i \in 1..6 : (<<p, q, u, v, w>> \o <<z>>)[i] = <<p, q, u, v, w, z>>[i]
  BY <1>1
<1>4. PICK s \in Seq(FlashOps) : s = <<p, q, u, v, w>> \o <<z>>
  BY <1>2
<1>5. PICK t \in Seq(FlashOps) : t = <<p, q, u, v, w, z>>
  BY <1>1
<1> QED BY <1>2, <1>3, <1>4, <1>5, SeqEqual

\* usdr_flash with a golden image.
LEMMA FlashCliGolden ==
    ASSUME NEW r, NEW f \in FlashFiles, FlashOkImg(f, 0), r.rpc.id = FlashNone, r.gold,
           r.todo = FlashCliWrites(f, TRUE, FALSE) \o FlashOp("read", 0, 0, FlashNone) \o FlashOp("done", 0, 0, f.id)
    PROVE  r.todo \in Seq(FlashOps) /\ r.todo # <<>> /\ FlashJob(r, f, 0)
<1>0. 0 \in FlashBases /\ f.iprog /\ f.len \in Nat /\ f.len >= 2
  BY FlashRooms DEF FlashBases, FlashOkImg
<1>1. PICK total \in Nat : total = FlashRoundUp(f.len, FlashSect) /\ f.len <= total /\ FlashSect <= total
  BY <1>0, FlashRounded
<1>2. \A x \in 0..(total - 1) : x \in FlashRegion(0)
  <2>1. \A x \in 0..(0 + FlashRoundUp(f.len, FlashSect) - 1) : x \in FlashRegion(0)
    BY <1>0, FlashRounded
  <2>2. 0 + total - 1 = total - 1
    BY <1>1
  <2> QED BY <1>1, <2>1, <2>2
<1>3. FlashSub \in Nat /\ FlashSub > 2 /\ FlashSub <= total /\ total - FlashSub \in Nat /\ FlashSub - 1 \in Nat /\ total - 1 \in Nat
  BY <1>1, FlashAssumption
<1>4. PICK e1 : espi_flash_erase(0, FlashSub) = <<e1>> /\ FlashIsErase(e1, 0, FlashSub, f, 0)
  <2>1. \A x \in 0..(0 + FlashSub - 1) : x \in FlashRegion(0)
    BY <1>2, <1>3
  <2> QED BY <1>0, <1>3, <2>1, FlashEraseLoop
<1>5. PICK p1 : espi_flash_write(f, 0, FlashSub - 1, 0, FALSE) = <<p1>> /\ FlashIsProg(p1, 0, FlashSub - 1, f, 0)
  <2>1. \A x \in (0 + 0)..(0 + (FlashSub - 1)) : x \in FlashRegion(0)
    BY <1>2, <1>3
  <2>2. 0 \in Nat /\ (FlashSub - 1) \in Nat /\ 0 <= (FlashSub - 1) + 1
    BY <1>0, <1>3
  <2> QED BY <1>0, <2>1, <2>2, FlashProgLoop
<1>6. PICK e2 : /\ espi_flash_erase(FlashSub, total - FlashSub) = <<e2>>
                /\ FlashIsErase(e2, FlashSub, total - FlashSub, f, 0)
  <2>1. \A x \in FlashSub..(FlashSub + (total - FlashSub) - 1) : x \in FlashRegion(0)
    BY <1>2, <1>3
  <2> QED BY <1>0, <1>3, <2>1, FlashEraseLoop
<1>7. PICK p2 : /\ espi_flash_write(f, FlashSub, total - 1, 0, FALSE) = <<p2>>
                /\ FlashIsProg(p2, FlashSub, total - 1, f, 0)
  <2>1. \A x \in (0 + FlashSub)..(0 + (total - 1)) : x \in FlashRegion(0)
    BY <1>2, <1>3
  <2>2. FlashSub \in Nat /\ (total - 1) \in Nat /\ FlashSub <= (total - 1) + 1
    BY <1>0, <1>3
  <2> QED BY <1>0, <2>1, <2>2, FlashProgLoop
<1>8. PICK rd : FlashOp("read", 0, 0, FlashNone) = <<rd>> /\ FlashIsNote(rd, "read", f, 0)
  BY <1>0, FlashNoteLoop
<1>9. PICK dn : FlashOp("done", 0, 0, f.id) = <<dn>> /\ FlashIsNote(dn, "done", f, 0)
  BY <1>0, FlashNoteLoop
<1>10. PICK t : t = <<e1, p1, e2, p2, rd, dn>>
  OBVIOUS
<1>t. {e1, p1, e2, p2, rd, dn} \subseteq FlashOps
  BY <1>4, <1>5, <1>6, <1>7, <1>8, <1>9 DEF FlashIsErase, FlashIsProg, FlashIsNote
<1>11. r.todo = t
  <2>1. FlashCliWrites(f, TRUE, FALSE) = <<e1>> \o <<p1>> \o <<e2>> \o <<p2>>
    BY <1>1, <1>4, <1>5, <1>6, <1>7 DEF FlashCliWrites
  <2>c1. <<e1>> \o <<p1>> = <<e1, p1>>
    BY <1>t, FlashTuple2
  <2>c2. <<e1, p1>> \o <<e2>> = <<e1, p1, e2>>
    BY <1>t, FlashTuple3
  <2>c3. <<e1, p1, e2>> \o <<p2>> = <<e1, p1, e2, p2>>
    BY <1>t, FlashTuple4
  <2>c4. <<e1, p1, e2, p2>> \o <<rd>> = <<e1, p1, e2, p2, rd>>
    BY <1>t, FlashTuple5
  <2>c5. <<e1, p1, e2, p2, rd>> \o <<dn>> = <<e1, p1, e2, p2, rd, dn>>
    BY <1>t, FlashTuple6
  <2> QED BY <1>8, <1>9, <1>10, <2>1, <2>c1, <2>c2, <2>c3, <2>c4, <2>c5, Zenon
<1>12. /\ Len(t) = 6 /\ t \in Seq(FlashOps) /\ t # <<>>
       /\ t[1] = e1 /\ t[2] = p1 /\ t[3] = e2 /\ t[4] = p2 /\ t[5] = rd /\ t[6] = dn
  BY <1>4, <1>5, <1>6, <1>7, <1>8, <1>9, <1>10 DEF FlashIsErase, FlashIsProg, FlashIsNote
<1>13. \A k \in 1..6 : /\ FlashLoop(t[k], f, 0)
                       /\ t[k].op \in {"next", "done"} <=> k = 6
  BY <1>4, <1>5, <1>6, <1>7, <1>8, <1>9, <1>12 DEF FlashIsErase, FlashIsProg, FlashIsNote
<1>14. \A x \in Nat :
          /\ FlashErases(t[1], x) <=> x < FlashSub
          /\ FlashProgs(t[2], x) <=> x < FlashSub
          /\ FlashErases(t[3], x) <=> FlashSub <= x /\ x < total
          /\ FlashProgs(t[4], x) <=> FlashSub <= x /\ x < total
          /\ ~FlashProgs(t[1], x) /\ ~FlashProgs(t[3], x) /\ ~FlashProgs(t[5], x) /\ ~FlashProgs(t[6], x)
          /\ ~FlashErases(t[2], x) /\ ~FlashErases(t[4], x) /\ ~FlashErases(t[5], x) /\ ~FlashErases(t[6], x)
  BY <1>3, <1>4, <1>5, <1>6, <1>7, <1>8, <1>9, <1>12 DEF FlashIsErase, FlashIsProg, FlashIsNote
<1>15. FlashOrder(t)
  <2> SUFFICES ASSUME NEW j \in 1..6, NEW k \in 1..6, j < k, NEW x \in Nat, FlashProgs(t[j], x), FlashTouches(t[k], x)
               PROVE  FALSE
    BY <1>12 DEF FlashOrder
  <2>1. j \in {2, 4}
    BY <1>14
  <2>2. CASE j = 2
    BY <1>3, <1>14, <2>2 DEF FlashTouches
  <2>3. CASE j = 4
    BY <1>3, <1>14, <2>3 DEF FlashTouches
  <2> QED BY <2>1, <2>2, <2>3
<1>16. FlashBlanked(r.c, t)
  <2> SUFFICES ASSUME NEW k \in 1..6, NEW x \in Nat, FlashProgs(t[k], x)
               PROVE  \E j \in 1..6 : j < k /\ FlashErases(t[j], x)
    BY <1>12 DEF FlashBlanked
  <2>1. k \in {2, 4}
    BY <1>14
  <2> QED BY <1>14, <2>1
<1>17. FlashPlanned(r, f, 0)
  <2>1. ASSUME NEW i \in 0..(f.len - 1) PROVE FlashDue(r.c, t, 0 + i, <<f.id, i>>)
    <3>1. 0 + i \in Nat /\ 0 + i < total
      BY <1>0, <1>1
    <3>2. FlashProgs(t[2], 0 + i) \/ FlashProgs(t[4], 0 + i)
      BY <1>3, <1>14, <3>1
    <3> QED BY <1>12, <3>2 DEF FlashDue
  <2>2. t[Len(t)].op = "done"
    BY <1>9, <1>12 DEF FlashIsNote
  <2> QED BY <1>11, <2>1, <2>2 DEF FlashPlanned
<1>18. t[Len(t)].op # "next"
  BY <1>9, <1>12 DEF FlashIsNote
<1> QED BY <1>11, <1>12, <1>13, <1>15, <1>16, <1>17, <1>18 DEF FlashJob

\* usdr_flash with a master image.
LEMMA FlashCliMaster ==
    ASSUME NEW r, NEW f \in FlashFiles, FlashOkImg(f, FlashMaster), r.rpc.id = FlashNone, FlashJumps(r.c),
           r.todo = FlashCliWrites(f, FALSE, FALSE) \o FlashOp("read", 0, 0, FlashNone) \o FlashOp("done", 0, 0, f.id)
    PROVE  r.todo \in Seq(FlashOps) /\ r.todo # <<>> /\ FlashJob(r, f, FlashMaster)
<1> DEFINE M == FlashMaster
<1>0. M \in FlashBases /\ M \in Nat /\ M # 0 /\ ~f.iprog /\ f.len \in Nat /\ f.len >= 2
  BY FlashRooms DEF FlashBases, FlashOkImg
<1>1. PICK total \in Nat : total = FlashRoundUp(f.len, FlashSect) /\ f.len <= total /\ FlashSect <= total
  BY <1>0, FlashRounded
<1>2. \A x \in M..(M + total - 1) : x \in FlashRegion(M)
  BY <1>0, <1>1, FlashRounded
<1>3. FlashSect \in Nat /\ FlashSect > 2 /\ total > 2 /\ total - 1 \in Nat
  BY <1>1, FlashAssumption
<1>4. PICK e1 : espi_flash_erase(M, total) = <<e1>> /\ FlashIsErase(e1, M, total, f, M)
  BY <1>0, <1>1, <1>2, FlashEraseLoop
<1>5. PICK p1 : espi_flash_write(f, 2, total - 1, M, FALSE) = <<p1>> /\ FlashIsProg(p1, 2, total - 1, f, M)
  <2>1. \A x \in (M + 2)..(M + (total - 1)) : x \in FlashRegion(M)
    BY <1>0, <1>2, <1>3
  <2>2. 2 \in Nat /\ (total - 1) \in Nat /\ 2 <= (total - 1) + 1
    BY <1>0, <1>3
  <2> QED BY <1>0, <2>1, <2>2, FlashProgLoop
<1>6. PICK p2 : espi_flash_write(f, 0, 1, M, FALSE) = <<p2>> /\ FlashIsProg(p2, 0, 1, f, M)
  <2>1. \A x \in (M + 0)..(M + 1) : x \in FlashRegion(M)
    BY <1>0, <1>2, <1>3
  <2>2. 0 \in Nat /\ 1 \in Nat /\ 0 <= 1 + 1
    BY <1>0, <1>3
  <2> QED BY <1>0, <2>1, <2>2, FlashProgLoop
<1>8. PICK rd : FlashOp("read", 0, 0, FlashNone) = <<rd>> /\ FlashIsNote(rd, "read", f, M)
  BY <1>0, FlashNoteLoop
<1>9. PICK dn : FlashOp("done", 0, 0, f.id) = <<dn>> /\ FlashIsNote(dn, "done", f, M)
  BY <1>0, FlashNoteLoop
<1>10. PICK t : t = <<e1, p1, p2, rd, dn>>
  OBVIOUS
<1>t. {e1, p1, p2, rd, dn} \subseteq FlashOps
  BY <1>4, <1>5, <1>6, <1>8, <1>9 DEF FlashIsErase, FlashIsProg, FlashIsNote
<1>11. r.todo = t
  <2>1. FlashCliWrites(f, FALSE, FALSE) = <<e1>> \o <<p1>> \o <<p2>>
    BY <1>1, <1>4, <1>5, <1>6 DEF FlashCliWrites
  <2>c1. <<e1>> \o <<p1>> = <<e1, p1>>
    BY <1>t, FlashTuple2
  <2>c2. <<e1, p1>> \o <<p2>> = <<e1, p1, p2>>
    BY <1>t, FlashTuple3
  <2>c3. <<e1, p1, p2>> \o <<rd>> = <<e1, p1, p2, rd>>
    BY <1>t, FlashTuple4
  <2>c4. <<e1, p1, p2, rd>> \o <<dn>> = <<e1, p1, p2, rd, dn>>
    BY <1>t, FlashTuple5
  <2> QED BY <1>8, <1>9, <1>10, <2>1, <2>c1, <2>c2, <2>c3, <2>c4, Zenon
<1>12. /\ Len(t) = 5 /\ t \in Seq(FlashOps) /\ t # <<>>
       /\ t[1] = e1 /\ t[2] = p1 /\ t[3] = p2 /\ t[4] = rd /\ t[5] = dn
  BY <1>4, <1>5, <1>6, <1>8, <1>9, <1>10 DEF FlashIsErase, FlashIsProg, FlashIsNote
<1>13. \A k \in 1..5 : /\ FlashLoop(t[k], f, M)
                       /\ t[k].op \in {"next", "done"} <=> k = 5
  BY <1>4, <1>5, <1>6, <1>8, <1>9, <1>12 DEF FlashIsErase, FlashIsProg, FlashIsNote
<1>14. \A x \in Nat :
          /\ FlashErases(t[1], x) <=> M <= x /\ x < M + total
          /\ FlashProgs(t[2], x) <=> M + 2 <= x /\ x < M + total
          /\ FlashProgs(t[3], x) <=> M <= x /\ x < M + 2
          /\ ~FlashProgs(t[1], x) /\ ~FlashProgs(t[4], x) /\ ~FlashProgs(t[5], x)
          /\ ~FlashErases(t[2], x) /\ ~FlashErases(t[3], x) /\ ~FlashErases(t[4], x) /\ ~FlashErases(t[5], x)
  BY <1>0, <1>3, <1>4, <1>5, <1>6, <1>8, <1>9, <1>12 DEF FlashIsErase, FlashIsProg, FlashIsNote
<1>15. FlashOrder(t)
  <2> SUFFICES ASSUME NEW j \in 1..5, NEW k \in 1..5, j < k, NEW x \in Nat, FlashProgs(t[j], x), FlashTouches(t[k], x)
               PROVE  FALSE
    BY <1>12 DEF FlashOrder
  <2>1. j \in {2, 3}
    BY <1>14
  <2> QED BY <1>0, <1>3, <1>14, <2>1 DEF FlashTouches
<1>16. FlashBlanked(r.c, t)
  <2> SUFFICES ASSUME NEW k \in 1..5, NEW x \in Nat, FlashProgs(t[k], x)
               PROVE  \E j \in 1..5 : j < k /\ FlashErases(t[j], x)
    BY <1>12 DEF FlashBlanked
  <2>1. k \in {2, 3}
    BY <1>14
  <2>2. FlashErases(t[1], x)
    BY <1>0, <1>3, <1>14, <2>1
  <2> QED BY <2>1, <2>2
<1>17. FlashPlanned(r, f, M)
  <2>1. ASSUME NEW i \in 0..(f.len - 1) PROVE FlashDue(r.c, t, M + i, <<f.id, i>>)
    <3>1. M + i \in Nat /\ M <= M + i /\ M + i < M + total
      BY <1>0, <1>1
    <3>2. FlashProgs(t[2], M + i) \/ FlashProgs(t[3], M + i)
      BY <1>0, <1>3, <1>14, <3>1
    <3> QED BY <1>12, <3>2 DEF FlashDue
  <2>2. t[Len(t)].op = "done"
    BY <1>9, <1>12 DEF FlashIsNote
  <2> QED BY <1>11, <2>1, <2>2 DEF FlashPlanned
<1>18. t[Len(t)].op = "done"
  BY <1>9, <1>12 DEF FlashIsNote
<1>19. FlashLast(t)
  <2> SUFFICES ASSUME NEW k \in 1..5, FlashProgs(t[k], M + 1)
               PROVE  \A j \in 1..5, x \in Nat : j >= k /\ FlashTouches(t[j], x) => j = k /\ x <= M + 1
    BY <1>12, <1>18 DEF FlashLast
  <2>1. k = 3
    BY <1>0, <1>3, <1>14
  <2> QED BY <1>0, <1>14, <2>1 DEF FlashTouches
<1>20. FlashHidden(r.c, t)
  BY <1>4, <1>12 DEF FlashHidden, FlashIsErase
<1> QED BY <1>0, <1>11, <1>12, <1>13, <1>15, <1>16, <1>17, <1>18, <1>19, <1>20 DEF FlashJob
-----------------------------------------------------------------------------
\* The first sector of a master image.
LEMMA FlashFirstMaster ==
    ASSUME NEW r, NEW f \in FlashFiles, FlashOkImg(f, FlashMaster), FlashJumps(r.c),
           r.rpc.id = f.id, ~r.rpc.golden, r.rpc.next = 0, r.op_len = f.len, f.len > 2,
           NEW total \in Nat, f.len <= total,
           NEW e1, FlashIsErase(e1, FlashMaster, total, f, FlashMaster),
           NEW bl, FlashIsNote(bl, "blanked", f, FlashMaster),
           NEW nx, FlashIsNote(nx, "next", f, FlashMaster), r.todo = <<e1, bl, nx>>
    PROVE  r.todo \in Seq(FlashOps) /\ r.todo # <<>> /\ FlashJob(r, f, FlashMaster)
<1> DEFINE M == FlashMaster
<1>0. M \in Nat /\ M # 0 /\ f.len \in Nat
  BY FlashRooms
<1>10. PICK t : t = r.todo
  OBVIOUS
<1>12. /\ Len(t) = 3 /\ t \in Seq(FlashOps) /\ t # <<>>
       /\ t[1] = e1 /\ t[2] = bl /\ t[3] = nx
  BY <1>10 DEF FlashIsErase, FlashIsProg, FlashIsNote
<1>13. \A k \in 1..3 : /\ FlashLoop(t[k], f, M)
                       /\ t[k].op \in {"next", "done"} <=> k = 3
                       /\ t[k].op # "end"
  BY <1>12 DEF FlashIsErase, FlashIsProg, FlashIsNote
<1>14. \A x \in Nat :
          /\ FlashErases(t[1], x) <=> M <= x /\ x < M + total
          /\ \A k \in 1..3 : ~FlashProgs(t[k], x)
  BY <1>12 DEF FlashIsErase, FlashIsProg, FlashIsNote
<1>15. FlashOrder(t)
  BY <1>12, <1>14 DEF FlashOrder
<1>16. FlashBlanked(r.c, t)
  BY <1>12, <1>14 DEF FlashBlanked
<1>17. t[Len(t)].op = "next" /\ t[2].op = "blanked" /\ t[1].op = "erase" /\ t[1].at = M
  BY <1>12 DEF FlashIsNote, FlashIsErase
<1>18. FlashPlanned(r, f, M)
  <2>1. 2..(0 + 1) = {}
    OBVIOUS
  <2> QED BY <1>0, <1>10, <1>17, <2>1 DEF FlashPlanned
<1>19. FlashSector(r, f, M)
  <2>1. ASSUME NEW i \in 0..(f.len - 1) PROVE FlashOpen(r.c, t, M + i, <<f.id, i>>)
    <3>1. M + i \in Nat /\ M <= M + i /\ M + i < M + total
      BY <1>0, <2>1
    <3>2. FlashErases(t[1], M + i)
      BY <1>14, <3>1
    <3> QED BY <1>12, <3>2 DEF FlashOpen
  <2>2. \A i \in (0 + 2)..(f.len - 1) : FlashOpen(r.c, t, M + i, <<f.id, i>>)
    BY <1>0, <2>1
  <2>3. \A i \in FlashHdr : FlashOpen(r.c, t, M + i, <<f.id, i>>)
    BY <1>0, <2>1 DEF FlashHdr
  <2>4. \E k \in 1..3 : t[k].op = "blanked"
    BY <1>17
  <2> QED BY <1>0, <1>10, <1>12, <1>13, <2>2, <2>3, <2>4 DEF FlashSector
<1>20. FlashLast(t) /\ FlashHidden(r.c, t)
  BY <1>0, <1>12, <1>14, <1>17 DEF FlashLast, FlashHidden
<1> QED BY <1>0, <1>10, <1>12, <1>13, <1>15, <1>16, <1>17, <1>18, <1>19, <1>20 DEF FlashJob

\* The only sector of a master image.
LEMMA FlashOnlyMaster ==
    ASSUME NEW r, NEW f \in FlashFiles, FlashOkImg(f, FlashMaster), FlashJumps(r.c),
           r.rpc.id = f.id, ~r.rpc.golden, f.len = 2,
           NEW total \in Nat, 2 <= total,
           NEW e1, FlashIsErase(e1, FlashMaster, total, f, FlashMaster),
           NEW bl, FlashIsNote(bl, "blanked", f, FlashMaster), NEW en, FlashIsNote(en, "end", f, FlashMaster),
           NEW p1, FlashIsProg(p1, 0, 1, f, FlashMaster),
           NEW dn, FlashIsNote(dn, "done", f, FlashMaster), r.todo = <<e1, bl, en, p1, dn>>
    PROVE  r.todo \in Seq(FlashOps) /\ r.todo # <<>> /\ FlashJob(r, f, FlashMaster)
<1> DEFINE M == FlashMaster
<1>0. M \in Nat /\ M # 0
  BY FlashRooms
<1>10. PICK t : t = r.todo
  OBVIOUS
<1>12. /\ Len(t) = 5 /\ t \in Seq(FlashOps) /\ t # <<>>
       /\ t[1] = e1 /\ t[2] = bl /\ t[3] = en /\ t[4] = p1 /\ t[5] = dn
  BY <1>10 DEF FlashIsErase, FlashIsProg, FlashIsNote
<1>13. \A k \in 1..5 : /\ FlashLoop(t[k], f, M)
                       /\ t[k].op \in {"next", "done"} <=> k = 5
  BY <1>12 DEF FlashIsErase, FlashIsProg, FlashIsNote
<1>14. \A x \in Nat :
          /\ FlashErases(t[1], x) <=> M <= x /\ x < M + total
          /\ FlashProgs(t[4], x) <=> M <= x /\ x < M + 2
          /\ ~FlashProgs(t[1], x) /\ ~FlashProgs(t[2], x) /\ ~FlashProgs(t[3], x) /\ ~FlashProgs(t[5], x)
          /\ ~FlashErases(t[4], x) /\ ~FlashErases(t[2], x) /\ ~FlashErases(t[3], x) /\ ~FlashErases(t[5], x)
  BY <1>0, <1>12 DEF FlashIsErase, FlashIsProg, FlashIsNote
<1>15. FlashOrder(t)
  <2> SUFFICES ASSUME NEW j \in 1..5, NEW k \in 1..5, j < k, NEW x \in Nat, FlashProgs(t[j], x), FlashTouches(t[k], x)
               PROVE  FALSE
    BY <1>12 DEF FlashOrder
  <2>1. j = 4
    BY <1>14
  <2> QED BY <1>14, <2>1 DEF FlashTouches
<1>16. FlashBlanked(r.c, t)
  <2> SUFFICES ASSUME NEW k \in 1..5, NEW x \in Nat, FlashProgs(t[k], x)
               PROVE  \E j \in 1..5 : j < k /\ FlashErases(t[j], x)
    BY <1>12 DEF FlashBlanked
  <2>1. k = 4
    BY <1>14
  <2>2. FlashErases(t[1], x)
    BY <1>0, <1>14, <2>1
  <2> QED BY <2>1, <2>2
<1>17. t[Len(t)].op = "done" /\ t[1].op = "erase" /\ t[1].at = M
  BY <1>12 DEF FlashIsNote, FlashIsErase
<1>18. FlashPlanned(r, f, M)
  <2>1. ASSUME NEW i \in 0..(f.len - 1) PROVE FlashDue(r.c, t, M + i, <<f.id, i>>)
    <3>1. M + i \in Nat /\ M <= M + i /\ M + i < M + 2
      BY <1>0, <2>1
    <3>2. FlashProgs(t[4], M + i)
      BY <1>14, <3>1
    <3> QED BY <1>12, <3>2 DEF FlashDue
  <2> QED BY <1>10, <1>17, <2>1 DEF FlashPlanned
<1>19. FlashLast(t)
  <2> SUFFICES ASSUME NEW k \in 1..5, FlashProgs(t[k], M + 1)
               PROVE  \A j \in 1..5, x \in Nat : j >= k /\ FlashTouches(t[j], x) => j = k /\ x <= M + 1
    BY <1>12, <1>17 DEF FlashLast
  <2>1. k = 4
    BY <1>0, <1>14
  <2> QED BY <1>0, <1>14, <2>1 DEF FlashTouches
<1>20. FlashHidden(r.c, t)
  BY <1>17 DEF FlashHidden
<1> QED BY <1>0, <1>10, <1>12, <1>13, <1>15, <1>16, <1>17, <1>18, <1>19, <1>20 DEF FlashJob

\* The first sector of a golden image.
LEMMA FlashFirstGolden ==
    ASSUME NEW r, NEW f \in FlashFiles, FlashOkImg(f, 0), r.gold,
           r.rpc.id = f.id, r.rpc.golden, r.rpc.next = 0, r.op_len = f.len, f.len > 2,
           NEW m \in Nat, f.len <= FlashSub + m,
           NEW e1, FlashIsErase(e1, 0, FlashSub, f, 0), NEW p1, FlashIsProg(p1, 0, 1, f, 0),
           NEW e2, FlashIsErase(e2, FlashSub, m, f, 0),
           NEW bl, FlashIsNote(bl, "blanked", f, 0),
           NEW nx, FlashIsNote(nx, "next", f, 0), r.todo = <<e1, p1, e2, bl, nx>>
    PROVE  r.todo \in Seq(FlashOps) /\ r.todo # <<>> /\ FlashJob(r, f, 0)
<1>0. f.len \in Nat /\ FlashSub \in Nat /\ FlashSub > 2
  BY FlashRooms, FlashAssumption
<1>10. PICK t : t = r.todo
  OBVIOUS
<1>12. /\ Len(t) = 5 /\ t \in Seq(FlashOps) /\ t # <<>>
       /\ t[1] = e1 /\ t[2] = p1 /\ t[3] = e2 /\ t[4] = bl /\ t[5] = nx
  BY <1>10 DEF FlashIsErase, FlashIsProg, FlashIsNote
<1>13. \A k \in 1..5 : /\ FlashLoop(t[k], f, 0)
                       /\ t[k].op \in {"next", "done"} <=> k = 5
                       /\ t[k].op # "end"
  BY <1>12 DEF FlashIsErase, FlashIsProg, FlashIsNote
<1>14. \A x \in Nat :
          /\ FlashErases(t[1], x) <=> x < FlashSub
          /\ FlashProgs(t[2], x) <=> x < 2
          /\ FlashErases(t[3], x) <=> FlashSub <= x /\ x < FlashSub + m
          /\ ~FlashProgs(t[1], x) /\ ~FlashProgs(t[3], x) /\ ~FlashProgs(t[4], x) /\ ~FlashProgs(t[5], x)
          /\ ~FlashErases(t[2], x) /\ ~FlashErases(t[4], x) /\ ~FlashErases(t[5], x)
  BY <1>0, <1>12 DEF FlashIsErase, FlashIsProg, FlashIsNote
<1>15. FlashOrder(t)
  <2> SUFFICES ASSUME NEW j \in 1..5, NEW k \in 1..5, j < k, NEW x \in Nat, FlashProgs(t[j], x), FlashTouches(t[k], x)
               PROVE  FALSE
    BY <1>12 DEF FlashOrder
  <2>1. j = 2
    BY <1>14
  <2> QED BY <1>0, <1>14, <2>1 DEF FlashTouches
<1>16. FlashBlanked(r.c, t)
  <2> SUFFICES ASSUME NEW k \in 1..5, NEW x \in Nat, FlashProgs(t[k], x)
               PROVE  \E j \in 1..5 : j < k /\ FlashErases(t[j], x)
    BY <1>12 DEF FlashBlanked
  <2>1. k = 2
    BY <1>14
  <2>2. FlashErases(t[1], x)
    BY <1>0, <1>14, <2>1
  <2> QED BY <2>1, <2>2
<1>17. t[Len(t)].op = "next" /\ t[4].op = "blanked"
  BY <1>12 DEF FlashIsNote
<1>18. FlashPlanned(r, f, 0)
  <2>1. ASSUME NEW i \in 0..(0 + 1) PROVE FlashDue(r.c, t, 0 + i, <<f.id, i>>)
    <3>1. 0 + i \in Nat /\ 0 + i < 2
      BY <2>1
    <3>2. FlashProgs(t[2], 0 + i)
      BY <1>14, <3>1
    <3> QED BY <1>12, <3>2 DEF FlashDue
  <2> QED BY <1>10, <1>17, <2>1 DEF FlashPlanned
<1>19. FlashSector(r, f, 0)
  <2>1. ASSUME NEW i \in (0 + 2)..(f.len - 1) PROVE FlashOpen(r.c, t, 0 + i, <<f.id, i>>)
    <3>1. 0 + i \in Nat /\ 0 + i < FlashSub + m
      BY <1>0, <2>1
    <3>2. FlashErases(t[1], 0 + i) \/ FlashErases(t[3], 0 + i)
      BY <1>0, <1>14, <3>1
    <3> QED BY <1>12, <3>2 DEF FlashOpen
  <2>4. \E k \in 1..5 : t[k].op = "blanked"
    BY <1>17
  <2> QED BY <1>0, <1>10, <1>12, <1>13, <2>1, <2>4 DEF FlashSector
<1> QED BY <1>0, <1>10, <1>12, <1>13, <1>15, <1>16, <1>17, <1>18, <1>19 DEF FlashJob

\* The only sector of a golden image.
LEMMA FlashOnlyGolden ==
    ASSUME NEW r, NEW f \in FlashFiles, FlashOkImg(f, 0), r.gold,
           r.rpc.id = f.id, r.rpc.golden, f.len = 2, NEW m \in Nat,
           NEW e1, FlashIsErase(e1, 0, FlashSub, f, 0), NEW p1, FlashIsProg(p1, 0, 1, f, 0),
           NEW e2, FlashIsErase(e2, FlashSub, m, f, 0),
           NEW bl, FlashIsNote(bl, "blanked", f, 0), NEW en, FlashIsNote(en, "end", f, 0),
           NEW dn, FlashIsNote(dn, "done", f, 0), r.todo = <<e1, p1, e2, bl, en, dn>>
    PROVE  r.todo \in Seq(FlashOps) /\ r.todo # <<>> /\ FlashJob(r, f, 0)
<1>0. FlashSub \in Nat /\ FlashSub > 2
  BY FlashAssumption
<1>10. PICK t : t = r.todo
  OBVIOUS
<1>12. /\ Len(t) = 6 /\ t \in Seq(FlashOps) /\ t # <<>>
       /\ t[1] = e1 /\ t[2] = p1 /\ t[3] = e2 /\ t[4] = bl /\ t[5] = en /\ t[6] = dn
  BY <1>10 DEF FlashIsErase, FlashIsProg, FlashIsNote
<1>13. \A k \in 1..6 : /\ FlashLoop(t[k], f, 0)
                       /\ t[k].op \in {"next", "done"} <=> k = 6
  BY <1>12 DEF FlashIsErase, FlashIsProg, FlashIsNote
<1>14. \A x \in Nat :
          /\ FlashErases(t[1], x) <=> x < FlashSub
          /\ FlashProgs(t[2], x) <=> x < 2
          /\ FlashErases(t[3], x) <=> FlashSub <= x /\ x < FlashSub + m
          /\ ~FlashProgs(t[1], x) /\ ~FlashProgs(t[3], x) /\ ~FlashProgs(t[4], x) /\ ~FlashProgs(t[5], x) /\ ~FlashProgs(t[6], x)
          /\ ~FlashErases(t[2], x) /\ ~FlashErases(t[4], x) /\ ~FlashErases(t[5], x) /\ ~FlashErases(t[6], x)
  BY <1>0, <1>12 DEF FlashIsErase, FlashIsProg, FlashIsNote
<1>15. FlashOrder(t)
  <2> SUFFICES ASSUME NEW j \in 1..6, NEW k \in 1..6, j < k, NEW x \in Nat, FlashProgs(t[j], x), FlashTouches(t[k], x)
               PROVE  FALSE
    BY <1>12 DEF FlashOrder
  <2>1. j = 2
    BY <1>14
  <2> QED BY <1>0, <1>14, <2>1 DEF FlashTouches
<1>16. FlashBlanked(r.c, t)
  <2> SUFFICES ASSUME NEW k \in 1..6, NEW x \in Nat, FlashProgs(t[k], x)
               PROVE  \E j \in 1..6 : j < k /\ FlashErases(t[j], x)
    BY <1>12 DEF FlashBlanked
  <2>1. k = 2
    BY <1>14
  <2>2. FlashErases(t[1], x)
    BY <1>0, <1>14, <2>1
  <2> QED BY <2>1, <2>2
<1>17. t[Len(t)].op = "done"
  BY <1>12 DEF FlashIsNote
<1>18. FlashPlanned(r, f, 0)
  <2>1. ASSUME NEW i \in 0..(f.len - 1) PROVE FlashDue(r.c, t, 0 + i, <<f.id, i>>)
    <3>1. 0 + i \in Nat /\ 0 + i < 2
      BY <2>1
    <3>2. FlashProgs(t[2], 0 + i)
      BY <1>14, <3>1
    <3> QED BY <1>12, <3>2 DEF FlashDue
  <2> QED BY <1>10, <1>17, <2>1 DEF FlashPlanned
<1> QED BY <1>0, <1>10, <1>12, <1>13, <1>15, <1>16, <1>17, <1>18 DEF FlashJob
-----------------------------------------------------------------------------
\* The cells lo..hi are blank or have their blocks.
FlashBlankAt(c, lo, hi, f, b) ==
    \A x \in Nat : lo <= x /\ x <= hi => c[x] = FlashFF \/ c[x] = FlashBlock(f, x - b, FALSE)

\* What a later sector of the JSON calls finds.
LEMMA FlashLaterFinds ==
    ASSUME NEW c, NEW n \in Nat, n % 2 = 0, n # 0, NEW f \in FlashFiles, NEW b \in FlashBases, FlashOkImg(f, b), n < f.len,
           FlashWritten(c, n, f, b)
    PROVE  /\ n >= 2 /\ n + 1 < f.len /\ f.len \in Nat /\ b \in Nat /\ (b # 0 => b = FlashMaster)
           /\ \A x \in (b + n)..(b + (n + 1)) : x \in FlashRegion(b)
           /\ FlashBlankAt(c, b + n, b + (n + 1), f, b)
           /\ b # 0 => FlashBlankAt(c, FlashMaster, FlashMaster + 1, f, b)
<1>1. f.len \in Nat /\ f.len % 2 = 0 /\ b \in Nat /\ (b # 0 => b = FlashMaster) /\ FlashMaster \in Nat
  BY FlashAssumption, FlashRooms DEF FlashBases
<1>2. n >= 2 /\ n + 1 < f.len
  BY <1>1
<1>3. ASSUME NEW x \in Nat, b + n <= x, x <= b + (n + 1)
      PROVE  x \in FlashRegion(b) /\ (c[x] = FlashFF \/ c[x] = FlashBlock(f, x - b, FALSE))
  <2>1. PICK i \in Int : i = x - b
    BY <1>1
  <2>2. i \in 0..(f.len - 1) /\ i \in n..(f.len - 1) /\ x = b + i
    BY <1>1, <1>2, <1>3, <2>1
  <2>3. b + i \in FlashRegion(b) /\ FlashBlock(f, (b + i) - b, FALSE) = <<f.id, i>>
    BY <2>2, FlashPlace
  <2>4. c[b + i] = FlashFF \/ c[b + i] = <<f.id, i>>
    BY <2>2 DEF FlashWritten
  <2> QED BY <2>2, <2>3, <2>4
<1>4. ASSUME NEW x \in (b + n)..(b + (n + 1)) PROVE x \in FlashRegion(b)
  <2>1. x \in Nat /\ b + n <= x /\ x <= b + (n + 1)
    BY <1>1, <1>4
  <2> QED BY <1>3, <2>1
<1>5. ASSUME b # 0, NEW x \in Nat, FlashMaster <= x, x <= FlashMaster + 1
      PROVE  c[x] = FlashFF \/ c[x] = FlashBlock(f, x - b, FALSE)
  <2>1. b = FlashMaster
    BY <1>1, <1>5
  <2>2. x = FlashMaster \/ x = FlashMaster + 1
    BY <1>1, <1>5
  <2>3. 0 \in 0..(f.len - 1)
    BY <1>1, <1>2
  <2>8. FlashBlock(f, 0, FALSE) = <<f.id, 0>>
    BY <2>3, FlashBlockIs
  <2>4. FlashMaster - FlashMaster = 0
    BY <1>1
  <2>5. c[FlashMaster + 1] = FlashFF /\ (c[FlashMaster] = FlashFF \/ c[FlashMaster] = <<f.id, 0>>)
    BY <1>5 DEF FlashWritten
  <2>6. CASE x = FlashMaster + 1
    BY <2>5, <2>6
  <2>7. CASE x = FlashMaster
    BY <2>1, <2>4, <2>5, <2>7, <2>8
  <2> QED BY <2>2, <2>6, <2>7
<1> QED BY <1>1, <1>2, <1>3, <1>4, <1>5 DEF FlashBlankAt

\* A sector after the first and before the last.
LEMMA FlashLaterNext ==
    ASSUME NEW r, NEW f \in FlashFiles, NEW b \in FlashBases, FlashOkImg(f, b), r.rpc.next \in Nat, r.rpc.next % 2 = 0,
           r.rpc.next # 0, FlashWritten(r.c, r.rpc.next, f, b), r.rpc.next + 2 < f.len,
           r.rpc.id = f.id, r.rpc.golden <=> b = 0, r.op_len = f.len, r.validated, r.header = f.id, r.op_golden <=> b = 0,
           b = 0 => r.gold,
           NEW p, FlashIsProg(p, r.rpc.next, r.rpc.next + 1, f, b), NEW nx, FlashIsNote(nx, "next", f, b),
           r.todo = <<p, nx>>
    PROVE  /\ r.todo \in Seq(FlashOps) /\ r.todo # <<>> /\ FlashJob(r, f, b)
           /\ FlashGoing(r, f, b)
<1>1. PICK n \in Nat : n = r.rpc.next /\ n % 2 = 0 /\ n # 0 /\ n + 2 < f.len
  OBVIOUS
<1>2. n < f.len
  BY <1>1, FlashRooms
<1>3. /\ n >= 2 /\ n + 1 < f.len /\ f.len \in Nat /\ b \in Nat /\ (b # 0 => b = FlashMaster)
      /\ FlashBlankAt(r.c, b + n, b + (n + 1), f, b)
  BY <1>1, <1>2, FlashLaterFinds, ZenonT(30)
<1>10. PICK t : t = r.todo
  OBVIOUS
<1>12. Len(t) = 2 /\ t \in Seq(FlashOps) /\ t # <<>> /\ t[1] = p /\ t[2] = nx
  BY <1>10 DEF FlashIsProg, FlashIsNote
<1>13. \A k \in 1..2 : /\ FlashLoop(t[k], f, b)
                       /\ t[k].op \in {"next", "done"} <=> k = 2
                       /\ t[k].op # "end"
  BY <1>12 DEF FlashIsProg, FlashIsNote
<1>14. \A x \in Nat :
          /\ FlashProgs(t[1], x) <=> b + n <= x /\ x <= b + (n + 1)
          /\ ~FlashErases(t[1], x) /\ ~FlashProgs(t[2], x) /\ ~FlashErases(t[2], x)
  BY <1>1, <1>3, <1>12 DEF FlashIsProg, FlashIsNote
<1>15. FlashOrder(t)
  BY <1>12, <1>14 DEF FlashOrder, FlashTouches
<1>16. FlashBlanked(r.c, t)
  <2> SUFFICES ASSUME NEW k \in 1..2, NEW x \in Nat, FlashProgs(t[k], x) PROVE r.c[x] = FlashFF \/ r.c[x] = t[k].d[x]
    BY <1>12 DEF FlashBlanked
  <2>0. PICK o : o = t[k] /\ FlashLoop(o, f, b) /\ FlashProgs(o, x) /\ FlashTouches(o, x)
    BY <1>13 DEF FlashTouches
  <2>3. o.d[x] = FlashBlock(f, x - b, FALSE)
    BY <2>0, FlashLoopTouches
  <2>1. t[k].d[x] = FlashBlock(f, x - b, FALSE)
    BY <2>0, <2>3
  <2>2. b + n <= x /\ x <= b + (n + 1)
    BY <1>14
  <2> QED BY <1>3, <2>1, <2>2 DEF FlashBlankAt
<1>17. t[Len(t)].op = "next"
  BY <1>12 DEF FlashIsNote
<1>18. FlashPlanned(r, f, b)
  <2>1. ASSUME NEW i \in (IF b = 0 THEN 0 ELSE 2)..(n + 1) PROVE FlashDue(r.c, t, b + i, <<f.id, i>>)
    <3>0. i \in Nat /\ b + i \in Nat
      BY <1>3, <2>1
    <3>1. CASE i < n
      <4>1. i \in (IF b = 0 THEN 0 ELSE 2)..(n - 1)
        BY <1>3, <2>1, <3>1
      <4>2. r.c[b + i] = <<f.id, i>>
        BY <1>1, <4>1 DEF FlashWritten
      <4>3. \A k \in 1..2 : ~FlashTouches(t[k], b + i)
        <5>1. ~FlashProgs(t[1], b + i)
          BY <1>3, <1>14, <3>0, <3>1
        <5> QED BY <1>14, <3>0, <5>1 DEF FlashTouches
      <4> QED BY <1>12, <4>2, <4>3 DEF FlashDue
    <3>2. CASE i >= n
      <4>1. b + n <= b + i /\ b + i <= b + (n + 1)
        BY <1>3, <2>1, <3>0, <3>2
      <4>2. FlashProgs(t[1], b + i)
        BY <1>14, <3>0, <4>1
      <4> QED BY <1>12, <4>2 DEF FlashDue
    <3> QED BY <3>0, <3>1, <3>2
  <2> QED BY <1>1, <1>10, <1>17, <2>1 DEF FlashPlanned
<1>19. FlashSector(r, f, b)
  <2>1. ASSUME NEW i \in (n + 2)..(f.len - 1) PROVE FlashOpen(r.c, t, b + i, <<f.id, i>>)
    <3>1. i \in n..(f.len - 1)
      BY <1>3, <2>1
    <3> QED BY <1>1, <3>1 DEF FlashOpen, FlashWritten
  <2>2. ASSUME b # 0, NEW i \in FlashHdr PROVE FlashOpen(r.c, t, FlashMaster + i, <<f.id, i>>)
    <3>1. r.c[FlashMaster + 1] = FlashFF /\ (r.c[FlashMaster] = FlashFF \/ r.c[FlashMaster] = <<f.id, 0>>)
      BY <2>2 DEF FlashWritten
    <3>2. i = 0 \/ i = 1
      BY DEF FlashHdr
    <3>3. FlashMaster + 0 = FlashMaster
      BY FlashRooms
    <3>4. CASE i = 0
      BY <3>1, <3>3, <3>4 DEF FlashOpen
    <3>5. CASE i = 1
      BY <3>1, <3>5 DEF FlashOpen
    <3> QED BY <3>2, <3>4, <3>5
  <2> QED BY <1>1, <1>10, <1>12, <1>13, <2>1, <2>2 DEF FlashSector
<1>20. ASSUME b # 0 PROVE FlashJumps(r.c) /\ FlashLast(t) /\ FlashHidden(r.c, t)
  <2>1. FlashJumps(r.c) /\ r.c[FlashMaster + 1] = FlashFF
    BY <1>20 DEF FlashWritten
  <2>2. FlashMaster + 1 \in Nat /\ ~FlashProgs(t[1], FlashMaster + 1) /\ ~FlashProgs(t[2], FlashMaster + 1)
    BY <1>3, <1>14, <1>20
  <2>3. \A k \in 1..2 : k = 1 \/ k = 2
    OBVIOUS
  <2> QED BY <1>12, <2>1, <2>2, <2>3 DEF FlashLast, FlashHidden
<1>21. FlashJob(r, f, b)
  BY <1>10, <1>12, <1>13, <1>15, <1>16, <1>17, <1>18, <1>19, <1>20 DEF FlashJob
<1>22. FlashOnly(t, n, b)
  <2> SUFFICES ASSUME NEW k \in 1..2, NEW x \in Nat, FlashTouches(t[k], x) PROVE FlashProgs(t[k], x) /\ x - b \in n..(n + 1)
    BY <1>12 DEF FlashOnly
  <2>1. k = 1 /\ FlashProgs(t[1], x)
    BY <1>14 DEF FlashTouches
  <2> QED BY <1>3, <1>14, <2>1
<1>23. FlashGoing(r, f, b)
  BY <1>1, <1>2, <1>10, <1>22 DEF FlashGoing
<1> QED BY <1>10, <1>12, <1>21, <1>23

\* The last sector of a golden image.
LEMMA FlashEndGolden ==
    ASSUME NEW r, NEW f \in FlashFiles, FlashOkImg(f, 0), r.rpc.next \in Nat, r.rpc.next % 2 = 0,
           r.rpc.next # 0, FlashWritten(r.c, r.rpc.next, f, 0), r.rpc.next < f.len, r.rpc.next + 2 >= f.len,
           r.rpc.id = f.id, r.rpc.golden, r.validated, r.header = f.id, r.op_golden, r.gold,
           NEW en, FlashIsNote(en, "end", f, 0), 
           NEW p, FlashIsProg(p, r.rpc.next, r.rpc.next + 1, f, 0), NEW dn, FlashIsNote(dn, "done", f, 0),
           r.todo = <<en, p, dn>>
    PROVE  /\ r.todo \in Seq(FlashOps) /\ r.todo # <<>> /\ FlashJob(r, f, 0)
           /\ FlashGoing(r, f, 0)
<1>0. 0 \in FlashBases
  BY DEF FlashBases
<1>1. PICK n \in Nat : n = r.rpc.next /\ n % 2 = 0 /\ n # 0 /\ n < f.len /\ n + 2 >= f.len
  OBVIOUS
<1>3. /\ n >= 2 /\ n + 1 < f.len /\ f.len \in Nat
      /\ FlashBlankAt(r.c, 0 + n, 0 + (n + 1), f, 0)
  BY <1>0, <1>1, FlashLaterFinds
<1>10. PICK t : t = r.todo
  OBVIOUS
<1>12. Len(t) = 3 /\ t \in Seq(FlashOps) /\ t # <<>> /\ t[1] = en /\ t[2] = p /\ t[3] = dn
  BY <1>10 DEF FlashIsProg, FlashIsNote
<1>13. \A k \in 1..3 : /\ FlashLoop(t[k], f, 0)
                       /\ t[k].op \in {"next", "done"} <=> k = 3
  BY <1>12 DEF FlashIsProg, FlashIsNote
<1>14. \A x \in Nat :
          /\ FlashProgs(t[2], x) <=> 0 + n <= x /\ x <= 0 + (n + 1)
          /\ ~FlashErases(t[1], x) /\ ~FlashErases(t[2], x) /\ ~FlashErases(t[3], x)
          /\ ~FlashProgs(t[1], x) /\ ~FlashProgs(t[3], x)
  BY <1>1, <1>3, <1>12 DEF FlashIsProg, FlashIsNote
<1>15. FlashOrder(t)
  BY <1>12, <1>14 DEF FlashOrder, FlashTouches
<1>16. FlashBlanked(r.c, t)
  <2> SUFFICES ASSUME NEW k \in 1..3, NEW x \in Nat, FlashProgs(t[k], x) PROVE r.c[x] = FlashFF \/ r.c[x] = t[k].d[x]
    BY <1>12 DEF FlashBlanked
  <2>0. PICK o : o = t[k] /\ FlashLoop(o, f, 0) /\ FlashProgs(o, x) /\ FlashTouches(o, x)
    BY <1>13 DEF FlashTouches
  <2>3. o.d[x] = FlashBlock(f, x - 0, FALSE)
    BY <1>0, <2>0, FlashLoopTouches, ZenonT(30)
  <2>1. t[k].d[x] = FlashBlock(f, x - 0, FALSE)
    BY <2>0, <2>3
  <2>2. 0 + n <= x /\ x <= 0 + (n + 1)
    BY <1>14
  <2> QED BY <1>3, <2>1, <2>2 DEF FlashBlankAt
<1>17. t[Len(t)].op = "done" /\ t[1].op = "end"
  BY <1>12 DEF FlashIsNote
<1>18. FlashPlanned(r, f, 0)
  <2>1. ASSUME NEW i \in 0..(f.len - 1) PROVE FlashDue(r.c, t, 0 + i, <<f.id, i>>)
    <3>0. i \in Nat /\ 0 + i \in Nat
      BY <1>3, <2>1
    <3>1. CASE i < n
      <4>1. i \in 0..(n - 1)
        BY <1>3, <2>1, <3>1
      <4>2. r.c[0 + i] = <<f.id, i>>
        BY <1>1, <4>1 DEF FlashWritten
      <4>3. \A k \in 1..3 : ~FlashTouches(t[k], 0 + i)
        <5>1. ~FlashProgs(t[2], 0 + i)
          BY <1>3, <1>14, <3>0, <3>1
        <5> QED BY <1>14, <3>0, <5>1 DEF FlashTouches
      <4> QED BY <1>12, <4>2, <4>3 DEF FlashDue
    <3>2. CASE i >= n
      <4>1. 0 + n <= 0 + i /\ 0 + i <= 0 + (n + 1)
        BY <1>1, <1>3, <2>1, <3>0, <3>2
      <4>2. FlashProgs(t[2], 0 + i)
        BY <1>14, <3>0, <4>1
      <4> QED BY <1>12, <4>2 DEF FlashDue
    <3> QED BY <3>0, <3>1, <3>2
  <2> QED BY <1>1, <1>10, <1>17, <2>1 DEF FlashPlanned
<1>21. FlashJob(r, f, 0)
  BY <1>10, <1>12, <1>13, <1>15, <1>16, <1>17, <1>18 DEF FlashJob
<1>23. FlashGoing(r, f, 0)
  BY <1>1, <1>10, <1>17 DEF FlashGoing
<1> QED BY <1>10, <1>12, <1>21, <1>23

\* The last sector of a master image, after which the header is written.
LEMMA FlashEndMaster ==
    ASSUME NEW r, NEW f \in FlashFiles, FlashOkImg(f, FlashMaster), r.rpc.next \in Nat, r.rpc.next % 2 = 0,
           r.rpc.next # 0, FlashWritten(r.c, r.rpc.next, f, FlashMaster), r.rpc.next < f.len, r.rpc.next + 2 >= f.len,
           r.rpc.id = f.id, ~r.rpc.golden, r.validated, r.header = f.id, ~r.op_golden,
           NEW en, FlashIsNote(en, "end", f, FlashMaster),
           NEW p, FlashIsProg(p, r.rpc.next, r.rpc.next + 1, f, FlashMaster),
           NEW q, FlashIsProg(q, 0, 1, f, FlashMaster), NEW dn, FlashIsNote(dn, "done", f, FlashMaster),
           r.todo = <<en, p, q, dn>>
    PROVE  /\ r.todo \in Seq(FlashOps) /\ r.todo # <<>> /\ FlashJob(r, f, FlashMaster)
           /\ FlashGoing(r, f, FlashMaster)
<1> DEFINE M == FlashMaster
<1>0. M \in FlashBases /\ M \in Nat /\ M # 0
  BY FlashRooms DEF FlashBases
<1>1. PICK n \in Nat : n = r.rpc.next /\ n % 2 = 0 /\ n # 0 /\ n < f.len /\ n + 2 >= f.len
  OBVIOUS
<1>3. /\ n >= 2 /\ n + 1 < f.len /\ f.len \in Nat
      /\ FlashBlankAt(r.c, M + n, M + (n + 1), f, M) /\ FlashBlankAt(r.c, M, M + 1, f, M)
  BY <1>0, <1>1, FlashLaterFinds
<1>10. PICK t : t = r.todo
  OBVIOUS
<1>12. Len(t) = 4 /\ t \in Seq(FlashOps) /\ t # <<>> /\ t[1] = en /\ t[2] = p /\ t[3] = q /\ t[4] = dn
  BY <1>10 DEF FlashIsProg, FlashIsNote
<1>13. \A k \in 1..4 : /\ FlashLoop(t[k], f, M)
                       /\ t[k].op \in {"next", "done"} <=> k = 4
  BY <1>12 DEF FlashIsProg, FlashIsNote
<1>14. \A x \in Nat :
          /\ FlashProgs(t[2], x) <=> M + n <= x /\ x <= M + (n + 1)
          /\ FlashProgs(t[3], x) <=> M <= x /\ x <= M + 1
          /\ ~FlashErases(t[1], x) /\ ~FlashErases(t[2], x) /\ ~FlashErases(t[3], x) /\ ~FlashErases(t[4], x)
          /\ ~FlashProgs(t[1], x) /\ ~FlashProgs(t[4], x)
  BY <1>0, <1>1, <1>3, <1>12, SMTT(30) DEF FlashIsProg, FlashIsNote
<1>15. FlashOrder(t)
  <2> SUFFICES ASSUME NEW j \in 1..4, NEW k \in 1..4, j < k, NEW x \in Nat, FlashProgs(t[j], x), FlashTouches(t[k], x)
               PROVE  FALSE
    BY <1>12 DEF FlashOrder
  <2>1. j \in {2, 3}
    BY <1>14
  <2> QED BY <1>0, <1>3, <1>14, <2>1 DEF FlashTouches
<1>16. FlashBlanked(r.c, t)
  <2> SUFFICES ASSUME NEW k \in 1..4, NEW x \in Nat, FlashProgs(t[k], x) PROVE r.c[x] = FlashFF \/ r.c[x] = t[k].d[x]
    BY <1>12 DEF FlashBlanked
  <2>0. PICK o : o = t[k] /\ FlashLoop(o, f, M) /\ FlashProgs(o, x) /\ FlashTouches(o, x)
    BY <1>13 DEF FlashTouches
  <2>3. o.d[x] = FlashBlock(f, x - M, FALSE)
    BY <1>0, <2>0, FlashLoopTouches, ZenonT(30)
  <2>1. t[k].d[x] = FlashBlock(f, x - M, FALSE)
    BY <2>0, <2>3
  <2>2. (M + n <= x /\ x <= M + (n + 1)) \/ (M <= x /\ x <= M + 1)
    BY <1>14
  <2> QED BY <1>3, <2>1, <2>2 DEF FlashBlankAt
<1>17. t[Len(t)].op = "done" /\ t[1].op = "end"
  BY <1>12 DEF FlashIsNote
<1>18. FlashPlanned(r, f, M)
  <2>1. ASSUME NEW i \in 0..(f.len - 1) PROVE FlashDue(r.c, t, M + i, <<f.id, i>>)
    <3>0. i \in Nat /\ M + i \in Nat
      BY <1>0, <1>3, <2>1
    <3>1. CASE i \in 2..(n - 1)
      <4>2. r.c[M + i] = <<f.id, i>>
        BY <1>0, <1>1, <3>1 DEF FlashWritten
      <4>3. \A k \in 1..4 : ~FlashTouches(t[k], M + i)
        <5>1. ~FlashProgs(t[2], M + i) /\ ~FlashProgs(t[3], M + i)
          BY <1>0, <1>3, <1>14, <3>0, <3>1
        <5> QED BY <1>14, <3>0, <5>1 DEF FlashTouches
      <4> QED BY <1>12, <4>2, <4>3 DEF FlashDue
    <3>2. CASE i >= n
      <4>1. M + n <= M + i /\ M + i <= M + (n + 1)
        BY <1>0, <1>1, <1>3, <2>1, <3>0, <3>2
      <4>2. FlashProgs(t[2], M + i)
        BY <1>14, <3>0, <4>1
      <4> QED BY <1>12, <4>2 DEF FlashDue
    <3>3. CASE i < 2
      <4>1. M <= M + i /\ M + i <= M + 1
        BY <1>0, <3>0, <3>3
      <4>2. FlashProgs(t[3], M + i)
        BY <1>14, <3>0, <4>1
      <4> QED BY <1>12, <4>2 DEF FlashDue
    <3>4. i < 2 \/ i \in 2..(n - 1) \/ i >= n
      BY <3>0
    <3> QED BY <3>1, <3>2, <3>3, <3>4
  <2> QED BY <1>1, <1>10, <1>17, <2>1 DEF FlashPlanned
<1>19. FlashLast(t)
  <2> SUFFICES ASSUME NEW k \in 1..4, FlashProgs(t[k], M + 1)
               PROVE  \A j \in 1..4, x \in Nat : j >= k /\ FlashTouches(t[j], x) => j = k /\ x <= M + 1
    BY <1>12, <1>17 DEF FlashLast
  <2>1. k = 3
    BY <1>0, <1>3, <1>14
  <2> QED BY <1>0, <1>14, <2>1 DEF FlashTouches
<1>20. FlashJumps(r.c) /\ FlashHidden(r.c, t)
  BY <1>0 DEF FlashWritten, FlashHidden
<1>21. FlashJob(r, f, M)
  BY <1>0, <1>10, <1>12, <1>13, <1>15, <1>16, <1>17, <1>18, <1>19, <1>20 DEF FlashJob
<1>23. FlashGoing(r, f, M)
  BY <1>0, <1>1, <1>10, <1>17 DEF FlashGoing
<1> QED BY <1>10, <1>12, <1>21, <1>23
-----------------------------------------------------------------------------
\* What the start of a call leaves alone.
FlashCalled(s, r) ==
    /\ r.c = s.c /\ r.rpc = s.rpc /\ r.op_len = s.op_len /\ (r.validated <=> s.validated) /\ r.header = s.header
    /\ (r.op_golden <=> s.op_golden) /\ r.curfwid = s.curfwid /\ r.done = FlashNone /\ (s.gold => r.gold)

\* A call that has begun.
LEMMA FlashCallSafe ==
    ASSUME NEW s, NEW r, FlashSafe(s), s.curfwid # FlashNone, r.c = s.c, r.curfwid = s.curfwid, r.done = FlashNone,
           s.gold => r.gold, r.rpc.next = s.rpc.next,
           r.todo \in Seq(FlashOps), r.todo # <<>>, NEW f \in FlashFiles, NEW b \in FlashBases, FlashJob(r, f, b),
           FlashClient(r)
    PROVE  FlashSafe(r)
<1>1. /\ FlashArray(s.c) /\ s.rpc.next \in Nat /\ s.rpc.next % 2 = 0 /\ FlashHeaders(s.c) /\ FlashMasterWhole(s.c)
      /\ ~s.gold => FlashGoldWhole(s.c)
  BY DEF FlashSafe
<1> QED BY <1>1 DEF FlashSafe

\* A part that a plan does not have.
LEMMA FlashNoMore ==
    ASSUME NEW t \in Seq(FlashOps)
    PROVE  t \o <<>> = t /\ <<>> \o t = t
BY ConcatEmptySeq

\* The first sector of an update of the JSON calls.
LEMMA FlashFirstSafe ==
    ASSUME NEW s, NEW r, FlashSafe(s), s.curfwid # FlashNone, FlashCalled(s, r),
           NEW f \in FlashFiles, NEW b \in FlashBases, FlashOkImg(f, b), b # 0 => FlashJumps(s.c), b = 0 => r.gold,
           s.rpc.id = f.id, s.rpc.golden <=> b = 0, s.rpc.next = 0, s.op_len = f.len,
           r.todo \in Seq(FlashOps), r.todo # <<>>, FlashJob(r, f, b)
    PROVE  FlashSafe(r)
<1>1. /\ r.c = s.c /\ r.rpc = s.rpc /\ r.op_len = s.op_len /\ r.curfwid = s.curfwid /\ r.done = FlashNone
      /\ s.gold => r.gold
  BY DEF FlashCalled
<1>2. FlashClient(r)
  BY <1>1 DEF FlashClient
<1> QED BY <1>1, <1>2, FlashCallSafe

\* The same from the plan of flash_write_sector, for a master image
LEMMA FlashFirstMasterSafe ==
    ASSUME NEW s, NEW r, FlashSafe(s), s.curfwid # FlashNone, FlashCalled(s, r),
           NEW f \in FlashFiles, FlashOkImg(f, FlashMaster), FlashJumps(s.c),
           s.rpc.id = f.id, ~s.rpc.golden, s.rpc.next = 0, s.op_len = f.len,
           f.len > 2 =>
                 r.todo = FlashBlank(f.len, f, FALSE) \o FlashOp("blanked", 0, 0, f.id) \o <<>> \o <<>> \o <<>>
                          \o FlashOp("next", 0, 0, f.id),
           f.len = 2 =>
                 r.todo = FlashBlank(f.len, f, FALSE) \o FlashOp("blanked", 0, 0, f.id)
                          \o FlashOp("end", 0, 0, FlashNone) \o <<>> \o espi_flash_write(f, 0, 1, FlashMaster, FALSE)
                          \o FlashOp("done", 0, 0, f.id)
    PROVE  FlashSafe(r)
<1> DEFINE M == FlashMaster
<1>0. M \in FlashBases /\ M \in Nat /\ M # 0 /\ ~f.iprog /\ f.len \in Nat /\ f.len >= 2
  BY FlashRooms DEF FlashBases, FlashOkImg
<1>1. PICK total \in Nat : total = FlashRoundUp(f.len, FlashSub) /\ f.len <= total
  BY <1>0, FlashRounded
<1>2. \A x \in M..(M + total - 1) : x \in FlashRegion(M)
  BY <1>0, <1>1, FlashRounded
<1>3. PICK e1 : espi_flash_erase(M, total) = <<e1>> /\ FlashIsErase(e1, M, total, f, M)
  BY <1>0, <1>1, <1>2, FlashEraseLoop
<1>4. FlashBlank(f.len, f, FALSE) = <<e1>>
  BY <1>1, <1>3 DEF FlashBlank
<1>5. PICK bl : FlashOp("blanked", 0, 0, f.id) = <<bl>> /\ FlashIsNote(bl, "blanked", f, M)
  BY <1>0, FlashNoteLoop
<1>6. PICK nx : FlashOp("next", 0, 0, f.id) = <<nx>> /\ FlashIsNote(nx, "next", f, M)
  BY <1>0, FlashNoteLoop
<1>7. PICK en : FlashOp("end", 0, 0, FlashNone) = <<en>> /\ FlashIsNote(en, "end", f, M)
  BY <1>0, FlashNoteLoop
<1>8. PICK dn : FlashOp("done", 0, 0, f.id) = <<dn>> /\ FlashIsNote(dn, "done", f, M)
  BY <1>0, FlashNoteLoop
<1>9. PICK p1 : espi_flash_write(f, 0, 1, M, FALSE) = <<p1>> /\ FlashIsProg(p1, 0, 1, f, M)
  <2>1. \A x \in (M + 0)..(M + 1) : x \in FlashRegion(M)
    BY <1>0, <1>1, <1>2
  <2>2. 0 \in Nat /\ 1 \in Nat /\ 0 <= 1 + 1
    OBVIOUS
  <2> QED BY <1>0, <2>1, <2>2, FlashProgLoop
<1>t. {e1, bl, nx, en, dn, p1} \subseteq FlashOps
  BY <1>3, <1>5, <1>6, <1>7, <1>8, <1>9 DEF FlashIsErase, FlashIsProg, FlashIsNote
<1>10. r.c = s.c /\ r.rpc = s.rpc /\ r.op_len = s.op_len
  BY DEF FlashCalled
<1>11. <<e1>> \o <<bl>> = <<e1, bl>>
  BY <1>t, FlashTuple2
<1>12. CASE f.len > 2
  <2>0. r.todo = FlashBlank(f.len, f, FALSE) \o FlashOp("blanked", 0, 0, f.id) \o <<>> \o <<>> \o <<>>
                 \o FlashOp("next", 0, 0, f.id)
    BY <1>12, Zenon
  <2>1. r.todo = <<e1>> \o <<bl>> \o <<>> \o <<>> \o <<>> \o <<nx>>
    BY <2>0, <1>4, <1>5, <1>6, Zenon
  <2>2. <<e1, bl>> \in Seq(FlashOps)
    BY <1>t
  <2>3. <<e1, bl>> \o <<>> = <<e1, bl>>
    BY <2>2, FlashNoMore
  <2>4. <<e1, bl>> \o <<nx>> = <<e1, bl, nx>>
    BY <1>t, FlashTuple3
  <2>5. r.todo = <<e1, bl, nx>>
    BY <1>11, <2>1, <2>3, <2>4, Zenon
  <2>6. FlashJumps(r.c) /\ r.rpc.id = f.id /\ ~r.rpc.golden /\ r.rpc.next = 0 /\ r.op_len = f.len
    BY <1>10
  <2>7. r.todo \in Seq(FlashOps) /\ r.todo # <<>> /\ FlashJob(r, f, M)
    BY <1>1, <1>3, <1>5, <1>6, <1>12, <2>5, <2>6, FlashFirstMaster
  <2> QED BY <1>0, <2>7, FlashFirstSafe
<1>13. CASE f.len = 2
  <2>0. r.todo = FlashBlank(f.len, f, FALSE) \o FlashOp("blanked", 0, 0, f.id) \o FlashOp("end", 0, 0, FlashNone) \o <<>>
                 \o espi_flash_write(f, 0, 1, M, FALSE) \o FlashOp("done", 0, 0, f.id)
    BY <1>13, Zenon
  <2>1. r.todo = <<e1>> \o <<bl>> \o <<en>> \o <<>> \o <<p1>> \o <<dn>>
    BY <2>0, <1>4, <1>5, <1>7, <1>8, <1>9, Zenon
  <2>2. <<e1, bl, en>> \in Seq(FlashOps)
    BY <1>t
  <2>3. <<e1, bl, en>> \o <<>> = <<e1, bl, en>>
    BY <2>2, FlashNoMore
  <2>4. <<e1, bl>> \o <<en>> = <<e1, bl, en>>
    BY <1>t, FlashTuple3
  <2>8. <<e1, bl, en>> \o <<p1>> = <<e1, bl, en, p1>>
    BY <1>t, FlashTuple4
  <2>9. <<e1, bl, en, p1>> \o <<dn>> = <<e1, bl, en, p1, dn>>
    BY <1>t, FlashTuple5
  <2>5. r.todo = <<e1, bl, en, p1, dn>>
    BY <1>11, <2>1, <2>3, <2>4, <2>8, <2>9, Zenon
  <2>6. FlashJumps(r.c) /\ r.rpc.id = f.id /\ ~r.rpc.golden /\ 2 <= total
    BY <1>1, <1>10, <1>13
  <2>7. r.todo \in Seq(FlashOps) /\ r.todo # <<>> /\ FlashJob(r, f, M)
    BY <1>1, <1>3, <1>5, <1>7, <1>8, <1>9, <1>13, <2>5, <2>6, FlashOnlyMaster
  <2> QED BY <1>0, <2>7, FlashFirstSafe
<1> QED BY <1>0, <1>12, <1>13

\* and for a golden one.
LEMMA FlashFirstGoldenSafe ==
    ASSUME NEW s, NEW r, FlashSafe(s), s.curfwid # FlashNone, FlashCalled(s, r),
           NEW f \in FlashFiles, FlashOkImg(f, 0), r.gold,
           s.rpc.id = f.id, s.rpc.golden, s.rpc.next = 0, s.op_len = f.len,
           f.len > 2 =>
                 r.todo = FlashBlank(f.len, f, TRUE) \o FlashOp("blanked", 0, 0, f.id) \o <<>> \o <<>> \o <<>>
                          \o FlashOp("next", 0, 0, f.id),
           f.len = 2 =>
                 r.todo = FlashBlank(f.len, f, TRUE) \o FlashOp("blanked", 0, 0, f.id)
                          \o FlashOp("end", 0, 0, FlashNone) \o <<>> \o <<>>
                          \o FlashOp("done", 0, 0, f.id)
    PROVE  FlashSafe(r)
<1>0. 0 \in FlashBases /\ f.iprog /\ f.len \in Nat /\ f.len >= 2 /\ FlashSub \in Nat /\ FlashSub > 2
  BY FlashRooms, FlashAssumption DEF FlashBases, FlashOkImg
<1>1. PICK total \in Nat : /\ total = FlashRoundUp(f.len, FlashSub) /\ f.len <= total /\ FlashSub <= total
                           /\ total = FlashSub + ((f.len - 1) \div FlashSub) * FlashSub
  BY <1>0, FlashRounded
<1>2. \A x \in 0..(total - 1) : x \in FlashRegion(0)
  <2>1. \A x \in 0..(0 + FlashRoundUp(f.len, FlashSub) - 1) : x \in FlashRegion(0)
    BY <1>0, FlashRounded
  <2>2. 0 + total - 1 = total - 1
    BY <1>1
  <2> QED BY <1>1, <2>1, <2>2
<1>m. PICK m \in Nat : m = ((f.len - 1) \div FlashSub) * FlashSub /\ total = FlashSub + m
  <2>1. PICK q \in Int : q = ((f.len - 1) \div FlashSub) * FlashSub
    BY <1>0
  <2>2. total = FlashSub + q
    BY <1>1, <2>1
  <2>3. q \in Nat
    BY <1>0, <1>1, <2>1, <2>2
  <2> QED BY <2>1, <2>2, <2>3
<1>3. PICK e1 : espi_flash_erase(0, FlashSub) = <<e1>> /\ FlashIsErase(e1, 0, FlashSub, f, 0)
  <2>1. \A x \in 0..(0 + FlashSub - 1) : x \in FlashRegion(0)
    BY <1>0, <1>1, <1>2
  <2> QED BY <1>0, <2>1, FlashEraseLoop
<1>9. PICK p1 : espi_flash_write(f, 0, 1, 0, FALSE) = <<p1>> /\ FlashIsProg(p1, 0, 1, f, 0)
  <2>1. \A x \in (0 + 0)..(0 + 1) : x \in FlashRegion(0)
    BY <1>0, <1>1, <1>2
  <2>2. 0 \in Nat /\ 1 \in Nat /\ 0 <= 1 + 1
    OBVIOUS
  <2> QED BY <1>0, <2>1, <2>2, FlashProgLoop
<1>a. PICK e2 : espi_flash_erase(FlashSub, m) = <<e2>> /\ FlashIsErase(e2, FlashSub, m, f, 0)
  <2>1. \A x \in FlashSub..(FlashSub + m - 1) : x \in FlashRegion(0)
    BY <1>0, <1>2, <1>m, SMTT(30)
  <2> QED BY <1>0, <1>m, <2>1, FlashEraseLoop
<1>4. FlashBlank(f.len, f, TRUE) = <<e1>> \o <<p1>> \o <<e2>>
  BY <1>3, <1>9, <1>a, <1>m DEF FlashBlank
<1>5. PICK bl : FlashOp("blanked", 0, 0, f.id) = <<bl>> /\ FlashIsNote(bl, "blanked", f, 0)
  BY <1>0, FlashNoteLoop
<1>6. PICK nx : FlashOp("next", 0, 0, f.id) = <<nx>> /\ FlashIsNote(nx, "next", f, 0)
  BY <1>0, FlashNoteLoop
<1>7. PICK en : FlashOp("end", 0, 0, FlashNone) = <<en>> /\ FlashIsNote(en, "end", f, 0)
  BY <1>0, FlashNoteLoop
<1>8. PICK dn : FlashOp("done", 0, 0, f.id) = <<dn>> /\ FlashIsNote(dn, "done", f, 0)
  BY <1>0, FlashNoteLoop
<1>t. {e1, p1, e2, bl, nx, en, dn} \subseteq FlashOps
  BY <1>3, <1>5, <1>6, <1>7, <1>8, <1>9, <1>a DEF FlashIsErase, FlashIsProg, FlashIsNote
<1>10. r.c = s.c /\ r.rpc = s.rpc /\ r.op_len = s.op_len
  BY DEF FlashCalled
<1>11. <<e1>> \o <<p1>> \o <<e2>> \o <<bl>> = <<e1, p1, e2, bl>>
  <2>1. <<e1>> \o <<p1>> = <<e1, p1>>
    BY <1>t, FlashTuple2
  <2>2. <<e1, p1>> \o <<e2>> = <<e1, p1, e2>>
    BY <1>t, FlashTuple3
  <2>3. <<e1, p1, e2>> \o <<bl>> = <<e1, p1, e2, bl>>
    BY <1>t, FlashTuple4
  <2> QED BY <2>1, <2>2, <2>3, Zenon
<1>12. CASE f.len > 2
  <2>0. r.todo = FlashBlank(f.len, f, TRUE) \o FlashOp("blanked", 0, 0, f.id) \o <<>> \o <<>> \o <<>>
                 \o FlashOp("next", 0, 0, f.id)
    BY <1>12, Zenon
  <2>1. r.todo = <<e1>> \o <<p1>> \o <<e2>> \o <<bl>> \o <<>> \o <<>> \o <<>> \o <<nx>>
    BY <2>0, <1>4, <1>5, <1>6, Zenon
  <2>2. <<e1, p1, e2, bl>> \in Seq(FlashOps)
    BY <1>t
  <2>3. <<e1, p1, e2, bl>> \o <<>> = <<e1, p1, e2, bl>>
    BY <2>2, FlashNoMore
  <2>4. <<e1, p1, e2, bl>> \o <<nx>> = <<e1, p1, e2, bl, nx>>
    BY <1>t, FlashTuple5
  <2>5. r.todo = <<e1, p1, e2, bl, nx>>
    BY <1>11, <2>1, <2>3, <2>4, Zenon
  <2>6. r.rpc.id = f.id /\ r.rpc.golden /\ r.rpc.next = 0 /\ r.op_len = f.len /\ f.len <= FlashSub + m
    BY <1>1, <1>10, <1>m
  <2>7. r.todo \in Seq(FlashOps) /\ r.todo # <<>> /\ FlashJob(r, f, 0)
    BY <1>3, <1>5, <1>6, <1>9, <1>12, <1>a, <2>5, <2>6, FlashFirstGolden
  <2> QED BY <1>0, <2>7, FlashFirstSafe
<1>13. CASE f.len = 2
  <2>0. r.todo = FlashBlank(f.len, f, TRUE) \o FlashOp("blanked", 0, 0, f.id) \o FlashOp("end", 0, 0, FlashNone)
                 \o <<>> \o <<>> \o FlashOp("done", 0, 0, f.id)
    BY <1>13, Zenon
  <2>1. r.todo = <<e1>> \o <<p1>> \o <<e2>> \o <<bl>> \o <<en>> \o <<>> \o <<>> \o <<dn>>
    BY <2>0, <1>4, <1>5, <1>7, <1>8, Zenon
  <2>2. <<e1, p1, e2, bl, en>> \in Seq(FlashOps)
    BY <1>t
  <2>3. <<e1, p1, e2, bl, en>> \o <<>> = <<e1, p1, e2, bl, en>>
    BY <2>2, FlashNoMore
  <2>4. <<e1, p1, e2, bl>> \o <<en>> = <<e1, p1, e2, bl, en>>
    BY <1>t, FlashTuple5
  <2>8. <<e1, p1, e2, bl, en>> \o <<dn>> = <<e1, p1, e2, bl, en, dn>>
    BY <1>t, FlashTuple6
  <2>5. r.todo = <<e1, p1, e2, bl, en, dn>>
    BY <1>11, <2>1, <2>3, <2>4, <2>8, Zenon
  <2>6. r.rpc.id = f.id /\ r.rpc.golden
    BY <1>10
  <2>7. r.todo \in Seq(FlashOps) /\ r.todo # <<>> /\ FlashJob(r, f, 0)
    BY <1>3, <1>5, <1>7, <1>8, <1>9, <1>13, <1>a, <2>5, <2>6, FlashOnlyGolden
  <2> QED BY <1>0, <2>7, FlashFirstSafe
<1> QED BY <1>0, <1>12, <1>13

\* A later sector of an update of the JSON calls, and the last one.
LEMMA FlashLaterSafe ==
    ASSUME NEW s, NEW r, FlashSafe(s), s.curfwid # FlashNone, s.todo = <<>>, FlashCalled(s, r),
           NEW f \in FlashFiles, NEW b \in FlashBases, FlashGoing(s, f, b), s.rpc.next # 0,
           s.rpc.id = f.id, s.rpc.golden <=> b = 0, s.op_len = f.len,
           s.rpc.next + 2 < f.len =>
                 r.todo = <<>> \o <<>> \o espi_flash_write(f, s.rpc.next, s.rpc.next + 1, b, FALSE) \o <<>>
                          \o FlashOp("next", 0, 0, f.id),
           s.rpc.next + 2 >= f.len /\ b = 0 =>
                 r.todo = <<>> \o FlashOp("end", 0, 0, FlashNone)
                          \o espi_flash_write(f, s.rpc.next, s.rpc.next + 1, 0, FALSE) \o <<>>
                          \o FlashOp("done", 0, 0, f.id),
           s.rpc.next + 2 >= f.len /\ b = FlashMaster =>
                 r.todo = <<>> \o FlashOp("end", 0, 0, FlashNone)
                          \o espi_flash_write(f, s.rpc.next, s.rpc.next + 1, FlashMaster, FALSE)
                          \o espi_flash_write(f, 0, 1, FlashMaster, FALSE)
                          \o FlashOp("done", 0, 0, f.id)
    PROVE  FlashSafe(r)
<1>1. /\ r.c = s.c /\ r.rpc = s.rpc /\ r.op_len = s.op_len /\ (r.validated <=> s.validated) /\ r.header = s.header
      /\ (r.op_golden <=> s.op_golden) /\ r.curfwid = s.curfwid /\ r.done = FlashNone /\ (s.gold => r.gold)
  BY DEF FlashCalled
<1>2. /\ s.validated /\ s.header = f.id /\ (s.op_golden <=> b = 0) /\ FlashOkImg(f, b)
      /\ FlashWritten(s.c, s.rpc.next, f, b) /\ s.rpc.next < f.len /\ (b = 0 => s.gold)
  BY DEF FlashGoing
<1>3. s.rpc.next \in Nat /\ s.rpc.next % 2 = 0
  BY FlashSafeIs
<1>4. PICK n \in Nat : n = s.rpc.next
  BY <1>3
<1>5. n % 2 = 0 /\ n # 0 /\ n < f.len /\ FlashWritten(s.c, n, f, b)
  BY <1>2, <1>3, <1>4
<1>6. /\ n >= 2 /\ n + 1 < f.len /\ f.len \in Nat /\ b \in Nat /\ (b # 0 => b = FlashMaster)
      /\ \A x \in (b + n)..(b + (n + 1)) : x \in FlashRegion(b)
  BY <1>2, <1>5, FlashLaterFinds
<1>7. PICK p : espi_flash_write(f, n, n + 1, b, FALSE) = <<p>> /\ FlashIsProg(p, n, n + 1, f, b)
  <2>1. n + 1 \in Nat /\ n <= (n + 1) + 1
    BY <1>6
  <2> QED BY <1>6, <2>1, FlashProgLoop
<1>8. PICK nx : FlashOp("next", 0, 0, f.id) = <<nx>> /\ FlashIsNote(nx, "next", f, b)
  BY FlashNoteLoop
<1>9. PICK en : FlashOp("end", 0, 0, FlashNone) = <<en>> /\ FlashIsNote(en, "end", f, b)
  BY FlashNoteLoop
<1>10. PICK dn : FlashOp("done", 0, 0, f.id) = <<dn>> /\ FlashIsNote(dn, "done", f, b)
  BY FlashNoteLoop
<1>t. {p, nx, en, dn} \subseteq FlashOps
  BY <1>7, <1>8, <1>9, <1>10 DEF FlashIsProg, FlashIsNote
<1>e. /\ <<>> \in Seq(FlashOps) /\ <<p>> \in Seq(FlashOps) /\ <<en>> \in Seq(FlashOps) /\ <<en, p>> \in Seq(FlashOps)
  BY <1>t
<1>f. /\ <<>> \o <<>> = <<>> /\ <<>> \o <<p>> = <<p>> /\ <<p>> \o <<>> = <<p>> /\ <<>> \o <<en>> = <<en>>
      /\ <<en, p>> \o <<>> = <<en, p>>
  BY <1>e, FlashNoMore
<1>g. <<en>> \o <<p>> = <<en, p>> /\ <<p>> \o <<nx>> = <<p, nx>>
  BY <1>t, FlashTuple2
<1>h. <<en, p>> \o <<dn>> = <<en, p, dn>>
  BY <1>t, FlashTuple3
<1>i. /\ r.rpc.next \in Nat /\ r.rpc.next % 2 = 0 /\ r.rpc.next # 0 /\ r.rpc.next = n
      /\ FlashWritten(r.c, r.rpc.next, f, b) /\ r.rpc.next < f.len
      /\ r.rpc.id = f.id /\ (r.rpc.golden <=> b = 0) /\ r.op_len = f.len /\ r.validated /\ r.header = f.id
      /\ (r.op_golden <=> b = 0) /\ (b = 0 => r.gold)
  BY <1>1, <1>2, <1>3, <1>4, <1>5
<1>j. ASSUME r.todo \in Seq(FlashOps), r.todo # <<>>, FlashJob(r, f, b), FlashGoing(r, f, b) PROVE FlashSafe(r)
  <2>1. FlashClient(r)
    BY <1>i, <1>j DEF FlashClient
  <2> QED BY <1>1, <1>j, <2>1, FlashCallSafe
<1>12. CASE n + 2 < f.len
  <2>0. r.todo = <<>> \o <<>> \o espi_flash_write(f, n, n + 1, b, FALSE) \o <<>> \o FlashOp("next", 0, 0, f.id)
    BY <1>4, <1>12, Zenon
  <2>1. r.todo = <<p, nx>>
    BY <1>7, <1>8, <1>f, <1>g, <2>0, Zenon
  <2>2. r.rpc.next + 2 < f.len /\ FlashIsProg(p, r.rpc.next, r.rpc.next + 1, f, b)
    BY <1>7, <1>12, <1>i
  <2>3. r.todo \in Seq(FlashOps) /\ r.todo # <<>> /\ FlashJob(r, f, b) /\ FlashGoing(r, f, b)
    BY <1>2, <1>8, <1>i, <2>1, <2>2, FlashLaterNext
  <2> QED BY <1>j, <2>3
<1>13. CASE n + 2 >= f.len /\ b = 0
  <2>0. r.todo = <<>> \o FlashOp("end", 0, 0, FlashNone) \o espi_flash_write(f, n, n + 1, 0, FALSE) \o <<>>
                 \o FlashOp("done", 0, 0, f.id)
    BY <1>4, <1>13, Zenon
  <2>1. r.todo = <<en, p, dn>>
    BY <1>7, <1>9, <1>10, <1>f, <1>g, <1>h, <1>13, <2>0, Zenon
  <2>2. /\ r.rpc.next + 2 >= f.len /\ FlashIsProg(p, r.rpc.next, r.rpc.next + 1, f, 0) /\ FlashIsNote(en, "end", f, 0)
        /\ FlashIsNote(dn, "done", f, 0) /\ FlashOkImg(f, 0) /\ FlashWritten(r.c, r.rpc.next, f, 0)
        /\ r.rpc.golden /\ r.op_golden /\ r.gold
    BY <1>2, <1>7, <1>9, <1>10, <1>13, <1>i
  <2>3. r.todo \in Seq(FlashOps) /\ r.todo # <<>> /\ FlashJob(r, f, 0) /\ FlashGoing(r, f, 0)
    BY <1>i, <2>1, <2>2, FlashEndGolden
  <2> QED BY <1>13, <1>j, <2>3
<1>14. CASE n + 2 >= f.len /\ b # 0
  <2> DEFINE M == FlashMaster
  <2>m. b = M /\ M # 0 /\ M \in Nat
    BY <1>6, <1>14, FlashRooms
  <2>0. r.todo = <<>> \o FlashOp("end", 0, 0, FlashNone) \o espi_flash_write(f, n, n + 1, M, FALSE)
                 \o espi_flash_write(f, 0, 1, M, FALSE) \o FlashOp("done", 0, 0, f.id)
    BY <1>4, <1>14, <2>m, Zenon
  <2>q. PICK q : espi_flash_write(f, 0, 1, M, FALSE) = <<q>> /\ FlashIsProg(q, 0, 1, f, M)
    <3>1. \A x \in (M + 0)..(M + 1) : x \in FlashRegion(M)
      BY <2>m, FlashRooms DEF FlashRegion
    <3>2. 0 \in Nat /\ 1 \in Nat /\ 0 <= 1 + 1
      OBVIOUS
    <3> QED BY <2>m, <3>1, <3>2, FlashProgLoop
  <2>t. q \in FlashOps
    BY <2>q DEF FlashIsProg
  <2>u. <<en, p>> \o <<q>> = <<en, p, q>>
    BY <1>t, <2>t, FlashTuple3
  <2>v. <<en, p, q>> \o <<dn>> = <<en, p, q, dn>>
    BY <1>t, <2>t, FlashTuple4
  <2>1. r.todo = <<en, p, q, dn>>
    BY <1>7, <1>9, <1>10, <1>f, <1>g, <2>m, <2>q, <2>u, <2>v, <2>0, Zenon
  <2>2. /\ r.rpc.next + 2 >= f.len /\ FlashIsProg(p, r.rpc.next, r.rpc.next + 1, f, M) /\ FlashIsNote(en, "end", f, M)
        /\ FlashIsNote(dn, "done", f, M) /\ FlashOkImg(f, M) /\ FlashWritten(r.c, r.rpc.next, f, M)
        /\ ~r.rpc.golden /\ ~r.op_golden
    BY <1>2, <1>7, <1>9, <1>10, <1>14, <1>i, <2>m
  <2>3. r.todo \in Seq(FlashOps) /\ r.todo # <<>> /\ FlashJob(r, f, M) /\ FlashGoing(r, f, M)
    BY <1>i, <2>1, <2>2, <2>q, FlashEndMaster
  <2> QED BY <1>j, <2>3, <2>m
<1>15. n + 2 < f.len \/ n + 2 >= f.len
  BY <1>6
<1> QED BY <1>12, <1>13, <1>14, <1>15
-----------------------------------------------------------------------------
\* The fields of the state.
FlashShape(s) ==
    /\ s = [c |-> s.c, todo |-> s.todo, curfwid |-> s.curfwid, calls |-> s.calls, faults |-> s.faults,
            cuts |-> s.cuts, op_len |-> s.op_len, op_golden |-> s.op_golden, validated |-> s.validated,
            header |-> s.header, rpc |-> s.rpc, gold |-> s.gold, spoilt |-> s.spoilt, done |-> s.done]
    /\ s.rpc = [id |-> s.rpc.id, golden |-> s.rpc.golden, next |-> s.rpc.next] /\ s.rpc.golden \in BOOLEAN

\* r differs from s in its cells, loops, announcement and counters at most.
FlashOnlyMoves(s, r) ==
    /\ r.curfwid = s.curfwid /\ r.op_golden = s.op_golden /\ r.validated = s.validated /\ r.header = s.header
    /\ r.rpc = s.rpc /\ r.gold = s.gold /\ r.spoilt = s.spoilt /\ r.done = s.done

\* A call that ends with an error, field by field.
LEMMA FlashAbortIs ==
    ASSUME NEW s, FlashShape(s), NEW r, r = FlashAbort(s)
    PROVE  /\ FlashShape(r) /\ FlashOnlyMoves(s, r) /\ r.c = s.c /\ r.todo = <<>> /\ r.op_len \in {0, s.op_len}
           /\ r.faults = s.faults /\ r.cuts = s.cuts
<1>1. PICK n : n = (IF \E k \in DOMAIN s.todo : s.todo[k].op = "blanked" THEN 0 ELSE s.op_len)
  OBVIOUS
<1>2. r = [s EXCEPT !.todo = <<>>, !.op_len = n]
  BY <1>1 DEF FlashAbort
<1>3. n \in {0, s.op_len}
  BY <1>1
<1> QED BY <1>2, <1>3 DEF FlashShape, FlashOnlyMoves
-----------------------------------------------------------------------------
\* Unless -C spoilt an image on purpose, the flash is safe.
FlashInv(s) == FlashShape(s) /\ (s.spoilt \/ FlashSafe(s))

\* A board as it is delivered.
LEMMA FlashFreshSafe ==
    ASSUME NEW g \in FlashFiles, g.iprog, g.devid = FlashDevid,
           NEW m, \/ m = FlashNone
                  \/ \E h \in FlashFiles : m = h.id /\ h.wbstar = 0,
           NEW r, r = FlashFresh(g, m)
    PROVE  FlashInv(r)
<1> DEFINE M == FlashMaster
<1>0. /\ M \in Nat /\ FlashLen \in Nat /\ M > 0 /\ FlashLen > M + 2
      /\ g.len \in Nat /\ g.len >= 2 /\ g.len <= M
  BY FlashRooms
<1>1. PICK c : c = [i \in 0..(FlashLen - 1) |->
                        IF i < M THEN FlashBlock(g, i, FALSE)
                        ELSE IF m = FlashNone THEN FlashFF ELSE FlashBlock(FlashImg(m), i - M, FALSE)]
  OBVIOUS
<1>2. r = [c |-> c, todo |-> <<>>, curfwid |-> FlashBoot(c), calls |-> FlashCalls, faults |-> FlashFaults,
           cuts |-> FlashCuts, op_len |-> 0, op_golden |-> FALSE, validated |-> FALSE, header |-> FlashNone,
           rpc |-> [id |-> FlashNone, golden |-> FALSE, next |-> 0],
           gold |-> FALSE, spoilt |-> FALSE, done |-> FlashNone]
  BY <1>1 DEF FlashFresh
<1>3. /\ r.c = c /\ r.todo = <<>> /\ r.curfwid = FlashBoot(c) /\ r.done = FlashNone /\ ~r.gold
      /\ r.rpc.id = FlashNone /\ r.rpc.next = 0
  BY <1>2
<1>4. FlashShape(r)
  <2>1. /\ r.calls = FlashCalls /\ r.faults = FlashFaults /\ r.cuts = FlashCuts /\ r.op_len = 0
        /\ r.header = FlashNone /\ r.rpc = [id |-> FlashNone, golden |-> FALSE, next |-> 0]
    BY <1>2
  <2>2. r.op_golden = FALSE /\ r.validated = FALSE /\ r.gold = FALSE /\ r.spoilt = FALSE
    BY <1>2
  <2>3. r.rpc.golden = FALSE
    BY <2>1
  <2>4. r.rpc = [id |-> r.rpc.id, golden |-> r.rpc.golden, next |-> r.rpc.next] /\ r.rpc.golden \in BOOLEAN
    BY <2>1, <2>3
  <2>5. r = [c |-> r.c, todo |-> r.todo, curfwid |-> r.curfwid, calls |-> r.calls, faults |-> r.faults,
             cuts |-> r.cuts, op_len |-> r.op_len, op_golden |-> r.op_golden, validated |-> r.validated,
             header |-> r.header, rpc |-> r.rpc, gold |-> r.gold, spoilt |-> r.spoilt, done |-> r.done]
    BY <1>2, <1>3, <2>1, <2>2, Zenon
  <2> QED BY <2>4, <2>5 DEF FlashShape
<1>5. FlashArray(c)
  BY <1>1 DEF FlashArray
<1>6. \A i \in 0..(g.len - 1) : c[i] = <<g.id, i>>
  <2> SUFFICES ASSUME NEW i \in 0..(g.len - 1) PROVE c[i] = <<g.id, i>>
    OBVIOUS
  <2>1. i \in 0..(FlashLen - 1) /\ i < M
    BY <1>0
  <2>2. c[i] = FlashBlock(g, i, FALSE)
    BY <1>1, <2>1
  <2> QED BY <2>2, FlashBlockIs
<1>7. FlashGoldWhole(c)
  BY <1>6 DEF FlashGoldWhole
<1>8. c[0] = <<g.id, 0>>
  BY <1>0, <1>6
<1>9. M \in 0..(FlashLen - 1) /\ M + 1 \in 0..(FlashLen - 1) /\ ~(M < M) /\ ~(M + 1 < M) /\ M - M = 0
  BY <1>0
<1>10. \A f \in FlashFiles : c[0] = <<f.id, 0>> => f.iprog /\ f.devid = FlashDevid
  BY <1>8, FlashValues
<1>13. FlashHeaders(c) /\ FlashMasterWhole(c)
  <2>a. CASE m = FlashNone
    <3>1. c[M] = FlashFF
      BY <1>1, <1>9, <2>a
    <3>2. \A f \in FlashFiles : c[M] # <<f.id, 0>>
      BY <3>1, FlashValues
    <3> QED BY <1>10, <3>2, FlashStarts DEF FlashHeaders, FlashMasterWhole
  <2>b. CASE m # FlashNone
    <3>1. PICK h \in FlashFiles : m = h.id /\ h.wbstar = 0
      BY <2>b
    <3>2. FlashImg(m) = h
      BY <3>1, FlashImgIs
    <3>3. ~h.iprog /\ h.len \in Nat /\ h.len >= 2 /\ M + h.len <= FlashLen
      BY <3>1, FlashRooms
    <3>4. ASSUME NEW i \in 0..(h.len - 1) PROVE c[M + i] = <<h.id, i>>
      <4>1. M + i \in 0..(FlashLen - 1) /\ ~(M + i < M) /\ (M + i) - M = i
        BY <1>0, <3>3
      <4>2. c[M + i] = FlashBlock(h, (M + i) - M, FALSE)
        BY <1>1, <2>b, <3>2, <4>1
      <4>3. FlashBlock(h, i, FALSE) = <<h.id, i>>
        BY FlashBlockIs
      <4> QED BY <4>1, <4>2, <4>3
    <3>5. c[M] = <<h.id, 0>>
      <4>1. 0 \in 0..(h.len - 1) /\ M + 0 = M
        BY <1>0, <3>3
      <4> QED BY <3>4, <4>1
    <3>6. \A f \in FlashFiles : c[M] = <<f.id, 0>> => f = h
      BY <3>5, FlashValues
    <3> QED BY <1>10, <3>3, <3>4, <3>6 DEF FlashHeaders, FlashMasterWhole
  <2> QED BY <2>a, <2>b
<1>14. FlashBoot(c) # FlashNone
  BY <1>7, <1>13, FlashStarts
<1>15. FlashClient(r)
  BY <1>3 DEF FlashClient
<1>16. <<>> \in Seq(FlashOps) /\ 0 \in Nat /\ 0 % 2 = 0
  OBVIOUS
<1> QED BY <1>3, <1>4, <1>5, <1>7, <1>13, <1>14, <1>15, <1>16 DEF FlashInv, FlashSafe

\* What a safe flash promises.
LEMMA FlashSafeUpdates ==
    ASSUME FlashInv(flash)
    PROVE  FlashUpdates
<1> SUFFICES ASSUME ~flash.spoilt PROVE FlashUpdates
  BY DEF FlashUpdates, FlashHeaderLast, FlashGoldenKept, FlashTakesEffect
<1> DEFINE M == FlashMaster
<1>1. PICK c : c = flash.c
  OBVIOUS
<1>2. /\ FlashMasterWhole(c) /\ (~flash.gold => FlashGoldWhole(c) /\ flash.curfwid # FlashNone)
      /\ flash.done # FlashNone =>
            IF FlashImg(flash.done).iprog THEN FlashBoot(c) # FlashNone ELSE FlashBoot(c) = flash.done
  BY <1>1 DEF FlashInv, FlashSafe
<1>3. M + 0 = M /\ 0 + 0 = 0 /\ 0 + 1 = 1 /\ \A f \in FlashFiles : f.id # FlashNone
  BY FlashRooms, FlashParse
<1>4. ASSUME NEW base, NEW f \in FlashFiles, xlnx_btstrm_parse_header(c, base) = f.id,
             \A i \in 0..(f.len - 1) : c[base + i] = <<f.id, i>>
      PROVE  FlashWholeAt(c, base)
  BY <1>3, <1>4, FlashImgIs DEF FlashWholeAt
<1>5. xlnx_btstrm_parse_header(c, M) # FlashNone => FlashWholeAt(c, M)
  <2> SUFFICES ASSUME xlnx_btstrm_parse_header(c, M) # FlashNone PROVE FlashWholeAt(c, M)
    OBVIOUS
  <2>1. PICK f \in FlashFiles : /\ xlnx_btstrm_parse_header(c, M) = f.id
                                /\ c[M] = <<f.id, 0>> /\ c[M + 1] = <<f.id, 1>>
    BY <1>3, FlashParse
  <2>2. \A i \in 0..(f.len - 1) : c[M + i] = <<f.id, i>>
    BY <1>2, <2>1 DEF FlashMasterWhole
  <2> QED BY <1>4, <2>1, <2>2
<1>6. FlashGoldWhole(c) => FlashWholeAt(c, 0)
  <2> SUFFICES ASSUME FlashGoldWhole(c) PROVE FlashWholeAt(c, 0)
    OBVIOUS
  <2>1. PICK g \in FlashFiles : \A i \in 0..(g.len - 1) : c[i] = <<g.id, i>>
    BY DEF FlashGoldWhole
  <2>2. 0 \in 0..(g.len - 1) /\ 1 \in 0..(g.len - 1) /\ \A i \in 0..(g.len - 1) : 0 + i = i
    BY FlashRooms
  <2>3. c[0 + 0] = <<g.id, 0>> /\ c[0 + 1] = <<g.id, 1>>
    BY <2>1, <2>2
  <2>4. xlnx_btstrm_parse_header(c, 0) = g.id
    BY <1>3, <2>3, FlashParse
  <2> QED BY <1>4, <2>1, <2>2, <2>4
<1>7. FlashHeaderLast
  BY <1>1, <1>5 DEF FlashHeaderLast
<1>8. FlashGoldenKept
  BY <1>1, <1>2, <1>6 DEF FlashGoldenKept
<1>9. FlashTakesEffect
  BY <1>1, <1>2 DEF FlashTakesEffect
<1> QED BY <1>7, <1>8, <1>9 DEF FlashUpdates

\* Every action keeps the flash safe.
LEMMA FlashPowerCutInv ==
    ASSUME FlashInv(flash), FlashPowerCut
    PROVE  FlashInv(flash')
<1>1. PICK s : s = flash
  OBVIOUS
<1>2. PICK r : r = flash'
  OBVIOUS
<1>3. FlashShape(s) /\ (s.spoilt \/ FlashSafe(s))
  BY <1>1 DEF FlashInv
<1>4. PICK c \in (IF s.todo = <<>> THEN {s.c} ELSE FlashCutShort(s.c, s.todo[1])) :
          r = [FlashAbort(s) EXCEPT
                 !.c = c, !.cuts = @ - 1, !.curfwid = FlashBoot(c), !.rpc.id = FlashNone, !.done = FlashNone]
  BY <1>1, <1>2 DEF FlashPowerCut
<1>5. PICK a : a = FlashAbort(s)
  OBVIOUS
<1>6. FlashShape(a) /\ FlashOnlyMoves(s, a) /\ a.todo = <<>>
  BY <1>3, <1>5, FlashAbortIs
<1>7. r = [a EXCEPT !.c = c, !.cuts = @ - 1, !.curfwid = FlashBoot(c), !.rpc.id = FlashNone, !.done = FlashNone]
  BY <1>4, <1>5
<1>8. /\ FlashShape(r) /\ r.c = c /\ r.todo = a.todo /\ r.curfwid = FlashBoot(c)
      /\ r.rpc.id = FlashNone /\ r.rpc.next = a.rpc.next /\ r.done = FlashNone
      /\ r.gold = a.gold /\ r.spoilt = a.spoilt
  BY <1>6, <1>7 DEF FlashShape, FlashOnlyMoves
<1>9. /\ r.todo = <<>> /\ r.rpc.next = s.rpc.next /\ r.gold = s.gold /\ r.spoilt = s.spoilt
      /\ r.c \in (IF s.todo = <<>> THEN {s.c} ELSE FlashCutShort(s.c, s.todo[1])) /\ r.curfwid = FlashBoot(r.c)
  BY <1>4, <1>6, <1>8 DEF FlashOnlyMoves
<1>10. FlashSafe(s) => FlashSafe(r)
  BY <1>8, <1>9, FlashCutOffSafe
<1> QED BY <1>2, <1>3, <1>8, <1>9, <1>10 DEF FlashInv

LEMMA FlashFailInv ==
    ASSUME FlashInv(flash), FlashFail
    PROVE  FlashInv(flash')
<1>1. PICK s : s = flash
  OBVIOUS
<1>2. PICK r : r = flash'
  OBVIOUS
<1>3. FlashShape(s) /\ (s.spoilt \/ FlashSafe(s)) /\ s.todo # <<>>
      /\ (s.todo[1].op = "read" \/ FlashUnit(s.todo[1]) # 0)
  BY <1>1 DEF FlashInv, FlashFail
<1>4. PICK c \in {s.c, FlashEffect(s.c, s.todo[1])} : r = [FlashAbort(s) EXCEPT !.c = c, !.faults = @ - 1]
  BY <1>1, <1>2 DEF FlashFail
<1>5. PICK a : a = FlashAbort(s)
  OBVIOUS
<1>6. FlashShape(a) /\ FlashOnlyMoves(s, a) /\ a.todo = <<>> /\ a.op_len \in {0, s.op_len}
  BY <1>3, <1>5, FlashAbortIs
<1>7. r = [a EXCEPT !.c = c, !.faults = @ - 1]
  BY <1>4, <1>5
<1>8. FlashShape(r) /\ FlashOnlyMoves(a, r) /\ r.c = c /\ r.todo = a.todo /\ r.op_len = a.op_len
  BY <1>6, <1>7 DEF FlashShape, FlashOnlyMoves
<1>9. /\ r.c \in {s.c, FlashEffect(s.c, s.todo[1])} /\ r.todo = <<>>
      /\ r.rpc = s.rpc /\ (r.gold <=> s.gold) /\ r.op_len \in {0, s.op_len} /\ (r.validated <=> s.validated)
      /\ r.header = s.header /\ (r.op_golden <=> s.op_golden) /\ r.done = s.done /\ r.curfwid = s.curfwid
      /\ r.spoilt = s.spoilt
  BY <1>4, <1>6, <1>8 DEF FlashOnlyMoves
<1>10. s.todo[1].op # "end"
  BY <1>3 DEF FlashUnit
<1>11. FlashSafe(s) => FlashSafe(r)
  BY <1>3, <1>9, <1>10, FlashAbortSafe
<1> QED BY <1>2, <1>3, <1>8, <1>9, <1>11 DEF FlashInv

LEMMA FlashStepInv ==
    ASSUME FlashInv(flash), FlashStep
    PROVE  FlashInv(flash')
<1>1. PICK s : s = flash
  OBVIOUS
<1>2. PICK r : r = flash'
  OBVIOUS
<1>3. FlashShape(s) /\ (s.spoilt \/ FlashSafe(s)) /\ s.todo # <<>>
  BY <1>1 DEF FlashInv, FlashStep
<1>4. PICK o : o = s.todo[1]
  OBVIOUS
<1>5. PICK m : m = [s EXCEPT !.todo = FlashAfter(@), !.c = FlashEffect(@, o)]
  OBVIOUS
<1>6. r = CASE o.op = "erase" /\ FlashUnit(o) = 0 -> FlashAbort(s)
            [] o.op = "blanked" -> [m EXCEPT !.op_golden = s.rpc.golden, !.validated = TRUE, !.header = o.d]
            [] o.op = "end" -> [m EXCEPT !.op_len = 0]
            [] o.op = "next" -> [m EXCEPT !.rpc.next = @ + 2]
            [] o.op = "done" -> [m EXCEPT !.done = o.d, !.rpc.id = FlashNone, !.gold = @ /\ ~FlashImg(o.d).iprog]
            [] OTHER -> m
  BY <1>1, <1>2, <1>4, <1>5 DEF FlashStep
<1>7. PICK t : t = FlashAfter(s.todo)
  OBVIOUS
<1>8. PICK c : c = FlashEffect(s.c, o)
  OBVIOUS
<1>9. m = [s EXCEPT !.todo = t, !.c = c]
  BY <1>5, <1>7, <1>8
<1>10. FlashShape(m) /\ FlashOnlyMoves(s, m) /\ m.c = c /\ m.todo = t /\ m.op_len = s.op_len
  BY <1>3, <1>9 DEF FlashShape, FlashOnlyMoves
<1>11. /\ m.curfwid = s.curfwid /\ m.op_golden = s.op_golden /\ m.validated = s.validated /\ m.header = s.header
       /\ m.rpc = s.rpc /\ m.gold = s.gold /\ m.spoilt = s.spoilt /\ m.done = s.done
  BY <1>10 DEF FlashOnlyMoves
<1>12. CASE o.op = "erase" /\ FlashUnit(o) = 0
  <2>1. r = FlashAbort(s)
    BY <1>6, <1>12
  <2>2. FlashShape(r) /\ FlashOnlyMoves(s, r) /\ r.c = s.c /\ r.todo = <<>> /\ r.op_len \in {0, s.op_len}
    BY <1>3, <2>1, FlashAbortIs
  <2>3. /\ r.rpc = s.rpc /\ (r.gold <=> s.gold) /\ (r.validated <=> s.validated)
        /\ r.header = s.header /\ (r.op_golden <=> s.op_golden) /\ r.done = s.done /\ r.curfwid = s.curfwid
        /\ r.spoilt = s.spoilt
    BY <2>2 DEF FlashOnlyMoves
  <2>4. r.c \in {s.c, FlashEffect(s.c, s.todo[1])} /\ s.todo[1].op # "end"
    BY <1>4, <1>12, <2>2
  <2>5. FlashSafe(s) => FlashSafe(r)
    BY <1>3, <2>2, <2>3, <2>4, FlashAbortSafe
  <2> QED BY <1>2, <1>3, <2>2, <2>3, <2>5 DEF FlashInv
<1>13. CASE o.op = "blanked"
  <2>1. r = [m EXCEPT !.op_golden = s.rpc.golden, !.validated = TRUE, !.header = o.d]
    BY <1>6, <1>13
  <2>2. /\ FlashShape(r) /\ r.c = m.c /\ r.todo = m.todo /\ r.op_len = m.op_len /\ r.curfwid = m.curfwid
        /\ r.op_golden = s.rpc.golden /\ r.validated /\ r.header = o.d /\ r.rpc = m.rpc /\ r.gold = m.gold
        /\ r.spoilt = m.spoilt /\ r.done = m.done
    BY <1>10, <2>1 DEF FlashShape, FlashOnlyMoves
  <2>3. FlashStepOf(s, r) /\ r.done = s.done /\ r.curfwid = s.curfwid
    BY <1>4, <1>7, <1>8, <1>10, <1>11, <1>13, <2>2 DEF FlashStepOf
  <2>4. /\ s.todo[1].op \notin {"next", "done"} /\ (s.todo[1].op = "erase" => FlashUnit(s.todo[1]) # 0)
        /\ s.todo[1].op = "end" => r.op_len = 0
    BY <1>4, <1>13
  <2>5. FlashSafe(s) => FlashSafe(r)
    BY <1>3, <2>3, <2>4, FlashMiddle
  <2> QED BY <1>2, <1>3, <1>11, <2>2, <2>5 DEF FlashInv
<1>14. CASE o.op = "end"
  <2>1. r = [m EXCEPT !.op_len = 0]
    BY <1>6, <1>14
  <2>2. FlashShape(r) /\ FlashOnlyMoves(m, r) /\ r.c = m.c /\ r.todo = m.todo /\ r.op_len = 0
    BY <1>10, <2>1 DEF FlashShape, FlashOnlyMoves
  <2>3. /\ r.curfwid = s.curfwid /\ r.op_golden = s.op_golden /\ r.validated = s.validated /\ r.header = s.header
        /\ r.rpc = s.rpc /\ r.gold = s.gold /\ r.spoilt = s.spoilt /\ r.done = s.done
    BY <1>11, <2>2 DEF FlashOnlyMoves
  <2>4. FlashStepOf(s, r)
    BY <1>4, <1>7, <1>8, <1>10, <1>14, <2>2, <2>3 DEF FlashStepOf
  <2>5. /\ s.todo[1].op \notin {"next", "done"} /\ (s.todo[1].op = "erase" => FlashUnit(s.todo[1]) # 0)
        /\ s.todo[1].op = "end" => r.op_len = 0
    BY <1>4, <1>14, <2>2
  <2>6. FlashSafe(s) => FlashSafe(r)
    BY <1>3, <2>3, <2>4, <2>5, FlashMiddle
  <2> QED BY <1>2, <1>3, <2>2, <2>3, <2>6 DEF FlashInv
<1>15. CASE o.op = "next"
  <2>1. r = [m EXCEPT !.rpc.next = @ + 2]
    BY <1>6, <1>15
  <2>2. /\ FlashShape(r) /\ r.c = m.c /\ r.todo = m.todo /\ r.op_len = m.op_len /\ r.curfwid = m.curfwid
        /\ r.op_golden = m.op_golden /\ r.validated = m.validated /\ r.header = m.header
        /\ r.rpc.id = m.rpc.id /\ r.rpc.golden = m.rpc.golden /\ r.rpc.next = m.rpc.next + 2
        /\ r.gold = m.gold /\ r.spoilt = m.spoilt /\ r.done = m.done
    BY <1>10, <2>1 DEF FlashShape, FlashOnlyMoves
  <2>3. /\ r.c = FlashEffect(s.c, s.todo[1]) /\ r.todo = FlashAfter(s.todo) /\ s.todo[1].op = "next"
        /\ r.rpc.id = s.rpc.id /\ (r.rpc.golden <=> s.rpc.golden) /\ r.rpc.next = s.rpc.next + 2
        /\ (r.gold <=> s.gold) /\ r.op_len = s.op_len /\ (r.validated <=> s.validated) /\ r.header = s.header
        /\ (r.op_golden <=> s.op_golden) /\ r.done = s.done /\ r.curfwid = s.curfwid
    BY <1>4, <1>7, <1>8, <1>10, <1>11, <1>15, <2>2
  <2>4. FlashSafe(s) => FlashSafe(r)
    BY <1>3, <2>3, FlashNextSafe
  <2> QED BY <1>2, <1>3, <1>11, <2>2, <2>4 DEF FlashInv
<1>16. CASE o.op = "done"
  <2>0. PICK g : g = (m.gold /\ ~FlashImg(o.d).iprog)
    OBVIOUS
  <2>1. r = [m EXCEPT !.done = o.d, !.rpc.id = FlashNone, !.gold = @ /\ ~FlashImg(o.d).iprog]
    BY <1>6, <1>16
  <2>6. r = [m EXCEPT !.done = o.d, !.rpc.id = FlashNone, !.gold = g]
    BY <2>0, <2>1
  <2>2. /\ FlashShape(r) /\ r.c = m.c /\ r.todo = m.todo /\ r.curfwid = m.curfwid
        /\ r.rpc.id = FlashNone /\ r.rpc.next = m.rpc.next
        /\ r.gold = g /\ r.spoilt = m.spoilt /\ r.done = o.d
    BY <1>10, <2>6 DEF FlashShape, FlashOnlyMoves
  <2>3. /\ r.c = FlashEffect(s.c, s.todo[1]) /\ r.todo = FlashAfter(s.todo) /\ s.todo[1].op = "done"
        /\ r.rpc.id = FlashNone /\ r.rpc.next = s.rpc.next /\ r.done = s.todo[1].d /\ r.curfwid = s.curfwid
    BY <1>4, <1>7, <1>8, <1>10, <1>11, <1>16, <2>2
  <2>4. r.gold <=> s.gold /\ ~FlashImg(s.todo[1].d).iprog
    BY <1>4, <1>11, <2>0, <2>2
  <2>5. FlashSafe(s) => FlashSafe(r)
    BY <1>3, <2>3, <2>4, FlashDoneSafe
  <2> QED BY <1>2, <1>3, <1>11, <2>2, <2>5 DEF FlashInv
<1>17. CASE o.op \notin {"blanked", "end", "next", "done"} /\ ~(o.op = "erase" /\ FlashUnit(o) = 0)
  <2>1. r = m
    BY <1>6, <1>17
  <2>2. FlashStepOf(s, r) /\ r.done = s.done /\ r.curfwid = s.curfwid
    BY <1>4, <1>7, <1>8, <1>10, <1>11, <1>17, <2>1 DEF FlashStepOf
  <2>3. /\ s.todo[1].op \notin {"next", "done"} /\ (s.todo[1].op = "erase" => FlashUnit(s.todo[1]) # 0)
        /\ s.todo[1].op = "end" => r.op_len = 0
    BY <1>4, <1>17
  <2>4. FlashSafe(s) => FlashSafe(r)
    BY <1>3, <2>2, <2>3, FlashMiddle
  <2> QED BY <1>2, <1>3, <1>10, <1>11, <2>1, <2>4 DEF FlashInv
<1> QED BY <1>12, <1>13, <1>14, <1>15, <1>16, <1>17

LEMMA FlashCliInv ==
    ASSUME FlashInv(flash), FlashCli
    PROVE  FlashInv(flash')
<1>1. PICK s : s = flash
  OBVIOUS
<1>2. PICK r : r = flash'
  OBVIOUS
<1>3. FlashShape(s) /\ (s.spoilt \/ FlashSafe(s)) /\ s.todo = <<>> /\ s.curfwid # FlashNone
  BY <1>1 DEF FlashInv, FlashCli, FlashIdle
<1>4. PICK f \in FlashFiles, golden, force, corrupt \in BOOLEAN :
          /\ FlashChecked(s.c, f, golden)
          /\ r = [s EXCEPT
                !.calls = @ - 1, !.rpc.id = FlashNone, !.done = FlashNone,
                !.gold = @ \/ golden, !.spoilt = @ \/ corrupt,
                !.todo = FlashCliWrites(f, golden, corrupt) \o FlashOp("read", 0, 0, FlashNone)
                         \o FlashOp("done", 0, 0, f.id)]
  BY <1>1, <1>2, ZenonT(30) DEF FlashCli
<1>5. PICK g : g = (s.gold \/ golden)
  OBVIOUS
<1>6. PICK p : p = (s.spoilt \/ corrupt)
  OBVIOUS
<1>7. PICK t : t = FlashCliWrites(f, golden, corrupt) \o FlashOp("read", 0, 0, FlashNone) \o FlashOp("done", 0, 0, f.id)
  OBVIOUS
<1>8. r = [s EXCEPT !.calls = @ - 1, !.rpc.id = FlashNone, !.done = FlashNone, !.gold = g, !.spoilt = p, !.todo = t]
  BY <1>4, <1>5, <1>6, <1>7
<1>9. /\ FlashShape(r) /\ r.c = s.c /\ r.todo = t /\ r.curfwid = s.curfwid
      /\ r.rpc.id = FlashNone /\ r.rpc.next = s.rpc.next
      /\ r.gold = g /\ r.spoilt = p /\ r.done = FlashNone
  BY <1>3, <1>8 DEF FlashShape, FlashOnlyMoves
<1>10. (r.gold <=> (s.gold \/ golden)) /\ (r.spoilt <=> (s.spoilt \/ corrupt))
  BY <1>5, <1>6, <1>9
<1>11. CASE s.spoilt \/ corrupt
  BY <1>2, <1>9, <1>10, <1>11 DEF FlashInv
<1>12. CASE FlashSafe(s) /\ corrupt = FALSE
  <2>1. FlashHeaders(s.c)
    BY <1>12, FlashSafeIs
  <2>2. FlashClient(r)
    BY <1>9 DEF FlashClient
  <2>3. 0 \in FlashBases /\ FlashMaster \in FlashBases
    BY DEF FlashBases
  <2>4. s.gold => r.gold
    BY <1>10
  <2>5. CASE golden = TRUE
    <3>1. FlashOkImg(f, 0)
      BY <1>4, <2>1, <2>5, FlashCheckedIs
    <3>2. r.todo = FlashCliWrites(f, TRUE, FALSE) \o FlashOp("read", 0, 0, FlashNone) \o FlashOp("done", 0, 0, f.id)
      BY <1>7, <1>9, <1>12, <2>5
    <3>3. r.todo \in Seq(FlashOps) /\ r.todo # <<>> /\ FlashJob(r, f, 0)
      BY <1>9, <1>10, <2>5, <3>1, <3>2, FlashCliGolden
    <3>4. FlashSafe(r)
      BY <1>3, <1>9, <1>12, <2>2, <2>3, <2>4, <3>3, FlashCallSafe
    <3> QED BY <1>2, <1>9, <3>4 DEF FlashInv
  <2>6. CASE golden = FALSE
    <3>1. FlashOkImg(f, FlashMaster) /\ FlashJumps(s.c)
      BY <1>4, <2>1, <2>6, FlashCheckedIs
    <3>2. r.todo = FlashCliWrites(f, FALSE, FALSE) \o FlashOp("read", 0, 0, FlashNone) \o FlashOp("done", 0, 0, f.id)
      BY <1>7, <1>9, <1>12, <2>6
    <3>3. r.todo \in Seq(FlashOps) /\ r.todo # <<>> /\ FlashJob(r, f, FlashMaster)
      BY <1>9, <3>1, <3>2, FlashCliMaster
    <3>4. FlashSafe(r)
      BY <1>3, <1>9, <1>12, <2>2, <2>3, <2>4, <3>3, FlashCallSafe
    <3> QED BY <1>2, <1>9, <3>4 DEF FlashInv
  <2> QED BY <1>4, <2>5, <2>6
<1> QED BY <1>3, <1>4, <1>11, <1>12

LEMMA FlashRpcEraseInv ==
    ASSUME FlashInv(flash), FlashRpcErase
    PROVE  FlashInv(flash')
<1>1. PICK s : s = flash
  OBVIOUS
<1>2. PICK r : r = flash'
  OBVIOUS
<1>3. FlashShape(s) /\ (s.spoilt \/ FlashSafe(s)) /\ s.todo = <<>> /\ s.curfwid # FlashNone
  BY <1>1 DEF FlashInv, FlashRpcErase, FlashIdle
<1>4. PICK f \in FlashFiles, golden \in BOOLEAN :
          r = [s EXCEPT
             !.calls = @ - 1, !.rpc = [id |-> f.id, golden |-> golden, next |-> 0],
             !.op_len = IF f.len > FlashLimit THEN 0 ELSE f.len,
             !.op_golden = FALSE, !.validated = FALSE]
  BY <1>1, <1>2 DEF FlashRpcErase
<1>5. PICK n : n = (IF f.len > FlashLimit THEN 0 ELSE f.len)
  OBVIOUS
<1>6. r = [s EXCEPT !.calls = @ - 1, !.rpc = [id |-> f.id, golden |-> golden, next |-> 0], !.op_len = n,
                    !.op_golden = FALSE, !.validated = FALSE]
  BY <1>4, <1>5
<1>7. /\ FlashShape(r) /\ r.c = s.c /\ r.todo = s.todo /\ r.curfwid = s.curfwid /\ r.op_len = n
      /\ r.rpc.id = f.id /\ r.rpc.golden = golden /\ r.rpc.next = 0
      /\ r.gold = s.gold /\ r.spoilt = s.spoilt /\ r.done = s.done
  BY <1>3, <1>6 DEF FlashShape, FlashOnlyMoves
<1>8. r.op_len \in {0, f.len}
  BY <1>5, <1>7
<1>9. \E b \in FlashBases : golden <=> b = 0
  <2>1. CASE golden
    BY <2>1 DEF FlashBases
  <2>2. CASE ~golden
    BY <2>2, FlashRooms DEF FlashBases
  <2> QED BY <2>1, <2>2
<1>10. FlashClient(r)
  BY <1>7, <1>8, <1>9 DEF FlashClient
<1>11. 0 \in Nat /\ 0 % 2 = 0
  OBVIOUS
<1>12. ASSUME FlashSafe(s) PROVE FlashSafe(r)
  <2>1. /\ s.todo \in Seq(FlashOps) /\ FlashArray(s.c) /\ FlashHeaders(s.c) /\ FlashMasterWhole(s.c)
        /\ (~s.gold => FlashGoldWhole(s.c) /\ s.curfwid # FlashNone)
        /\ s.done # FlashNone =>
              IF FlashImg(s.done).iprog THEN FlashBoot(s.c) # FlashNone ELSE FlashBoot(s.c) = s.done
    BY <1>12 DEF FlashSafe
  <2> QED BY <1>3, <1>7, <1>10, <1>11, <2>1 DEF FlashSafe
<1> QED BY <1>2, <1>3, <1>7, <1>12 DEF FlashInv

\* The parts of flash_write_sector.
FlashParts(s, f, h, gd, a, e, w, i, n) ==
    /\ f = FlashImg(s.rpc.id)
    /\ gd = (IF s.rpc.next = 0 THEN s.rpc.golden ELSE s.op_golden)
    /\ h = (IF s.rpc.next = 0 THEN f ELSE FlashImg(s.header))
    /\ a = (IF s.rpc.next = 0 THEN FlashBlank(s.op_len, f, gd) \o FlashOp("blanked", 0, 0, f.id) ELSE <<>>)
    /\ e = (IF s.rpc.next + 2 >= s.op_len THEN FlashOp("end", 0, 0, FlashNone) ELSE <<>>)
    /\ w = (IF s.rpc.next = 0 THEN <<>>
            ELSE espi_flash_write(f, s.rpc.next, s.rpc.next + 1, IF gd THEN 0 ELSE FlashMaster, FALSE))
    /\ i = (IF s.rpc.next + 2 >= s.op_len /\ ~gd THEN espi_flash_write(h, 0, 1, FlashMaster, FALSE) ELSE <<>>)
    /\ n = FlashOp(IF s.rpc.next + 2 >= s.op_len THEN "done" ELSE "next", 0, 0, f.id)

\* flash_write_sector, first sector or later.
LEMMA FlashSectorSafe ==
    ASSUME NEW s, NEW r, FlashShape(s), FlashSafe(s), s.todo = <<>>, s.curfwid # FlashNone, s.rpc.id # FlashNone,
           NEW f, NEW h, NEW gd, NEW a, NEW e, NEW w, NEW i, NEW n, FlashParts(s, f, h, gd, a, e, w, i, n),
           s.rpc.next < s.op_len, s.rpc.next = 0 => FlashChecked(s.c, f, gd), s.rpc.next # 0 => s.validated,
           FlashCalled(s, r), s.rpc.next = 0 /\ gd => r.gold, r.todo = a \o e \o w \o i \o n
    PROVE  FlashSafe(r)
<1>0. FlashClient(s) /\ FlashHeaders(s.c) /\ s.rpc.next \in Nat
  BY FlashSafeIs
<1>1. PICK k \in FlashFiles, b \in FlashBases :
          /\ k.id = s.rpc.id /\ (s.rpc.golden <=> b = 0) /\ s.op_len \in {0, k.len}
          /\ s.op_len # 0 /\ s.rpc.next # 0 => FlashGoing(s, k, b)
  BY <1>0, SMTT(30) DEF FlashClient
<1>2. f = k
  BY <1>1, FlashImgIs DEF FlashParts
<1>3. k.len \in Nat /\ k.len >= 2 /\ FlashMaster # 0
  BY FlashRooms
<1>4. s.op_len = k.len
  BY <1>0, <1>1
<1>5. CASE s.rpc.next = 0
  <2>1. gd = s.rpc.golden /\ gd \in BOOLEAN /\ h = k
    BY <1>2, <1>5 DEF FlashParts, FlashShape
  <2>2. a = FlashBlank(k.len, k, gd) \o FlashOp("blanked", 0, 0, k.id) /\ w = <<>>
    BY <1>2, <1>4, <1>5 DEF FlashParts
  <2>3. k.len > 2 => e = <<>> /\ i = <<>> /\ n = FlashOp("next", 0, 0, k.id)
    <3>1. k.len > 2 => ~(s.rpc.next + 2 >= s.op_len)
      BY <1>3, <1>4, <1>5
    <3> QED BY <1>2, <3>1, Zenon DEF FlashParts
  <2>4. k.len = 2 => e = FlashOp("end", 0, 0, FlashNone) /\ n = FlashOp("done", 0, 0, k.id)
    BY <1>2, <1>4, <1>5 DEF FlashParts
  <2>5. CASE gd = TRUE
    <3>1. k.len = 2 => i = <<>>
      BY <1>4, <1>5, <2>5 DEF FlashParts
    <3>2. k.len > 2 => r.todo = FlashBlank(k.len, k, TRUE) \o FlashOp("blanked", 0, 0, k.id) \o <<>> \o <<>> \o <<>>
                                \o FlashOp("next", 0, 0, k.id)
      BY <2>2, <2>3, <2>5, Zenon
    <3>3. k.len = 2 => r.todo = FlashBlank(k.len, k, TRUE) \o FlashOp("blanked", 0, 0, k.id)
                                \o FlashOp("end", 0, 0, FlashNone) \o <<>> \o <<>> \o FlashOp("done", 0, 0, k.id)
      BY <2>2, <2>4, <2>5, <3>1, Zenon
    <3>4. FlashOkImg(k, 0)
      BY <1>0, <1>2, <1>5, <2>5, FlashCheckedIs
    <3>5. r.gold /\ s.rpc.id = k.id /\ s.rpc.golden
      BY <1>1, <1>5, <2>1, <2>5
    <3> QED BY <1>4, <1>5, <3>2, <3>3, <3>4, <3>5, FlashFirstGoldenSafe
  <2>6. CASE gd = FALSE
    <3>1. k.len = 2 => i = espi_flash_write(k, 0, 1, FlashMaster, FALSE)
      <4>1. k.len = 2 => s.rpc.next + 2 >= s.op_len
        BY <1>4, <1>5
      <4> QED BY <2>1, <2>6, <4>1, Zenon DEF FlashParts
    <3>2. k.len > 2 => r.todo = FlashBlank(k.len, k, FALSE) \o FlashOp("blanked", 0, 0, k.id) \o <<>> \o <<>> \o <<>>
                                \o FlashOp("next", 0, 0, k.id)
      BY <2>2, <2>3, <2>6, Zenon
    <3>3. k.len = 2 => r.todo = FlashBlank(k.len, k, FALSE) \o FlashOp("blanked", 0, 0, k.id)
                                \o FlashOp("end", 0, 0, FlashNone) \o <<>>
                                \o espi_flash_write(k, 0, 1, FlashMaster, FALSE) \o FlashOp("done", 0, 0, k.id)
      BY <2>2, <2>4, <2>6, <3>1, Zenon
    <3>4. FlashOkImg(k, FlashMaster) /\ FlashJumps(s.c)
      BY <1>0, <1>2, <1>5, <2>6, FlashCheckedIs
    <3>5. s.rpc.id = k.id /\ ~s.rpc.golden
      BY <1>1, <2>1, <2>6
    <3> QED BY <1>4, <1>5, <3>2, <3>3, <3>4, <3>5, FlashFirstMasterSafe
  <2> QED BY <2>1, <2>5, <2>6
<1>6. CASE s.rpc.next # 0
  <2>1. FlashGoing(s, k, b)
    BY <1>1, <1>3, <1>4, <1>6
  <2>2. s.header = k.id /\ (s.op_golden <=> b = 0)
    BY <2>1 DEF FlashGoing
  <2>3. (gd <=> b = 0) /\ h = k /\ a = <<>>
    BY <1>2, <1>6, <2>2, FlashImgIs DEF FlashParts
  <2>4. b = 0 \/ b = FlashMaster
    BY DEF FlashBases
  <2>5. w = espi_flash_write(k, s.rpc.next, s.rpc.next + 1, b, FALSE)
    <3>1. (IF gd THEN 0 ELSE FlashMaster) = b
      BY <1>3, <2>3, <2>4
    <3>2. w = espi_flash_write(f, s.rpc.next, s.rpc.next + 1, IF gd THEN 0 ELSE FlashMaster, FALSE)
      BY <1>6 DEF FlashParts
    <3> QED BY <1>2, <3>1, <3>2, Zenon
  <2>6. s.rpc.next + 2 < k.len => e = <<>> /\ i = <<>> /\ n = FlashOp("next", 0, 0, k.id)
    <3>1. s.rpc.next + 2 < k.len => ~(s.rpc.next + 2 >= s.op_len)
      BY <1>0, <1>3, <1>4
    <3> QED BY <1>2, <3>1, Zenon DEF FlashParts
  <2>7. s.rpc.next + 2 >= k.len => e = FlashOp("end", 0, 0, FlashNone) /\ n = FlashOp("done", 0, 0, k.id)
    BY <1>2, <1>4, SMTT(30) DEF FlashParts
  <2>8. s.rpc.next + 2 >= k.len /\ b = 0 => i = <<>>
    BY <2>3 DEF FlashParts
  <2>9. s.rpc.next + 2 >= k.len /\ b = FlashMaster => i = espi_flash_write(k, 0, 1, FlashMaster, FALSE)
    BY <1>3, <1>4, <2>3 DEF FlashParts
  <2>10. s.rpc.next + 2 < k.len =>
            r.todo = <<>> \o <<>> \o espi_flash_write(k, s.rpc.next, s.rpc.next + 1, b, FALSE) \o <<>>
                     \o FlashOp("next", 0, 0, k.id)
    BY <2>3, <2>5, <2>6, Zenon
  <2>11. s.rpc.next + 2 >= k.len /\ b = 0 =>
            r.todo = <<>> \o FlashOp("end", 0, 0, FlashNone)
                     \o espi_flash_write(k, s.rpc.next, s.rpc.next + 1, 0, FALSE) \o <<>>
                     \o FlashOp("done", 0, 0, k.id)
    BY <2>3, <2>5, <2>7, <2>8, Zenon
  <2>12. s.rpc.next + 2 >= k.len /\ b = FlashMaster =>
            r.todo = <<>> \o FlashOp("end", 0, 0, FlashNone)
                     \o espi_flash_write(k, s.rpc.next, s.rpc.next + 1, FlashMaster, FALSE)
                     \o espi_flash_write(k, 0, 1, FlashMaster, FALSE)
                     \o FlashOp("done", 0, 0, k.id)
    BY <2>3, <2>5, <2>7, <2>9, Zenon
  <2> QED BY <1>1, <1>4, <1>6, <2>1, <2>10, <2>11, <2>12, FlashLaterSafe
<1> QED BY <1>5, <1>6

LEMMA FlashRpcSectorInv ==
    ASSUME FlashInv(flash), FlashRpcSector
    PROVE  FlashInv(flash')
<1>1. PICK f : f = FlashImg(flash.rpc.id)
  OBVIOUS
<1>2. PICK gd : gd = (IF flash.rpc.next = 0 THEN flash.rpc.golden ELSE flash.op_golden)
  OBVIOUS
<1>3. PICK h : h = (IF flash.rpc.next = 0 THEN f ELSE FlashImg(flash.header))
  OBVIOUS
<1>4. PICK a : a = (IF flash.rpc.next = 0
                    THEN FlashBlank(flash.op_len, f, gd) \o FlashOp("blanked", 0, 0, f.id) ELSE <<>>)
  OBVIOUS
<1>5. PICK e : e = (IF flash.rpc.next + 2 >= flash.op_len THEN FlashOp("end", 0, 0, FlashNone) ELSE <<>>)
  OBVIOUS
<1>6. PICK w : w = (IF flash.rpc.next = 0 THEN <<>>
                    ELSE espi_flash_write(f, flash.rpc.next, flash.rpc.next + 1, IF gd THEN 0 ELSE FlashMaster, FALSE))
  OBVIOUS
<1>7. PICK i : i = (IF flash.rpc.next + 2 >= flash.op_len /\ ~gd
                    THEN espi_flash_write(h, 0, 1, FlashMaster, FALSE) ELSE <<>>)
  OBVIOUS
<1>8. PICK n : n = FlashOp(IF flash.rpc.next + 2 >= flash.op_len THEN "done" ELSE "next", 0, 0, f.id)
  OBVIOUS
<1>9. PICK t : t = a \o e \o w \o i \o n
  OBVIOUS
<1>10. /\ flash.todo = <<>> /\ flash.curfwid # FlashNone /\ flash.rpc.id # FlashNone /\ flash.rpc.next < flash.op_len
       /\ \/ flash' = [flash EXCEPT !.op_len = 0]
          \/ /\ flash.rpc.next = 0 => FlashChecked(flash.c, f, gd)
             /\ flash.rpc.next # 0 => flash.validated
             /\ flash' = [flash EXCEPT !.gold = @ \/ (flash.rpc.next = 0 /\ gd), !.done = FlashNone, !.todo = t]
  BY <1>1, <1>2, <1>3, <1>4, <1>5, <1>6, <1>7, <1>8, <1>9, Zenon DEF FlashRpcSector, FlashIdle
<1>11. PICK s : s = flash
  OBVIOUS
<1>12. PICK r : r = flash'
  OBVIOUS
<1>13. FlashShape(s) /\ (s.spoilt \/ FlashSafe(s))
  BY <1>11 DEF FlashInv
<1>14. FlashParts(s, f, h, gd, a, e, w, i, n)
  BY <1>1, <1>2, <1>3, <1>4, <1>5, <1>6, <1>7, <1>8, <1>11, Zenon DEF FlashParts
<1>15. s.todo = <<>> /\ s.curfwid # FlashNone /\ s.rpc.id # FlashNone /\ s.rpc.next < s.op_len
  BY <1>10, <1>11
<1>16. CASE r = [s EXCEPT !.op_len = 0]
  <2>1. FlashShape(r) /\ FlashOnlyMoves(s, r) /\ r.c = s.c /\ r.todo = s.todo /\ r.op_len = 0
    BY <1>13, <1>16 DEF FlashShape, FlashOnlyMoves
  <2>2. /\ r.curfwid = s.curfwid /\ r.rpc = s.rpc /\ r.gold = s.gold /\ r.spoilt = s.spoilt /\ r.done = s.done
    BY <2>1 DEF FlashOnlyMoves
  <2>3. ASSUME FlashSafe(s) PROVE FlashSafe(r)
    <3>1. /\ s.todo \in Seq(FlashOps) /\ FlashArray(s.c) /\ s.rpc.next \in Nat /\ s.rpc.next % 2 = 0
          /\ FlashHeaders(s.c) /\ FlashMasterWhole(s.c) /\ FlashClient(s)
          /\ (~s.gold => FlashGoldWhole(s.c) /\ s.curfwid # FlashNone)
          /\ s.done # FlashNone =>
                IF FlashImg(s.done).iprog THEN FlashBoot(s.c) # FlashNone ELSE FlashBoot(s.c) = s.done
      BY <2>3 DEF FlashSafe
    <3>2. FlashClient(r)
      BY <2>1, <2>2, <3>1 DEF FlashClient
    <3> QED BY <1>15, <2>1, <2>2, <3>1, <3>2 DEF FlashSafe
  <2> QED BY <1>12, <1>13, <2>1, <2>2, <2>3 DEF FlashInv
<1>17. CASE /\ s.rpc.next = 0 => FlashChecked(s.c, f, gd)
            /\ s.rpc.next # 0 => s.validated
            /\ r = [s EXCEPT !.gold = @ \/ (s.rpc.next = 0 /\ gd), !.done = FlashNone, !.todo = t]
  <2>1. PICK g : g = (s.gold \/ (s.rpc.next = 0 /\ gd))
    OBVIOUS
  <2>2. r = [s EXCEPT !.gold = g, !.done = FlashNone, !.todo = t]
    BY <1>17, <2>1
  <2>3. /\ FlashShape(r) /\ r.c = s.c /\ r.todo = t /\ r.op_len = s.op_len /\ r.curfwid = s.curfwid
        /\ r.op_golden = s.op_golden /\ r.validated = s.validated /\ r.header = s.header /\ r.rpc = s.rpc
        /\ r.gold = g /\ r.spoilt = s.spoilt /\ r.done = FlashNone
    BY <1>13, <2>2 DEF FlashShape
  <2>4. r.gold <=> (s.gold \/ (s.rpc.next = 0 /\ gd))
    BY <2>1, <2>3
  <2>5. FlashCalled(s, r) /\ (s.rpc.next = 0 /\ gd => r.gold)
    BY <2>3, <2>4 DEF FlashCalled
  <2>6. r.todo = a \o e \o w \o i \o n
    BY <1>9, <2>3, Zenon
  <2>7. FlashSafe(s) => FlashSafe(r)
    BY <1>13, <1>14, <1>15, <1>17, <2>5, <2>6, FlashSectorSafe
  <2> QED BY <1>12, <1>13, <2>3, <2>7 DEF FlashInv
<1> QED BY <1>10, <1>11, <1>12, <1>16, <1>17, Zenon

\* Updates of the firmware (usdr_flash, and flash_erase and flash_write_sector of the JSON controller)
\* survive failures and losses of power at every access: a readable header of a master image has its
\* whole image behind it, the golden image stays whole unless an update of it is under way, and an
\* image reported as written is the one that starts.
THEOREM FlashUpdatesSafe == FlashSpec => []FlashUpdates
<1>1. FlashInit => FlashInv(flash)
  <2> SUFFICES ASSUME FlashInit PROVE FlashInv(flash)
    OBVIOUS
  <2>1. PICK g \in {f \in FlashFiles : f.iprog},
             m \in {FlashNone} \cup {f.id : f \in {h \in FlashFiles : h.wbstar = 0}} :
                g.devid = FlashDevid /\ flash = FlashFresh(g, m)
    BY DEF FlashInit
  <2>2. g \in FlashFiles /\ g.iprog
    OBVIOUS
  <2>3. m = FlashNone \/ \E h \in FlashFiles : m = h.id /\ h.wbstar = 0
    OBVIOUS
  <2> QED BY <2>1, <2>2, <2>3, FlashFreshSafe
<1>2. FlashInv(flash) /\ [FlashNext]_flash => FlashInv(flash')
  <2> SUFFICES ASSUME FlashInv(flash), [FlashNext]_flash PROVE FlashInv(flash')
    OBVIOUS
  <2>1. CASE FlashCli
    BY <2>1, FlashCliInv
  <2>2. CASE FlashRpcErase
    BY <2>2, FlashRpcEraseInv
  <2>3. CASE FlashRpcSector
    BY <2>3, FlashRpcSectorInv
  <2>4. CASE FlashStep
    BY <2>4, FlashStepInv
  <2>5. CASE FlashFail
    BY <2>5, FlashFailInv
  <2>6. CASE FlashPowerCut
    BY <2>6, FlashPowerCutInv
  <2>7. CASE UNCHANGED flash
    BY <2>7
  <2> QED BY <2>1, <2>2, <2>3, <2>4, <2>5, <2>6, <2>7 DEF FlashNext
<1>3. FlashInv(flash) => FlashUpdates
  BY FlashSafeUpdates
<1> DEFINE I == FlashInv(flash)
<1>4. FlashInit => I
  BY <1>1
<1>5. I /\ [FlashNext]_flash => I'
  BY <1>2
<1>6. I => FlashUpdates
  BY <1>3
<1> HIDE DEF I
<1> QED BY <1>4, <1>5, <1>6, PTL DEF FlashSpec
=============================================================================
