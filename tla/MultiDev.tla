------------------------------ MODULE MultiDev ------------------------------
(***************************************************************************)
(* Several devices used as one (device/mdev.c) behind a handle of the      *)
(* public device model (models/dm_dev.c, dm_stream.c), and the debug       *)
(* service a handle may have (models/dm_debug.c).                          *)
(*                                                                         *)
(* The aggregate has two stream objects; a stream of it is one stream of   *)
(* the same name on every device.  An operation visits the devices in      *)
(* order and ends at the first that fails.                                 *)
(***************************************************************************)
EXTENDS Outcome

CONSTANTS MdevFaults, MdevCalls,  \* bounds on failed operations of a device and on calls
          MdevCnt                 \* names in bus=

ASSUME MdevAssumption == MdevFaults \in Nat /\ MdevCalls \in Nat /\ MdevCnt \in Nat

VARIABLE mdev

MdevDevs == 1..MdevCnt
MdevSids == {"rx", "tx", "aux"}        \* aux: a name no device knows
MdevSlots == {"rx", "tx"}              \* obj->streams[0], obj->streams[1]
MdevNo == [i \in MdevDevs |-> FALSE]
MdevNoStr == [mask |-> MdevNo, cnt |-> 0, type |-> "rx"]

(* dm is what the caller holds (hollow: a handle without a device), leak   *)
(* whether a failed creation left devices open, held the streams the       *)
(* caller has handles of, refused the objects for which the last creation  *)
(* of a stream failed.                                                     *)
MdevFresh ==
    [faults |-> MdevFaults, calls |-> MdevCalls, dm |-> "none", leak |-> FALSE, dbg |-> FALSE, cnt |-> 0,
     ll |-> MdevNo, same |-> [i \in MdevDevs |-> TRUE],
     real |-> [k \in MdevSlots |-> MdevNo], str |-> [k \in MdevSlots |-> MdevNoStr], held |-> {},
     refused |-> {}, child |-> [i \in MdevDevs |-> {}], run |-> [i \in MdevDevs |-> {}],
     pos |-> [i \in MdevDevs |-> 0], val |-> [i \in MdevDevs |-> 0]]

MdevFirst(n) == [i \in 1..n |-> i]
MdevSeq == MdevFirst(MdevCnt)
-----------------------------------------------------------------------------
(* lowlevel_create: the plug-ins are tried in order until one takes the    *)
(* device; lowlevel_get_uuid tells whether it is a board like the first.   *)
lowlevel_create(s, i) ==
    Faulty(s) \cup UNION {Ok([s EXCEPT !.ll[i] = TRUE, !.same[i] = b]) : b \in IF i = 1 THEN {TRUE} ELSE BOOLEAN}

(* The operation destroy of a device takes its streams with it.            *)
MdevDestroyAll(s, D) ==
    [s EXCEPT !.ll = [i \in MdevDevs |-> @[i] /\ i \notin D],
              !.child = [i \in MdevDevs |-> IF i \in D THEN {} ELSE @[i]],
              !.run = [i \in MdevDevs |-> IF i \in D THEN {} ELSE @[i]]]

(* mutant: the devices counted by obj->cnt, which is set after all of them *)
(* are made.                                                               *)
CleanupByCount(s) == MdevDestroyAll(s, 1..s.cnt)

(* failed_create: every device that was made is destroyed.                 *)
MdevCleanup(s) == MdevDestroyAll(s, MdevDevs)

(* mdev_create: a board that is not like the master ends it at error_init  *)
(* with the result of the last successful call, 0: no device is given out. *)
mdev_create(s) ==
    LET Odd(t) == \E i \in MdevDevs : ~t.same[i]
        Sub(t, i) == IF Odd(t) THEN Ok(t) ELSE lowlevel_create(t, i)
    IN  UNION {IF ~o.ok THEN Fail(MdevCleanup(o.s))
               ELSE IF Odd(o.s) THEN Ok([MdevCleanup(o.s) EXCEPT !.dm = "hollow"])
               ELSE Undo(Then(Io(o.s, o.s), LAMBDA t :                   \* channel counts
                         Then(Ok([t EXCEPT !.cnt = MdevCnt]), LAMBDA u :
                              Io(u, [u EXCEPT !.dm = "up"]))),           \* /ll/mdev of the master
                         LAMBDA t : Ok(MdevCleanup(t)))
               : o \in ForEach(s, MdevSeq, Sub)}

(* usdr_dif_init: the debug service, when the environment asks for it.     *)
usdr_dif_init(s) == Io(s, [s EXCEPT !.dbg = TRUE])
usdr_dif_free(s) == [s EXCEPT !.dbg = FALSE]

(* _usdr_dmd_create: a debug service that does not start fails the call,   *)
(* and the devices stay open with no handle to close them.                 *)
usdr_dmd_create(s) ==
    {[o EXCEPT !.s.dm = IF o.ok THEN @ ELSE "none"] :
     o \in Then(mdev_create(s), LAMBDA t :
           Ok(t) \cup Undo(usdr_dif_init(t), LAMBDA u : Ok([u EXCEPT !.leak = TRUE])))}

(* mdev_generic_destroy and usdr_dmd_close: the debug service first, then  *)
(* each device that is still there.                                        *)
mdev_generic_destroy(s) == MdevDestroyAll(s, {i \in 1..s.cnt : s.ll[i]})
usdr_dmd_close(s) ==
    Ok([mdev_generic_destroy(IF s.dbg THEN usdr_dif_free(s) ELSE s)
            EXCEPT !.dm = "none", !.cnt = 0, !.held = {}, !.refused = {}, !.real = MdevFresh.real, !.str = MdevFresh.str,
                   !.pos = MdevFresh.pos, !.val = MdevFresh.val])
-----------------------------------------------------------------------------
(* rx = (strstr(sid, "rx/0") == 0): strstr returns NULL when the name does *)
(* not occur, so the name rx/0 selects the second object and any other     *)
(* name the first.                                                         *)
MdevSlotOf(sid) == IF sid = "rx" THEN "tx" ELSE "rx"

(* create_stream of a device: it refuses a name it does not know and a     *)
(* stream that is open.                                                    *)
MdevChildCreate(s, i, sid) ==
    IF sid = "aux" \/ sid \in s.child[i] THEN Fail(s) ELSE Io(s, [s EXCEPT !.child[i] = @ \cup {sid}])

(* mutant: the type is that of the name, the array that of the slot.       *)
TypeByName(s, sid) ==
    LET k == MdevSlotOf(sid)
        One(t, i) ==
            LET u == [t EXCEPT !.str[k].mask[i] = FALSE]
            IN  IF u.real[k][i] THEN Fail(u)
                ELSE Then(MdevChildCreate(u, i, sid), LAMBDA v :
                     LET w == [v EXCEPT !.real[k][i] = TRUE, !.str[k].mask[i] = TRUE] IN Io(w, w))
    IN  Then(ForEach(s, MdevSeq, One), LAMBDA t :
        Then(Io(t, t), LAMBDA u :
             Ok([u EXCEPT !.str[k].type = sid, !.str[k].cnt = MdevCnt, !.held = @ \cup {sid}])))

(* The mark of a device is cleared before the stream is found in use, and  *)
(* streams made before a failure stay ("TODO error handling").             *)
mdev_create_stream(s, sid) ==
    LET k == MdevSlotOf(sid)
        One(t, i) ==
            LET u == [t EXCEPT !.str[k].mask[i] = FALSE]
            IN  IF u.real[k][i] THEN Fail(u)
                ELSE Then(MdevChildCreate(u, i, sid), LAMBDA v :
                     LET w == [v EXCEPT !.real[k][i] = TRUE, !.str[k].mask[i] = TRUE] IN Io(w, w))
    IN  Then(ForEach(s, MdevSeq, One), LAMBDA t :
        Then(Io(t, t), LAMBDA u :
             Ok([u EXCEPT !.str[k].type = k, !.str[k].cnt = MdevCnt, !.held = @ \cup {sid}])))

(* The object a handle points to, and whether an operation on it visits a  *)
(* device.                                                                 *)
MdevStr(s, sid) == s.str[MdevSlotOf(sid)]
MdevMarked(s, sid, i) == MdevStr(s, sid).mask[i]

(* What a device does with its stream: nothing if it has none by now.      *)
MdevOn(s, i, sid, F(_)) == IF sid \in s.child[i] THEN Io(s, F(s)) ELSE Fail(s)

mstr_stream_op(s, sid, on) ==
    ForEach(s, MdevSeq, LAMBDA t, i :
        IF ~MdevMarked(s, sid, i) THEN Ok(t)
        ELSE MdevOn(t, i, sid, LAMBDA u : [u EXCEPT !.run[i] = IF on THEN @ \cup {sid} ELSE @ \ {sid}]))

(* One packet of every device; a device that times out leaves those before *)
(* it one packet ahead.                                                    *)
mstr_stream_recv(s) ==
    ForEach(s, MdevFirst(MdevStr(s, "rx").cnt), LAMBDA t, i :
        MdevOn(t, i, "rx", LAMBDA u : [u EXCEPT !.pos[i] = @ + 1]))
mstr_stream_send(s) ==
    ForEach(s, MdevFirst(MdevStr(s, "tx").cnt), LAMBDA t, i : MdevOn(t, i, "tx", LAMBDA u : u))

(* The devices whose streams are all marked are set up in order; then the  *)
(* master starts the reference pulses they wait for.                       *)
mdev_stream_sync(s, sids, type) ==
    IF type = "sysref+gen" \/ sids = {} THEN Fail(s)
    ELSE Then(ForEach(s, MdevSeq, LAMBDA t, i :
                  IF \A sid \in sids : MdevMarked(s, sid, i) THEN Io(t, t) ELSE Ok(t)), LAMBDA u :
              IF type = "sysref" THEN Io(u, u) ELSE Ok(u))

(* unregister_stream: results are not looked at; the array and the devices *)
(* lose the stream kept in it.                                             *)
mdev_unregister_stream(s, sid) ==
    LET k == MdevStr(s, sid).type
        name == CHOOSE n \in {"rx", "tx"} : MdevSlotOf(n) = k
        D == 1..MdevStr(s, sid).cnt
    IN  Ok([s EXCEPT !.real[k] = [i \in MdevDevs |-> @[i] /\ i \notin D],
                     !.child = [i \in MdevDevs |-> IF i \in D THEN @[i] \ {name} ELSE @[i]],
                     !.run = [i \in MdevDevs |-> IF i \in D THEN @[i] \ {name} ELSE @[i]],
                     !.pos = IF name = "rx" THEN MdevFresh.pos ELSE @,
                     !.held = @ \ {sid}])

(* A parameter is set on every device in order.                            *)
mdev_obj_set_i64(s, v) == ForEach(s, MdevSeq, LAMBDA t, i : Io(t, [t EXCEPT !.val[i] = v]))

(* usdr_dme_findsetv_uint: settings in order; one that fails ends it if it *)
(* is marked stopOnFail.                                                   *)
usdr_dme_findsetv_uint(s, vs, stop) ==
    ForEach(s, vs, LAMBDA t, v : IF stop THEN mdev_obj_set_i64(t, v) ELSE Ignore(mdev_obj_set_i64(t, v)))
-----------------------------------------------------------------------------
MdevDo(S) == \E o \in S : mdev' = [o.s EXCEPT !.calls = @ - 1]
MdevMay == mdev.calls > 0
MdevUp == MdevMay /\ mdev.dm = "up"

MdevCreate == MdevMay /\ mdev.dm = "none" /\ ~mdev.leak /\ MdevDo(usdr_dmd_create(mdev))
MdevClose == MdevUp /\ MdevDo(usdr_dmd_close(mdev))
MdevCreateCall(sid) ==
    MdevDo({[o EXCEPT !.s.refused = IF o.ok THEN @ \ {MdevSlotOf(sid)} ELSE @ \cup {MdevSlotOf(sid)}] :
            o \in mdev_create_stream(mdev, sid)})
MdevOpen == MdevUp /\ \E sid \in MdevSids \ mdev.held : MdevCreateCall(sid)
MdevReopen == MdevUp /\ \E sid \in mdev.held : MdevCreateCall(sid)
MdevDestroy == MdevUp /\ \E sid \in mdev.held : MdevDo(mdev_unregister_stream(mdev, sid))
MdevStart == MdevUp /\ \E sid \in mdev.held, on \in BOOLEAN : MdevDo(mstr_stream_op(mdev, sid, on))
MdevRecv == MdevUp /\ "rx" \in mdev.held /\ MdevDo(mstr_stream_recv(mdev))
MdevSend == MdevUp /\ "tx" \in mdev.held /\ MdevDo(mstr_stream_send(mdev))
MdevSync == MdevUp /\ \E type \in {"all", "sysref"} : MdevDo(mdev_stream_sync(mdev, mdev.held, type))
MdevSet == MdevUp /\ \E vs \in {<<1>>, <<2, 1>>}, stop \in BOOLEAN : MdevDo(usdr_dme_findsetv_uint(mdev, vs, stop))

MdevInit == mdev = MdevFresh
MdevNext == \/ MdevCreate \/ MdevClose \/ MdevOpen \/ MdevReopen \/ MdevDestroy \/ MdevStart
            \/ MdevRecv \/ MdevSend \/ MdevSync \/ MdevSet

MdevSpec == MdevInit /\ [][MdevNext]_mdev
-----------------------------------------------------------------------------
(* A stream the caller holds is open on every device and kept in the array *)
(* the handle leads to, although the arrays are chosen by an inverted test *)
(* of the name and streams of failed calls stay behind.  Starts, stops and *)
(* syncs pass over a device without a mark: only the first device ever     *)
(* loses its mark, and only to a refused creation for the same object.     *)
MdevHandleWhole ==
    \A sid \in mdev.held : \A i \in MdevDevs :
        /\ sid \in mdev.child[i]
        /\ mdev.real[MdevStr(mdev, sid).type][i]
        /\ MdevStr(mdev, sid).cnt = MdevCnt
        /\ MdevMarked(mdev, sid, i) \/ (i = 1 /\ MdevSlotOf(sid) \in mdev.refused)

(* Without a handle no device of the aggregate is open: whichever step of  *)
(* the creation failed, for whichever device, unless it was the debug      *)
(* service (leak).                                                         *)
MdevNoneLeft ==
    mdev.dm # "up" /\ ~mdev.leak => \A i \in MdevDevs : ~mdev.ll[i] /\ mdev.child[i] = {}

(* An aggregate is whole while it is held, but for the mark a refused      *)
(* creation takes from its first device, and gone when it is not.          *)
MdevWhole == MdevHandleWhole /\ MdevNoneLeft
=============================================================================
