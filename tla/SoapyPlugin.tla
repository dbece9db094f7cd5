----------------------------- MODULE SoapyPlugin -----------------------------
(***************************************************************************)
(* The SoapySDR plug-in (soapysdr/usdr_soapy.cpp) over the public stream   *)
(* calls of models/dm_stream.c.                                            *)
(*                                                                         *)
(* Several plug-in objects (SoapyObjs) may be made for one device; they    *)
(* share a handle through a table of weak references.  Each object has a   *)
(* receive and a transmit stream and its own copies of the settings.  A    *)
(* read of another size than the packets of the stream goes through a      *)
(* jitter buffer.  Samples are numbered by the device.                     *)
(***************************************************************************)
EXTENDS Outcome

CONSTANTS SoapyFaults, SoapyCalls,  \* bounds on failed calls of the library and on calls
          SoapyObjs,                \* plug-in objects
          SoapyPkt,                 \* pktsyms
          SoapyJitter,              \* stands for the 16 packets of a jitter buffer
          SoapySizes,               \* numElems of reads
          SoapyAfe,                 \* the device is an AFE79XX
          SoapyWord                 \* stands for 2^32

(* Packets and jitter buffers hold samples.                                *)
ASSUME SoapyAssumption ==
    /\ SoapyAfe \in BOOLEAN /\ SoapyWord \in Nat \ {0} /\ SoapyPkt \in Nat \ {0} /\ SoapyJitter \in Nat \ {0} /\ SoapySizes \subseteq Nat
    /\ SoapyFaults \in Nat /\ SoapyCalls \in Nat

VARIABLE soapy

SoapyDirs == {"rx", "tx"}
SoapyNoStream == [setup |-> FALSE, active |-> FALSE, strm |-> FALSE, jit |-> 0, w |-> 0, r |-> 0, next |-> 0]
SoapySettings == {"gain", "freq", "bw", "clk"}
SoapyNoObj == [h |-> 0, rate |-> 0, set |-> [k \in SoapySettings |-> 0], st |-> [d \in SoapyDirs |-> SoapyNoStream]]

(* reg is the entry of the device in s_created (0: none), dev what each    *)
(* handle opened: streams, the settings it accepted, samples received.     *)
SoapyFresh ==
    [faults |-> SoapyFaults, calls |-> SoapyCalls, reg |-> 0, again |-> FALSE, big |-> FALSE, bad |-> FALSE,
     obj |-> [i \in SoapyObjs |-> SoapyNoObj], dev |-> <<>>]

SoapyUsers(s, h) == {i \in SoapyObjs : s.obj[i].h = h}
SoapySt(s, i, d) == s.obj[i].st[d]
SoapyH(s, i) == s.obj[i].h
-----------------------------------------------------------------------------
(* dm_stream.c: the device refuses a stream that is open.                  *)
usdr_dms_create_ex(s, i, d) ==
    IF d \in s.dev[SoapyH(s, i)].open THEN Fail(s)
    ELSE Io(s, [s EXCEPT !.dev[SoapyH(s, i)].open = @ \cup {d}, !.obj[i].st[d].strm = TRUE])

usdr_dms_destroy(s, i, d) == [s EXCEPT !.dev[SoapyH(s, i)].open = @ \ {d}]

usdr_dms_call(s) == Io(s, s)       \* usdr_dms_info, usdr_dms_sync, usdr_dms_op

(* usdr_dms_recv: the next packet, or a timeout.                           *)
usdr_dms_recv(s, i) == Io(s, [s EXCEPT !.dev[SoapyH(s, i)].n = @ + SoapyPkt])
-----------------------------------------------------------------------------
(* usdr_handle::get: the handle of the table if it is still alive.         *)
(* std::map::insert leaves an entry alone that is there already, so after  *)
(* the first handle expired no other one is ever found again.              *)
usdr_handle_get(s, i) ==
    IF s.reg # 0 /\ SoapyUsers(s, s.reg) # {} THEN Ok([s EXCEPT !.obj[i].h = s.reg])
    ELSE LET h == Len(s.dev) + 1
         IN  Io(s, [s EXCEPT !.dev = Append(@, [up |-> TRUE, open |-> {}, n |-> 0, rate |-> 0, acc |-> [k \in SoapySettings |-> {0}]]),
                             !.obj[i].h = h, !.again = s.reg # 0,
                             !.reg = IF @ = 0 THEN h ELSE @])

(* The destructor drops the handle; the last one closes the device with    *)
(* what is open.                                                           *)
SoapyUSDR_destroy(s, i) ==
    LET h == SoapyH(s, i)
        t == [s EXCEPT !.obj[i] = SoapyNoObj]
    IN  IF SoapyUsers(t, h) # {} THEN t ELSE [t EXCEPT !.dev[h].up = FALSE, !.dev[h].open = {}]

(* The rate is noted before the device accepts it, the other settings      *)
(* after.                                                                  *)
SoapyUSDR_setSampleRate(s, i, v) ==
    LET t == [s EXCEPT !.obj[i].rate = v] IN Io(t, [t EXCEPT !.dev[SoapyH(t, i)].rate = v])

(* mutant: a setting is noted before the device accepts it.                *)
NotedFirst(s, i, k, v, note) ==
    LET t == [s EXCEPT !.obj[i].set[k] = note] IN Io(t, [t EXCEPT !.dev[SoapyH(t, i)].acc[k] = @ \cup {v}])

(* The gain of one amplifier, the frequency (one cell for RF and BB), the  *)
(* bandwidth and the clock source are noted once the device took them.     *)
SoapyUSDR_setUint(s, i, k, v, note) ==
    Io(s, [s EXCEPT !.dev[SoapyH(s, i)].acc[k] = @ \cup {v}, !.obj[i].set[k] = note])
SoapyUSDR_setGain(s, i, v) == SoapyUSDR_setUint(s, i, "gain", v, v)
SoapyUSDR_setBandwidth(s, i, v) == IF v = 0 THEN Ok(s) ELSE SoapyUSDR_setUint(s, i, "bw", v, v)
SoapyUSDR_setClockSource(s, i, v) == SoapyUSDR_setUint(s, i, "clk", v, v)

(* The word of channel c: 32 bits of the frequency, the channel above.     *)
SoapyChans == 0..3
SoapyFreqWord(c, f) == c * SoapyWord + (f % SoapyWord)

(* The word is noted for every device; an AFE79XX is sent the frequency.   *)
SoapyUSDR_setFrequency(s, i, c, f) ==
    SoapyUSDR_setUint(s, i, "freq", IF SoapyAfe THEN f ELSE SoapyFreqWord(c, f), SoapyFreqWord(c, f))

(* mutant: the stream is destroyed and still known.                        *)
CloseKeepsStream(s, i, d) ==
    LET t == IF SoapySt(s, i, d).strm THEN usdr_dms_destroy(s, i, d) ELSE s
    IN  [t EXCEPT !.obj[i].st[d].jit = 0, !.obj[i].st[d].setup = FALSE]

(* closeStream: active is left as it was.                                  *)
SoapyUSDR_closeStream(s, i, d) ==
    LET t == IF SoapySt(s, i, d).strm THEN usdr_dms_destroy(s, i, d) ELSE s
    IN  [t EXCEPT !.obj[i].st[d].strm = FALSE, !.obj[i].st[d].jit = 0, !.obj[i].st[d].setup = FALSE]

(* A step that fails throws: what was done before it stays.                *)
SoapyUSDR_setupStream(s, i, d) ==
    LET st == SoapySt(s, i, d)
    IN  IF st.setup /\ st.active THEN Fail(s)
        ELSE Then(usdr_dms_create_ex(IF st.setup THEN SoapyUSDR_closeStream(s, i, d) ELSE s, i, d), LAMBDA t :
             Then(usdr_dms_call(t), LAMBDA u :
             Then(IF u.obj[i].rate = 0 THEN SoapyUSDR_setSampleRate(u, i, 1) ELSE Ok(u), LAMBDA v :
             Then(usdr_dms_call(v), LAMBDA w :
             Then(Ignore(usdr_dms_call(w)), LAMBDA x :
                  Ok([x EXCEPT !.obj[i].st[d].setup = TRUE, !.obj[i].st[d].next = x.dev[SoapyH(x, i)].n]))))))

SoapyUSDR_activateStream(s, i, d) ==
    Then(usdr_dms_call(s), LAMBDA t : Ok([t EXCEPT !.obj[i].st[d].active = TRUE]))

SoapyUSDR_deactivateStream(s, i, d) == Ok([s EXCEPT !.obj[i].st[d].active = FALSE])

(* n samples handed to the caller from the sample numbered at on.          *)
SoapyGive(s, i, at, n) ==
    [s EXCEPT !.bad = @ \/ at # SoapySt(s, i, "rx").next, !.obj[i].st.rx.next = at + n]

(* The size of a jitter buffer for reads of n: doubled until it holds two. *)
SoapyBlk(n) ==
    LET sz[k \in 0..n] == IF k = 0 THEN SoapyPkt * SoapyJitter
                          ELSE IF sz[k - 1] < 2 * n THEN 2 * sz[k - 1] ELSE sz[k - 1]
    IN  sz[n]

(* Packets are received behind one another until the read is satisfied;    *)
(* the space is not looked at, and a read larger than the buffer (big)     *)
(* finds its start overwritten.  A timeout leaves what was received.       *)
SoapyBuffered(s, i, n) ==
    LET Need(t) == SoapySt(t, i, "rx").w - SoapySt(t, i, "rx").r < n
        Recv(t) == IF ~Need(t) THEN Ok(t)
                   ELSE Then(usdr_dms_recv(t, i), LAMBDA u : Ok([u EXCEPT !.obj[i].st.rx.w = @ + SoapyPkt]))
        Loop[k \in 0..n] == IF k = 0 THEN Ok(s) ELSE Then(Loop[k - 1], Recv)
        Read(t) == LET st == SoapySt(t, i, "rx")
                   IN  Ok([SoapyGive(t, i, IF st.w - st.r > st.jit THEN st.w - st.jit ELSE st.r, n)
                               EXCEPT !.obj[i].st.rx.r = st.r + n])
    IN  Then(Loop[n], Read)

(* mutant: a read of one packet goes around the buffer.                    *)
ReadAround(s, i, n) ==
    LET st == SoapySt(s, i, "rx")
        at == s.dev[SoapyH(s, i)].n
        made == [s EXCEPT !.obj[i].st.rx.jit = SoapyBlk(n), !.obj[i].st.rx.w = at, !.obj[i].st.rx.r = at]
        t == IF st.jit # 0 THEN s ELSE made
    IN  IF n = SoapyPkt THEN Then(usdr_dms_recv(s, i), LAMBDA u : Ok(SoapyGive(u, i, at, n)))
        ELSE SoapyBuffered([t EXCEPT !.big = @ \/ n + SoapyPkt > SoapySt(t, i, "rx").jit + 1], i, n)

(* readStream: once made, the buffer is used for every read of the stream. *)
SoapyUSDR_readStream(s, i, n) ==
    LET st == SoapySt(s, i, "rx")
        at == s.dev[SoapyH(s, i)].n
        made == [s EXCEPT !.obj[i].st.rx.jit = SoapyBlk(n), !.obj[i].st.rx.w = at, !.obj[i].st.rx.r = at]
        t == IF st.jit # 0 THEN s ELSE made
    IN  IF st.jit = 0 /\ n = SoapyPkt
        THEN Then(usdr_dms_recv(s, i), LAMBDA u : Ok(SoapyGive(u, i, at, n)))
        ELSE SoapyBuffered([t EXCEPT !.big = @ \/ n + SoapyPkt > SoapySt(t, i, "rx").jit + 1], i, n)

(* writeStream: one packet, no state of the stream.                        *)
SoapyUSDR_writeStream(s, i) == usdr_dms_call(s)
-----------------------------------------------------------------------------
SoapyInit == soapy = SoapyFresh

SoapyCall(S) == soapy.calls > 0 /\ \E o \in S : soapy' = [o.s EXCEPT !.calls = @ - 1]
SoapyMade(i) == SoapyH(soapy, i) # 0

SoapyMake(i) == ~SoapyMade(i) /\ SoapyCall(usdr_handle_get(soapy, i))
SoapyUnmake(i) == SoapyMade(i) /\ SoapyCall(Ok(SoapyUSDR_destroy(soapy, i)))
SoapyRate(i) == SoapyMade(i) /\ SoapyCall(SoapyUSDR_setSampleRate(soapy, i, 2))
SoapySet(i) ==
    SoapyMade(i) /\ \E v \in 1..2 :
        \/ SoapyCall(SoapyUSDR_setGain(soapy, i, v))
        \/ \E c \in 0..1, wide \in 0..1 : SoapyCall(SoapyUSDR_setFrequency(soapy, i, c, v + wide * SoapyWord))
        \/ SoapyCall(SoapyUSDR_setBandwidth(soapy, i, v - 1)) \/ SoapyCall(SoapyUSDR_setClockSource(soapy, i, v))
SoapySetup(i, d) == SoapyMade(i) /\ SoapyCall(SoapyUSDR_setupStream(soapy, i, d))
SoapyClose(i, d) ==
    SoapyMade(i) /\ SoapySt(soapy, i, d).setup /\ SoapyCall(Ok(SoapyUSDR_closeStream(soapy, i, d)))
SoapyActivate(i, d) == SoapySt(soapy, i, d).setup /\ SoapyCall(SoapyUSDR_activateStream(soapy, i, d))
SoapyDeactivate(i, d) == SoapySt(soapy, i, d).setup /\ SoapyCall(SoapyUSDR_deactivateStream(soapy, i, d))

(* A read of a stream that is not active waits until it is.                *)
SoapyRead(i) ==
    /\ SoapySt(soapy, i, "rx").setup /\ SoapySt(soapy, i, "rx").active
    /\ \E n \in SoapySizes : SoapyCall(SoapyUSDR_readStream(soapy, i, n))
SoapyWrite(i) == SoapySt(soapy, i, "tx").setup /\ SoapyCall(SoapyUSDR_writeStream(soapy, i))

SoapyNext ==
    \E i \in SoapyObjs :
        \/ SoapyMake(i) \/ SoapyUnmake(i) \/ SoapyRate(i) \/ SoapySet(i) \/ SoapyRead(i) \/ SoapyWrite(i)
        \/ \E d \in SoapyDirs : SoapySetup(i, d) \/ SoapyClose(i, d) \/ SoapyActivate(i, d) \/ SoapyDeactivate(i, d)

SoapySpec == SoapyInit /\ [][SoapyNext]_soapy
-----------------------------------------------------------------------------
(* The samples of successive reads of a stream follow one another without  *)
(* a gap or a repetition, whatever sizes are asked for, across the change  *)
(* to the jitter buffer and across timeouts, as long as no read was larger *)
(* than the buffer.                                                        *)
SoapyInOrder == ~soapy.big => ~soapy.bad

(* A stream an object believes to have is open in the device, and is not   *)
(* that of another object; the device is open.                             *)
SoapyStreamsLive ==
    \A i \in SoapyObjs : SoapyMade(i) =>
        /\ soapy.dev[SoapyH(soapy, i)].up
        /\ \A d \in SoapyDirs : LET st == SoapySt(soapy, i, d) IN
             /\ st.setup => st.strm
             /\ st.strm => /\ d \in soapy.dev[SoapyH(soapy, i)].open
                           /\ \A j \in SoapyUsers(soapy, SoapyH(soapy, i)) \ {i} : ~SoapySt(soapy, j, d).strm

(* What is reported for a setting the device accepted as v: the value      *)
(* itself, but for an AFE79XX the frequency's lower word, some channel     *)
(* above it.                                                               *)
SoapyStands(k, r, v) ==
    IF k = "freq" /\ SoapyAfe THEN \E c \in SoapyChans : r = SoapyFreqWord(c, v) ELSE r = v
SoapyReports(set, acc) == \A k \in SoapySettings : \E v \in acc[k] : SoapyStands(k, set[k], v)

(* A setting an object reports stands for one that the device accepted,    *)
(* and until a device is opened for the second time all objects share one  *)
(* handle.                                                                 *)
SoapyReportsTrue ==
    /\ \A i \in SoapyObjs : SoapyMade(i) => SoapyReports(soapy.obj[i].set, soapy.dev[SoapyH(soapy, i)].acc)
    /\ ~soapy.again => \A i, j \in SoapyObjs :
           SoapyMade(i) /\ SoapyMade(j) => SoapyH(soapy, i) = SoapyH(soapy, j)

(* Objects of the plug-in and the device agree: streams and settings.      *)
SoapyHandles == SoapyStreamsLive /\ SoapyReportsTrue
=============================================================================
