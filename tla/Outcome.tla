------------------------------ MODULE Outcome ------------------------------
(***************************************************************************)
(* The shape of the control code of this library.  A driver function is a  *)
(* sequence of hardware accesses written                                   *)
(*                                                                         *)
(*     res = res ? res : f(d);                                             *)
(*     res = res ? res : g(d);                                             *)
(*                                                                         *)
(* each of which may fail, with what was done before it left in place.     *)
(* Such a function is an operator from the state it is called in to the    *)
(* SET of its outcomes: the state it leaves and whether it returned 0.     *)
(* A state is a record; its field faults is the number of accesses that    *)
(* may still fail, which bounds the failures of one behaviour.             *)
(***************************************************************************)
EXTENDS Naturals, Sequences, FiniteSets, TLC

(* return 0; and return -E...;                                             *)
Ok(s)   == {[s |-> s, ok |-> TRUE]}
Fail(s) == {[s |-> s, ok |-> FALSE]}

(* An access that fails, if the bound allows one more.                     *)
Faulty(s) == IF s.faults = 0 THEN {} ELSE Fail([s EXCEPT !.faults = @ - 1])

(* A hardware access: it takes effect, or fails without one.               *)
Io(s, t) == Ok(t) \cup Faulty(s)

(* Fields of s replaced by those of the record u.                          *)
Upd(s, u) == [x \in DOMAIN s \cup DOMAIN u |-> IF x \in DOMAIN u THEN u[x] ELSE s[x]]

(* A sequence us of accesses with the effect Eff(s, u) each; the first one *)
(* that fails ends it.                                                     *)
RunBy(Eff(_, _), s, us) ==
    LET at[n \in 0..Len(us)] == IF n = 0 THEN s ELSE Eff(at[n - 1], us[n])
    IN  Ok(at[Len(us)]) \cup UNION {Faulty(at[n]) : n \in 0..(Len(us) - 1)}

(* Accesses that set the fields named by the records of us.                *)
Run(s, us) == RunBy(Upd, s, us)

(* res = res ? res : F(s): the next call is made if the ones before it     *)
(* succeeded.                                                              *)
Then(S, F(_)) == UNION {IF o.ok THEN F(o.s) ELSE {o} : o \in S}

(* The next call is made if the one before it failed (a retry).            *)
OrElse(S, F(_)) == UNION {IF o.ok THEN {o} ELSE F(o.s) : o \in S}

(* The next call is made whatever the result of the one before it.         *)
Always(S, F(_)) == UNION {F(o.s) : o \in S}

(* An error path: what F does happens, the call has failed all the same.   *)
Undo(S, F(_)) == OrElse(S, LAMBDA s : {[o EXCEPT !.ok = FALSE] : o \in F(s)})

(* What F does happens in any case; the result is that of the call before. *)
Finally(S, F(_)) == UNION {{[p EXCEPT !.ok = o.ok] : p \in F(o.s)} : o \in S}

(* The result is not looked at.                                            *)
Ignore(S) == {[o EXCEPT !.ok = TRUE] : o \in S}

(* A loop over the sequence es whose body F(s, e) ends it when it fails.   *)
ForEach(s, es, F(_, _)) ==
    LET at[n \in 0..Len(es)] ==
            IF n = 0 THEN Ok(s) ELSE Then(at[n - 1], LAMBDA t : F(t, es[n]))
    IN  at[Len(es)]
=============================================================================
