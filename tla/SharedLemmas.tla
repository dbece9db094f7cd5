---------------------------- MODULE SharedLemmas ----------------------------
(***************************************************************************)
(* Lemmas that several proofs use.  A ring of N slots is addressed by      *)
(* free-running indices taken modulo N; what it holds is a window of at    *)
(* most N consecutive indices.  A loop of a driver (ForEach of Outcome) is *)
(* a recursive function over its rounds.                                   *)
(***************************************************************************)
EXTENDS Integers, Sequences, SequenceTheorems, WellFoundedInduction, TLAPS

\* Two indices less than N apart lie in different slots: what
\* ring_buffer_at computes is injective on any window of N indices.
LEMMA SlotInjective ==
    ASSUME NEW N \in Nat \ {0}, NEW a \in Nat, NEW b \in Nat,
           a < b, b - a < N
    PROVE  a % N # b % N
<1> DEFINE qa == a \div N
           qb == b \div N
<1>1. /\ qa \in Nat /\ a % N \in 0..N-1 /\ a = N * qa + (a % N)
      /\ qb \in Nat /\ b % N \in 0..N-1 /\ b = N * qb + (b % N)
  OBVIOUS
<1> HIDE DEF qa, qb
<1>2. SUFFICES ASSUME a % N = b % N PROVE FALSE
  OBVIOUS
<1>3. b - a = N * (qb - qa)
  BY <1>1, <1>2
<1>4. CASE qb <= qa
  <2>1. N * (qb - qa) <= 0
    BY <1>1, <1>4
  <2> QED BY <1>3, <2>1
<1>5. CASE qb >= qa + 1
  <2>1. N * (qb - qa) >= N
    BY <1>1, <1>5
  <2> QED BY <1>3, <2>1
<1> QED BY <1>1, <1>4, <1>5

\* Quotient and remainder.
LEMMA DivMod ==
    ASSUME NEW M \in Nat \ {0}, NEW a \in Nat
    PROVE  a \div M \in Nat /\ a % M \in 0..M-1 /\ a = M * (a \div M) + (a % M)
OBVIOUS

LEMMA NoWrap ==
    ASSUME NEW M \in Nat \ {0}, NEW a \in 0..M-1 PROVE a % M = a
OBVIOUS

\* Quotient and remainder are determined by what they are.
LEMMA DivModUnique ==
    ASSUME NEW N \in Nat \ {0}, NEW q \in Nat, NEW r \in 0..N-1
    PROVE  (N * q + r) \div N = q /\ (N * q + r) % N = r
<1> DEFINE x == N * q + r
           d == x \div N
           s == x % N
<1>1. x \in Nat
  OBVIOUS
<1>2. d \in Int /\ s \in 0..N-1 /\ x = N * d + s /\ x = N * q + r
  BY <1>1
<1> HIDE DEF x, d, s
<1>3. r - s = N * (d - q)
  <2>1. N * (d - q) = N * d - N * q /\ N * d \in Int /\ N * q \in Int
    BY <1>2
  <2> QED BY <1>2, <2>1
<1>4. CASE d - q = 0
  BY <1>2, <1>3, <1>4 DEF x, d, s
<1>5. CASE d - q >= 1
  <2>1. N * (d - q) >= N
    BY <1>2, <1>5
  <2> QED BY <1>2, <1>3, <2>1
<1>6. CASE d - q <= -1
  <2>1. N * (d - q) <= -N
    BY <1>2, <1>6
  <2> QED BY <1>2, <1>3, <2>1
<1> QED BY <1>2, <1>4, <1>5, <1>6

\* A remainder stays the same when multiples of N are added.
LEMMA ModMultiple ==
    ASSUME NEW N \in Nat \ {0}, NEW x \in Nat, NEW q \in Nat
    PROVE  (x + N * q) % N = x % N
<1> DEFINE y == x + N * q
           qx == x \div N
           qy == y \div N
           rx == x % N
           ry == y % N
<1>0. y \in Nat
  OBVIOUS
<1>1. /\ qx \in Int /\ rx \in 0..N-1 /\ x = N * qx + rx
      /\ qy \in Int /\ ry \in 0..N-1 /\ y = N * qy + ry
      /\ y = x + N * q
  BY <1>0
<1> HIDE DEF y, qx, qy, rx, ry
<1>2. ry - rx = N * (q - qy + qx)
  <2>1. N * (q - qy + qx) = N * q - N * qy + N * qx
    BY <1>1
  <2>2. N * q \in Int /\ N * qy \in Int /\ N * qx \in Int
    BY <1>1
  <2> QED BY <1>0, <1>1, <2>1, <2>2
<1>3. CASE q - qy + qx = 0
  BY <1>1, <1>2, <1>3 DEF y, rx, ry
<1>4. CASE q - qy + qx >= 1
  <2>1. N * (q - qy + qx) >= N
    BY <1>1, <1>4
  <2> QED BY <1>1, <1>2, <2>1
<1>5. CASE q - qy + qx <= -1
  <2>1. N * (q - qy + qx) <= -N
    BY <1>1, <1>5
  <2> QED BY <1>1, <1>2, <2>1
<1> QED BY <1>1, <1>3, <1>4, <1>5

\* Reducing an index before adding to it makes no difference.
LEMMA ModAdd ==
    ASSUME NEW N \in Nat \ {0}, NEW a \in Nat, NEW k \in Nat
    PROVE  ((a % N) + k) % N = (a + k) % N
<1> DEFINE r == a % N
           q == a \div N
<1>1. q \in Nat /\ r \in Nat /\ a = r + N * q
  OBVIOUS
<1> HIDE DEF r, q
<1>2. r + k \in Nat
  BY <1>1
<1>3. ((r + k) + N * q) % N = (r + k) % N
  BY <1>1, <1>2, ModMultiple
<1>4. (r + k) + N * q = a + k
  BY <1>1
<1> QED BY <1>3, <1>4 DEF r

\* The n packets that follow packet number a, in order.
Numbered(a, n) == [k \in 1..n |-> a + k]

LEMMA NumberedSeq ==
    ASSUME NEW a \in Nat, NEW n \in Nat
    PROVE  Numbered(a, n) \in Seq(Nat) /\ Len(Numbered(a, n)) = n
BY DEF Numbered

\* A window grows at its end by the packet that follows.
LEMMA NumberedAppend ==
    ASSUME NEW a \in Nat, NEW n \in Nat
    PROVE  Numbered(a, n + 1) = Append(Numbered(a, n), a + n + 1)
BY DEF Numbered

\* A window shrinks at its front by the packet after a.
LEMMA NumberedTail ==
    ASSUME NEW a \in Nat, NEW n \in Nat, n > 0
    PROVE  /\ Numbered(a, n) # << >>
           /\ Head(Numbered(a, n)) = a + 1
           /\ Numbered(a + 1, n - 1) = Tail(Numbered(a, n))
<1> DEFINE w == Numbered(a, n)
           v == Numbered(a + 1, n - 1)
<1>1. /\ w \in Seq(Nat) /\ Len(w) = n
      /\ v \in Seq(Nat) /\ Len(v) = n - 1
      /\ \A k \in 1..n : w[k] = a + k
      /\ \A k \in 1..(n - 1) : v[k] = a + 1 + k
  BY NumberedSeq DEF Numbered
<1> HIDE DEF w, v
<1>2. w # << >> /\ Head(w) = a + 1
  BY <1>1
<1>3. /\ Tail(w) \in Seq(Nat) /\ Len(Tail(w)) = n - 1
      /\ \A k \in 1..(n - 1) : Tail(w)[k] = w[k + 1]
  BY <1>1, <1>2, HeadTailProperties
<1>4. \A k \in 1..(n - 1) : Tail(w)[k] = v[k]
  BY <1>1, <1>3
<1>5. v = Tail(w)
  BY <1>1, <1>3, <1>4, SeqEqual
<1> QED BY <1>2, <1>5 DEF w, v

\* A product grows with its factor.
LEMMA TimesGrows ==
    ASSUME NEW a \in Nat, NEW b \in Nat, NEW k \in Nat, a <= b
    PROVE  k * a \in Nat /\ k * b \in Nat /\ k * a <= k * b
<1>1. k * b = k * a + k * (b - a) /\ b - a \in Nat
  OBVIOUS
<1>2. k * (b - a) \in Nat /\ k * a \in Nat
  BY <1>1
<1> QED
  BY <1>1, <1>2

\* A nonempty set of naturals has a least element.
LEMMA LeastElement ==
    ASSUME NEW T \in SUBSET Nat, T # {}
    PROVE  \E x \in T : \A y \in T : x <= y
<1> DEFINE R == OpToRel(<, Nat)
<1>1. IsWellFoundedOn(R, Nat)
  BY NatLessThanWellFounded
<1>2. \A x, y \in Nat : x < y => <<x, y>> \in R
  BY DEF OpToRel
<1> HIDE DEF R
<1>3. PICK x \in T : \A y \in T : ~ (<<y, x>> \in R)
  BY <1>1, WFMin
<1>4. \A y \in T : ~ (y < x)
  BY <1>2, <1>3
<1> QED
  BY <1>3, <1>4

\* What holds at 0 and is handed on from one number to the next.
LEMMA UpTo ==
    ASSUME NEW N \in Nat, NEW Q, 0 \in Q, \A n \in 1..N : n - 1 \in Q => n \in Q
    PROVE  \A n \in 0..N : n \in Q
<1> SUFFICES ASSUME NEW m \in 0..N, m \notin Q PROVE FALSE
  OBVIOUS
<1> DEFINE Bad == {n \in 0..N : n \notin Q}
<1>1. Bad \in SUBSET Nat /\ Bad # {}
  OBVIOUS
<1>2. PICK x \in Bad : \A y \in Bad : x <= y
  <2> HIDE DEF Bad
  <2> QED BY <1>1, LeastElement
<1>3. x \in 1..N /\ x \notin Q
  BY <1>2
<1>4. x - 1 \in 0..N /\ x - 1 \notin Bad
  BY <1>2, <1>3
<1> QED
  BY <1>3, <1>4

\* f is the values of a recursion over 0..N that starts with a and goes on by G.
RecIs(f, N, a, W, G) ==
    /\ f = [n \in 0..N |-> IF n = 0 THEN a ELSE G[n][f[n - 1]]]
    /\ \A n \in 0..N : f[n] \in W[n]

\* A recursion whose n-th step takes values of W[n - 1] to values of W[n] is
\* defined.
LEMMA RecDefined ==
    ASSUME NEW N \in Nat, NEW a, NEW W, NEW G, a \in W[0],
           \A n \in 1..N : \A x \in W[n - 1] : G[n][x] \in W[n]
    PROVE  \E f : RecIs(f, N, a, W, G)
<1> DEFINE Is(f, m) == /\ f = [n \in 0..m |-> IF n = 0 THEN a ELSE G[n][f[n - 1]]]
                       /\ \A n \in 0..m : f[n] \in W[n]
           Q == {m \in 0..N : \E f : Is(f, m)}
<1>1. 0 \in Q
  <2> DEFINE f == [n \in 0..0 |-> a]
  <2>1. Is(f, 0)
    OBVIOUS
  <2>2. 0 \in 0..N
    OBVIOUS
  <2> HIDE DEF Is, f
  <2> QED BY <2>1, <2>2
<1>2. ASSUME NEW m \in 1..N, m - 1 \in Q PROVE m \in Q
  <2>1. PICK f : Is(f, m - 1)
    BY <1>2
  <2> DEFINE x == G[m][f[m - 1]]
             g == [n \in 0..m |-> IF n = m THEN x ELSE f[n]]
  <2>2. m - 1 \in 0..(m - 1) /\ m \in 0..m /\ m # 0
    OBVIOUS
  <2>3. x \in W[m]
    BY <2>1, <2>2
  <2> HIDE DEF x
  <2>4. \A n \in 0..m : n # m => n \in 0..(m - 1) /\ (n # 0 => n - 1 \in 0..m /\ n - 1 # m)
    OBVIOUS
  <2>5. \A n \in 0..(m - 1) : f[n] = (IF n = 0 THEN a ELSE G[n][f[n - 1]]) /\ f[n] \in W[n]
    BY <2>1
  <2>6. m - 1 \in 0..m /\ m - 1 # m
    OBVIOUS
  <2>7. ASSUME NEW n \in 0..m
        PROVE  g[n] = (IF n = 0 THEN a ELSE G[n][g[n - 1]]) /\ g[n] \in W[n]
    <3>1. CASE n = m
      <4>1. g[n] = x /\ g[n - 1] = f[m - 1]
        BY <2>6, <3>1
      <4> QED BY <2>2, <2>3, <3>1, <4>1 DEF x
    <3>2. CASE n # m
      <4>1. g[n] = f[n] /\ (n # 0 => g[n - 1] = f[n - 1])
        BY <2>4, <3>2
      <4> HIDE DEF g
      <4> QED BY <2>4, <2>5, <3>2, <4>1
    <3> QED BY <3>1, <3>2
  <2>8. g = [n \in 0..m |-> g[n]]
    OBVIOUS
  <2> HIDE DEF g
  <2>9. Is(g, m)
    BY <2>7, <2>8
  <2>10. m \in 0..N
    OBVIOUS
  <2> HIDE DEF Is
  <2> QED BY <2>9, <2>10
<1> HIDE DEF Q
<1>3. N \in Q
  <2>1. N \in 0..N
    OBVIOUS
  <2> QED BY <1>1, <1>2, <2>1, UpTo
<1> QED BY <1>3 DEF Q, RecIs

\* f is the outcomes after each round of a loop that goes from S0 by G.
LoopIs(f, N, S0, V, G) ==
    /\ f = [n \in 0..N |-> IF n = 0 THEN S0 ELSE G[n][f[n - 1]]]
    /\ \A n \in 0..N : f[n] \in SUBSET V[n]

\* A loop whose n-th round takes outcomes of V[n - 1] to outcomes of V[n] is
\* defined.
LEMMA LoopDefined ==
    ASSUME NEW N \in Nat, NEW S0, NEW V, NEW G, S0 \subseteq V[0],
           \A n \in 1..N : \A X \in SUBSET V[n - 1] : G[n][X] \in SUBSET V[n]
    PROVE  \E f : LoopIs(f, N, S0, V, G)
<1> DEFINE W == [n \in 0..N |-> SUBSET V[n]]
<1>1. \A n \in 0..N : W[n] = SUBSET V[n]
  OBVIOUS
<1> HIDE DEF W
<1>2. S0 \in W[0]
  <2>1. 0 \in 0..N
    OBVIOUS
  <2> QED BY <1>1, <2>1
<1>3. ASSUME NEW n \in 1..N, NEW X \in W[n - 1] PROVE G[n][X] \in W[n]
  <2>1. n \in 0..N /\ n - 1 \in 0..N
    OBVIOUS
  <2>2. X \in SUBSET V[n - 1]
    BY <1>1, <2>1
  <2>3. G[n][X] \in SUBSET V[n]
    BY <2>2
  <2> QED BY <1>1, <2>1, <2>3
<1>4. PICK f : RecIs(f, N, S0, W, G)
  BY <1>2, <1>3, RecDefined
<1>5. \A n \in 0..N : f[n] \in SUBSET V[n]
  BY <1>1, <1>4 DEF RecIs
<1>6. LoopIs(f, N, S0, V, G)
  BY <1>4, <1>5, Zenon DEF RecIs, LoopIs
<1> QED BY <1>6

\* What a loop returns lies in V[N].
LEMMA LoopBound ==
    ASSUME NEW N \in Nat, NEW f, NEW V, f[0] \subseteq V[0],
           \A n \in 1..N : f[n - 1] \subseteq V[n - 1] => f[n] \subseteq V[n]
    PROVE  f[N] \subseteq V[N]
<1> DEFINE Q == {n \in 0..N : f[n] \subseteq V[n]}
<1>1. 0 \in Q
  OBVIOUS
<1>2. \A n \in 1..N : n - 1 \in Q => n \in Q
  OBVIOUS
<1>3. N \in 0..N
  OBVIOUS
<1> HIDE DEF Q
<1>4. N \in Q
  BY <1>1, <1>2, <1>3, UpTo
<1> QED BY <1>4 DEF Q
=============================================================================
