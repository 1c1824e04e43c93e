--------------------------- MODULE SequenceLemmas ---------------------------
(***************************************************************************)
(* Facts about sequences that the proofs of several modules rest on:       *)
(* sequences joined end to end (FlattenSeq), and what is built up from a   *)
(* sequence step by step.  The induction is over a set of numbers, never   *)
(* over an operator.                                                       *)
(***************************************************************************)
EXTENDS Integers, Sequences, SequencesExt, SequenceTheorems, WellFoundedInduction,
        TLAPS

----------------------------------------------------------------------------
(* Induction.                                                              *)

\* A set of natural numbers that is not empty has a least element.
LEMMA LeastNat ==
  ASSUME NEW T \in SUBSET Nat, T # {}
  PROVE  \E n \in T : \A m \in T : n <= m
<1> DEFINE R == OpToRel(<, Nat)
<1>1. IsWellFoundedOn(R, Nat)
  BY NatLessThanWellFounded, Zenon
<1>2. \A i, j \in Nat : <<i, j>> \in R <=> i < j
  BY DEF OpToRel
<1> HIDE DEF R
<1>3. PICK x \in T : \A y \in T : ~(<<y, x>> \in R)
  BY <1>1, WFMin
<1>4. ASSUME NEW y \in T PROVE ~(y < x)
  <2>1. x \in Nat /\ y \in Nat /\ ~(<<y, x>> \in R)
    BY <1>3
  <2> QED BY <1>2, <2>1, Zenon
<1>5. \A y \in T : x <= y
  BY <1>4
<1> QED BY <1>5

\* Induction: what holds of 0, and of n + 1 when it holds of n, holds of all.
LEMMA SetInduction ==
  ASSUME NEW T, 0 \in T, \A n \in Nat : n \in T => n + 1 \in T
  PROVE  Nat \subseteq T
<1> SUFFICES ASSUME Nat \ T # {} PROVE FALSE
  OBVIOUS
<1>1. PICK n \in Nat \ T : \A m \in Nat \ T : n <= m
  BY LeastNat
<1>2. n - 1 \in Nat
  BY <1>1
<1>3. n - 1 \in T
  BY <1>1, <1>2
<1>4. (n - 1) + 1 \in T
  BY <1>2, <1>3
<1> QED BY <1>1, <1>4

----------------------------------------------------------------------------
(* Sequences joined end to end.                                            *)

\* The function that FlattenSeq is defined with exists.
LEMMA FlattenExists ==
  ASSUME NEW s, Len(s) \in Nat
  PROVE  \E f : f = [i \in 1 .. Len(s) |-> IF i = 1 THEN s[i] ELSE f[i - 1] \o s[i]]
<1> DEFINE Upto(n, f) ==
             f = [i \in 1 .. n |-> IF i = 1 THEN s[i] ELSE f[i - 1] \o s[i]]
           T == {n \in Nat : \E f : Upto(n, f)}
<1>1. 0 \in T
  <2>1. Upto(0, [i \in 1 .. 0 |-> i])
    OBVIOUS
  <2> QED BY <2>1
<1>2. ASSUME NEW n \in Nat, n \in T PROVE n + 1 \in T
  <2>1. PICK f : Upto(n, f)
    BY <1>2
  <2> DEFINE g == [i \in 1 .. n + 1 |-> IF i <= n THEN f[i] ELSE
                                       IF i = 1 THEN s[i] ELSE f[i - 1] \o s[i]]
  <2>2. ASSUME NEW i \in 1 .. n + 1
        PROVE  g[i] = IF i = 1 THEN s[i] ELSE g[i - 1] \o s[i]
    <3>1. CASE i <= n
      <4>1. f[i] = IF i = 1 THEN s[i] ELSE f[i - 1] \o s[i]
        <5>1. i \in 1 .. n
          BY <3>1
        <5> QED BY <2>1, <5>1, Zenon
      <4>2. g[i] = f[i] /\ (i # 1 => g[i - 1] = f[i - 1])
        BY <3>1
      <4> QED BY <4>1, <4>2
    <3>2. CASE i = n + 1
      BY <3>2
    <3> QED BY <3>1, <3>2
  <2>3. Upto(n + 1, g)
    BY <2>2
  <2> HIDE DEF g, Upto
  <2> QED BY <2>3
<1> HIDE DEF T
<1>3. Nat \subseteq T
  BY <1>1, <1>2, SetInduction
<1> QED BY <1>3 DEF T

\* How FlattenSeq is computed: the joins of the first ones, one after another.
LEMMA FlattenSteps ==
  ASSUME NEW s, Len(s) \in Nat \ {0}
  PROVE  \E f : /\ FlattenSeq(s) = f[Len(s)]
               /\ f = [i \in 1 .. Len(s) |-> IF i = 1 THEN s[i] ELSE f[i - 1] \o s[i]]
<1> DEFINE F == CHOOSE f : f = [i \in 1 .. Len(s) |->
                                  IF i = 1 THEN s[i] ELSE f[i - 1] \o s[i]]
<1>1. F = [i \in 1 .. Len(s) |-> IF i = 1 THEN s[i] ELSE F[i - 1] \o s[i]]
  BY FlattenExists
<1>2. FlattenSeq(s) = F[Len(s)]
  BY DEF FlattenSeq
<1> QED BY <1>1, <1>2

\* The same, position by position.
LEMMA FlattenAt ==
  ASSUME NEW s, Len(s) \in Nat \ {0}
  PROVE  \E f : /\ FlattenSeq(s) = f[Len(s)] /\ f[1] = s[1]
               /\ \A i \in 1 .. Len(s) - 1 : f[i + 1] = f[i] \o s[i + 1]
<1>1. PICK f : /\ FlattenSeq(s) = f[Len(s)]
               /\ f = [i \in 1 .. Len(s) |-> IF i = 1 THEN s[i] ELSE f[i - 1] \o s[i]]
  BY FlattenSteps
<1>2. \A i \in 1 .. Len(s) : f[i] = IF i = 1 THEN s[i] ELSE f[i - 1] \o s[i]
  BY <1>1, Zenon
<1>3. f[1] = s[1]
  BY <1>2
<1>4. ASSUME NEW i \in 1 .. Len(s) - 1 PROVE f[i + 1] = f[i] \o s[i + 1]
  <2>1. i + 1 \in 1 .. Len(s) /\ i + 1 # 1 /\ (i + 1) - 1 = i
    OBVIOUS
  <2> QED BY <1>2, <2>1
<1> QED BY <1>1, <1>3, <1>4

\* No sequence, and one.
LEMMA FlattenFew ==
  /\ FlattenSeq(<< >>) = << >>
  /\ \A x : FlattenSeq(<<x>>) = x
<1>1. FlattenSeq(<< >>) = << >>
  BY DEF FlattenSeq
<1>2. ASSUME NEW x PROVE FlattenSeq(<<x>>) = x
  <2> DEFINE s == <<x>>
  <2>1. Len(s) = 1 /\ s[1] = x
    OBVIOUS
  <2> HIDE DEF s
  <2>2. Len(s) \in Nat \ {0}
    BY <2>1
  <2>3. \E f : FlattenSeq(s) = f[Len(s)] /\ f[1] = s[1]
    BY <2>2, FlattenAt
  <2>4. FlattenSeq(s) = x
    BY <2>1, <2>3
  <2> QED BY <2>4 DEF s
<1> QED BY <1>1, <1>2

\* What sequences over a set are joined to is a sequence over it.
LEMMA FlattenType ==
  ASSUME NEW S, NEW s \in Seq(Seq(S))
  PROVE  FlattenSeq(s) \in Seq(S)
<1>1. CASE s = << >>
  <2>1. FlattenSeq(s) = << >>
    BY <1>1, FlattenFew
  <2> QED BY <2>1
<1>2. CASE s # << >>
  <2>1. Len(s) \in Nat \ {0} /\ \A i \in 1 .. Len(s) : s[i] \in Seq(S)
    BY <1>2
  <2>2. PICK f : /\ FlattenSeq(s) = f[Len(s)] /\ f[1] = s[1]
                 /\ \A i \in 1 .. Len(s) - 1 : f[i + 1] = f[i] \o s[i + 1]
    BY <2>1, FlattenAt
  <2> DEFINE T == {n \in Nat : n + 1 <= Len(s) => f[n + 1] \in Seq(S)}
  <2>3. 0 \in T
    BY <2>1, <2>2
  <2>4. ASSUME NEW n \in Nat, n \in T PROVE n + 1 \in T
    <3>1. CASE n + 2 <= Len(s)
      <4>1. n + 1 \in 1 .. Len(s) - 1 /\ (n + 1) + 1 \in 1 .. Len(s)
        BY <2>1, <3>1
      <4>2. f[n + 1] \in Seq(S) /\ s[(n + 1) + 1] \in Seq(S)
        BY <2>1, <2>4, <4>1
      <4>3. f[(n + 1) + 1] = f[n + 1] \o s[(n + 1) + 1]
        BY <2>2, <4>1
      <4>4. f[(n + 1) + 1] \in Seq(S)
        BY <4>2, <4>3, ConcatProperties
      <4> QED BY <4>4
    <3>2. CASE ~(n + 2 <= Len(s))
      BY <2>1, <3>2
    <3> QED BY <3>1, <3>2
  <2> HIDE DEF T
  <2>5. Nat \subseteq T
    BY <2>3, <2>4, SetInduction
  <2>6. Len(s) - 1 \in T /\ (Len(s) - 1) + 1 = Len(s)
    BY <2>1, <2>5
  <2> QED BY <2>1, <2>2, <2>6 DEF T
<1> QED BY <1>1, <1>2

\* One more at the end.
LEMMA FlattenAppend ==
  ASSUME NEW S, NEW s \in Seq(Seq(S)), NEW x \in Seq(S)
  PROVE  FlattenSeq(Append(s, x)) = FlattenSeq(s) \o x
<1> DEFINE t == Append(s, x)
           L == Len(s)
<1>0. /\ Len(t) = L + 1 /\ L \in Nat /\ t[L + 1] = x
      /\ \A i \in 1 .. L : t[i] = s[i]
  BY AppendProperties
<1>1. CASE L = 0
  <2>1. s = << >> /\ t = <<x>>
    BY <1>1
  <2>2. << >> \o x = x
    BY ConcatEmptySeq
  <2> QED BY <2>1, <2>2, FlattenFew
<1>2. CASE L # 0
  <2>1. PICK f : /\ FlattenSeq(s) = f[L] /\ f[1] = s[1]
                 /\ \A i \in 1 .. L - 1 : f[i + 1] = f[i] \o s[i + 1]
    BY <1>0, <1>2, FlattenAt
  <2>2. PICK g : /\ FlattenSeq(t) = g[L + 1] /\ g[1] = t[1]
                 /\ \A i \in 1 .. (L + 1) - 1 : g[i + 1] = g[i] \o t[i + 1]
    <3> HIDE DEF t, L
    <3>1. Len(t) \in Nat \ {0} /\ Len(t) = L + 1
      BY <1>0
    <3> QED BY <3>1, FlattenAt
  <2> HIDE DEF t, L
  <2> DEFINE T == {n \in Nat : n + 1 <= L => g[n + 1] = f[n + 1]}
  <2>3. 0 \in T
    BY <1>0, <1>2, <2>1, <2>2
  <2>4. ASSUME NEW n \in Nat, n \in T PROVE n + 1 \in T
    <3>1. CASE n + 2 <= L
      <4>1. /\ n + 1 \in 1 .. L - 1 /\ n + 1 \in 1 .. (L + 1) - 1
            /\ (n + 1) + 1 \in 1 .. L
        BY <1>0, <3>1
      <4>2. g[n + 1] = f[n + 1] /\ t[(n + 1) + 1] = s[(n + 1) + 1]
        BY <1>0, <2>4, <4>1
      <4>3. g[(n + 1) + 1] = f[(n + 1) + 1]
        BY <2>1, <2>2, <4>1, <4>2
      <4> QED BY <4>3
    <3>2. CASE ~(n + 2 <= L)
      BY <1>0, <3>2
    <3> QED BY <3>1, <3>2
  <2> HIDE DEF T
  <2>5. Nat \subseteq T
    BY <2>3, <2>4, SetInduction
  <2>6. L - 1 \in T /\ (L - 1) + 1 = L
    BY <1>0, <1>2, <2>5
  <2>7. g[L] = f[L] /\ L \in 1 .. (L + 1) - 1
    BY <1>0, <1>2, <2>6 DEF T
  <2>8. FlattenSeq(t) = FlattenSeq(s) \o x
    BY <1>0, <2>1, <2>2, <2>7
  <2> QED BY <2>8 DEF t
<1> QED BY <1>1, <1>2

\* Joining is associative.
LEMMA Associative ==
  ASSUME NEW S, NEW a \in Seq(S), NEW b \in Seq(S), NEW c \in Seq(S)
  PROVE  (a \o b) \o c = a \o (b \o c)
OBVIOUS

\* A slice that agrees with a sequence at every position is that sequence.
LEMMA SliceIs ==
  ASSUME NEW S, NEW R, NEW x \in Seq(S), NEW v \in Seq(R), NEW i \in Nat,
         i + Len(v) <= Len(x), \A k \in 1 .. Len(v) : x[i + k] = v[k]
  PROVE  SubSeq(x, i + 1, i + Len(v)) = v
<1> DEFINE y == SubSeq(x, i + 1, i + Len(v))
<1>1. y \in Seq(S) /\ Len(y) = Len(v) /\ Len(v) \in Nat
  OBVIOUS
<1>2. \A k \in 1 .. Len(v) : y[k] = v[k]
  <2> SUFFICES ASSUME NEW k \in 1 .. Len(v) PROVE y[k] = v[k]
    OBVIOUS
  <2>1. y[k] = x[(i + 1) + k - 1]
    OBVIOUS
  <2> QED BY <2>1
<1> HIDE DEF y
<1>3. y = v
  BY <1>1, <1>2
<1> QED BY <1>3 DEF y

\* Two sequences, one after the other.
LEMMA Joined ==
  ASSUME NEW S, NEW a \in Seq(S), NEW b \in Seq(S)
  PROVE  /\ a \o b \in Seq(S) /\ Len(a \o b) = Len(a) + Len(b)
         /\ \A i \in 1 .. Len(a) : (a \o b)[i] = a[i]
         /\ \A i \in 1 .. Len(b) : (a \o b)[Len(a) + i] = b[i]
OBVIOUS

IsJoin(z, a, b) ==
  /\ Len(z) = Len(a) + Len(b) /\ \A i \in 1 .. Len(a) : z[i] = a[i]
  /\ \A i \in 1 .. Len(b) : z[Len(a) + i] = b[i]

LEMMA JoinedIs ==
  ASSUME NEW S, NEW a \in Seq(S), NEW b \in Seq(S)
  PROVE  IsJoin(a \o b, a, b)
BY Joined DEF IsJoin

LEMMA JoinIs ==
  ASSUME NEW S, NEW a \in Seq(S), NEW b \in Seq(S), NEW z \in Seq(S), IsJoin(z, a, b)
  PROVE  z = a \o b
<1> DEFINE c == a \o b
<1>1. /\ c \in Seq(S) /\ Len(c) = Len(a) + Len(b)
      /\ \A i \in 1 .. Len(a) : c[i] = a[i]
      /\ \A i \in 1 .. Len(b) : c[Len(a) + i] = b[i]
  BY Joined
<1> HIDE DEF c
<1>2. Len(a) \in Nat /\ Len(b) \in Nat /\ Len(z) = Len(a) + Len(b)
  BY DEF IsJoin
<1>3. ASSUME NEW i \in 1 .. Len(z) PROVE z[i] = c[i]
  <2>1. CASE i <= Len(a)
    <3>1. i \in 1 .. Len(a)
      BY <1>2, <2>1
    <3> QED BY <1>1, <3>1 DEF IsJoin
  <2>2. CASE i > Len(a)
    <3>1. i - Len(a) \in 1 .. Len(b) /\ i = Len(a) + (i - Len(a))
      BY <1>2, <2>2
    <3> QED BY <1>1, <3>1 DEF IsJoin
  <2> QED BY <1>2, <2>1, <2>2
<1>4. c \in Seq(S) /\ Len(c) = Len(z)
  BY <1>1, <1>2
<1>5. z = c
  BY <1>3, <1>4, SeqEqual
<1> QED BY <1>5 DEF c

\* A part of a sequence.
LEMMA SubAt ==
  ASSUME NEW S, NEW s \in Seq(S), NEW a \in 1 .. Len(s), NEW b \in a .. Len(s)
  PROVE  /\ SubSeq(s, a, b) \in Seq(S) /\ Len(SubSeq(s, a, b)) = b - a + 1
         /\ \A i \in 1 .. b - a + 1 : SubSeq(s, a, b)[i] = s[a + i - 1]
OBVIOUS

\* A sequence cut short, and the part that follows.
LEMMA CutJoined ==
  ASSUME NEW S, NEW f \in Seq(S), NEW b \in Nat, NEW e \in b + 1 .. Len(f)
  PROVE  /\ SubSeq(f, 1, b) \o SubSeq(f, b + 1, e) = SubSeq(f, 1, e)
         /\ Len(SubSeq(f, b + 1, e)) = e - b
<1> DEFINE x == SubSeq(f, 1, b)
           y == SubSeq(f, b + 1, e)
           z == SubSeq(f, 1, e)
<1>1. x \in Seq(S) /\ Len(x) = b /\ \A i \in 1 .. b : x[i] = f[i]
  OBVIOUS
<1>2. y \in Seq(S) /\ Len(y) = e - b /\ \A i \in 1 .. e - b : y[i] = f[b + i]
  <2>1. b + 1 \in 1 .. Len(f) /\ e \in b + 1 .. Len(f) /\ e - (b + 1) + 1 = e - b
    OBVIOUS
  <2>2. \A i \in 1 .. e - b : (b + 1) + i - 1 = b + i
    OBVIOUS
  <2> QED BY <2>1, <2>2, SubAt
<1>3. z \in Seq(S) /\ Len(z) = e /\ \A i \in 1 .. e : z[i] = f[i]
  OBVIOUS
<1> HIDE DEF x, y, z
<1>4. IsJoin(z, x, y)
  <2>1. Len(z) = Len(x) + Len(y)
    BY <1>1, <1>2, <1>3
  <2>2. \A i \in 1 .. b : z[i] = x[i]
    BY <1>1, <1>3
  <2>3. \A i \in 1 .. e - b : z[b + i] = y[i]
    <3>1. \A i \in 1 .. e - b : b + i \in 1 .. e
      OBVIOUS
    <3> QED BY <1>2, <1>3, <3>1
  <2> QED BY <1>1, <1>2, <2>1, <2>2, <2>3 DEF IsJoin
<1>5. z = x \o y
  BY <1>1, <1>2, <1>3, <1>4, JoinIs
<1> QED BY <1>2, <1>5 DEF x, y, z

\* Two lists of sequences, one after the other.
LEMMA FlattenConcat ==
  ASSUME NEW S, NEW s \in Seq(Seq(S)), NEW t \in Seq(Seq(S))
  PROVE  FlattenSeq(s \o t) = FlattenSeq(s) \o FlattenSeq(t)
<1> DEFINE Q == Seq(S)
           P(u) == FlattenSeq(s \o u) = FlattenSeq(s) \o FlattenSeq(u)
           T == {n \in Nat : \A u \in Seq(Q) : Len(u) = n => P(u)}
<1>1. 0 \in T
  <2> SUFFICES ASSUME NEW u \in Seq(Q), Len(u) = 0 PROVE P(u)
    OBVIOUS
  <2>1. u = << >> /\ s \o << >> = s
    BY ConcatEmptySeq
  <2>2. FlattenSeq(s) \o << >> = FlattenSeq(s)
    BY FlattenType, ConcatEmptySeq
  <2> QED BY <2>1, <2>2, FlattenFew
<1>2. ASSUME NEW n \in Nat, n \in T PROVE n + 1 \in T
  <2> SUFFICES ASSUME NEW u \in Seq(Q), Len(u) = n + 1 PROVE P(u)
    OBVIOUS
  <2> DEFINE v == SubSeq(u, 1, n)
             x == u[n + 1]
  <2>1. v \in Seq(Q) /\ Len(v) = n /\ x \in Seq(S)
    OBVIOUS
  <2>2. u = Append(v, x)
    OBVIOUS
  <2> HIDE DEF v, x
  <2>3. P(v)
    BY <1>2, <2>1
  <2>4. s \o u = Append(s \o v, x) /\ s \o v \in Seq(Q)
    <3> HIDE DEF Q
    <3>1. s \in Seq(Q) /\ x \in Q
      BY <2>1 DEF Q
    <3> QED BY <2>1, <2>2, <3>1
  <2>5. FlattenSeq(s \o u) = FlattenSeq(s \o v) \o x
    BY <2>1, <2>4, FlattenAppend
  <2>6. FlattenSeq(u) = FlattenSeq(v) \o x
    BY <2>1, <2>2, FlattenAppend
  <2>7. FlattenSeq(s) \in Seq(S) /\ FlattenSeq(v) \in Seq(S)
    BY <2>1, FlattenType
  <2>8. (FlattenSeq(s) \o FlattenSeq(v)) \o x = FlattenSeq(s) \o (FlattenSeq(v) \o x)
    <3> DEFINE a == FlattenSeq(s)
               b == FlattenSeq(v)
    <3>1. a \in Seq(S) /\ b \in Seq(S) /\ x \in Seq(S)
      BY <2>1, <2>7
    <3> HIDE DEF a, b, Q, T
    <3>2. (a \o b) \o x = a \o (b \o x)
      BY <3>1, Associative
    <3> QED BY <3>2 DEF a, b
  <2> QED BY <2>3, <2>5, <2>6, <2>8
<1> HIDE DEF T
<1>3. Nat \subseteq T
  BY <1>1, <1>2, SetInduction
<1>4. Len(t) \in T /\ t \in Seq(Q)
  BY <1>3
<1> HIDE DEF P
<1>5. P(t)
  BY <1>4 DEF T
<1> QED BY <1>5 DEF P

\* The joins of the first ones, from none to all: each goes on where the one
\* before it ends, and all of them are beginnings of the last.
Joins(S, s, f) ==
  /\ f \in [0 .. Len(s) -> Seq(S)] /\ f[0] = << >> /\ f[Len(s)] = FlattenSeq(s)
  /\ \A i \in 1 .. Len(s) : f[i] = f[i - 1] \o s[i]
  /\ \A i \in 0 .. Len(s) : /\ Len(f[i]) <= Len(f[Len(s)])
                            /\ \A k \in 1 .. Len(f[i]) : f[Len(s)][k] = f[i][k]

LEMMA FlattenPieces ==
  ASSUME NEW S, NEW s \in Seq(Seq(S))
  PROVE  \E f : Joins(S, s, f)
<1> DEFINE n == Len(s)
           Q == Seq(S)
           f == [i \in 0 .. n |-> FlattenSeq(SubSeq(s, 1, i))]
<1>0. n \in Nat /\ s \in Seq(Q) /\ \A i \in 1 .. n : s[i] \in Q
  OBVIOUS
<1>1. ASSUME NEW i \in 0 .. n PROVE SubSeq(s, 1, i) \in Seq(Q) /\ f[i] = FlattenSeq(SubSeq(s, 1, i))
  <2> HIDE DEF Q
  <2> QED BY <1>0
<1>2. f \in [0 .. n -> Q]
  <2>1. ASSUME NEW i \in 0 .. n PROVE FlattenSeq(SubSeq(s, 1, i)) \in Seq(S)
    <3> DEFINE t == SubSeq(s, 1, i)
    <3>1. t \in Seq(Seq(S))
      BY <1>1
    <3> HIDE DEF t
    <3>2. FlattenSeq(t) \in Seq(S)
      BY <3>1, FlattenType
    <3> QED BY <3>2 DEF t
  <2> QED BY <2>1
<1>3. f[0] = << >> /\ f[n] = FlattenSeq(s)
  <2>1. SubSeq(s, 1, 0) = << >> /\ SubSeq(s, 1, n) = s
    BY <1>0
  <2>2. 0 \in 0 .. n /\ n \in 0 .. n
    BY <1>0
  <2> QED BY <1>1, <2>1, <2>2, FlattenFew
<1>4. ASSUME NEW i \in 1 .. n PROVE f[i] = f[i - 1] \o s[i]
  <2> DEFINE t == SubSeq(s, 1, i - 1)
             x == s[i]
  <2>1. i - 1 \in 0 .. n /\ i \in 0 .. n
    BY <1>0
  <2>2. t \in Seq(Seq(S)) /\ x \in Seq(S) /\ f[i - 1] = FlattenSeq(t)
    BY <1>0, <1>1, <2>1
  <2>3. SubSeq(s, 1, i) = Append(t, x)
    <3> HIDE DEF Q
    <3> QED BY <1>0
  <2> HIDE DEF t, x
  <2>4. FlattenSeq(Append(t, x)) = FlattenSeq(t) \o x
    BY <2>2, FlattenAppend
  <2> QED BY <1>1, <2>1, <2>2, <2>3, <2>4 DEF x
<1> HIDE DEF f, n
<1> DEFINE Begins(i, j) == Len(f[i]) <= Len(f[j]) /\ \A k \in 1 .. Len(f[i]) : f[j][k] = f[i][k]
           T == {d \in Nat : \A i \in 0 .. n : i + d <= n => Begins(i, i + d)}
<1>5. 0 \in T
  <2> SUFFICES ASSUME NEW i \in 0 .. n PROVE Begins(i, i + 0)
    OBVIOUS
  <2>1. Len(f[i]) \in Nat /\ i + 0 = i
    BY <1>0, <1>2
  <2> QED BY <2>1
<1>6. ASSUME NEW d \in Nat, d \in T PROVE d + 1 \in T
  <2> SUFFICES ASSUME NEW i \in 0 .. n, i + (d + 1) <= n PROVE Begins(i, i + (d + 1))
    OBVIOUS
  <2>1. Begins(i, i + d)
    <3> HIDE DEF Begins
    <3> QED BY <1>0, <1>6
  <2>2. /\ i + (d + 1) \in 1 .. n /\ (i + (d + 1)) - 1 = i + d /\ i + d \in 0 .. n
    BY <1>0
  <2> DEFINE a == f[i + d]
             b == s[i + (d + 1)]
             c == f[i]
  <2>3. a \in Seq(S) /\ b \in Seq(S) /\ c \in Seq(S) /\ f[i + (d + 1)] = a \o b
    BY <1>0, <1>2, <1>4, <2>2
  <2>4. Len(c) <= Len(a) /\ \A k \in 1 .. Len(c) : a[k] = c[k]
    BY <2>1
  <2> HIDE DEF a, b, c
  <2>5. Len(c) <= Len(a \o b) /\ \A k \in 1 .. Len(c) : (a \o b)[k] = c[k]
    BY <2>3, <2>4
  <2> QED BY <2>3, <2>5 DEF c
<1> HIDE DEF T
<1>7. Nat \subseteq T
  BY <1>5, <1>6, SetInduction
<1>8. ASSUME NEW i \in 0 .. n PROVE Begins(i, n)
  <2>1. n - i \in Nat /\ i + (n - i) = n
    BY <1>0
  <2> HIDE DEF Begins
  <2> QED BY <1>7, <2>1 DEF T
<1>9. /\ f[0] = << >> /\ f[n] = FlattenSeq(s) /\ \A i \in 1 .. n : f[i] = f[i - 1] \o s[i]
      /\ \A i \in 0 .. n : /\ Len(f[i]) <= Len(f[n])
                           /\ \A k \in 1 .. Len(f[i]) : f[n][k] = f[i][k]
  BY <1>3, <1>4, <1>8
<1>10. Joins(S, s, f)
  BY <1>2, <1>9 DEF n, Joins
<1> QED BY <1>10

\* Where each of them is in the whole.
Placed(s, o) ==
  /\ o \in [0 .. Len(s) -> Nat] /\ o[0] = 0 /\ o[Len(s)] = Len(FlattenSeq(s))
  /\ \A i \in 1 .. Len(s) :
       /\ o[i] = o[i - 1] + Len(s[i]) /\ o[i] <= Len(FlattenSeq(s))
       /\ \A k \in 1 .. Len(s[i]) : FlattenSeq(s)[o[i - 1] + k] = s[i][k]

LEMMA Offsets ==
  ASSUME NEW S, NEW s \in Seq(Seq(S))
  PROVE  \E o : Placed(s, o)
<1>a. PICK f : Joins(S, s, f)
  BY FlattenPieces
<1> DEFINE n == Len(s)
           x == FlattenSeq(s)
<1>0. n \in Nat /\ \A i \in 1 .. n : s[i] \in Seq(S)
  OBVIOUS
<1>1. /\ f \in [0 .. n -> Seq(S)] /\ f[0] = << >> /\ f[n] = x
      /\ \A i \in 1 .. n : f[i] = f[i - 1] \o s[i]
      /\ \A i \in 0 .. n :
           /\ Len(f[i]) <= Len(f[n])
           /\ \A k \in 1 .. Len(f[i]) : f[n][k] = f[i][k]
  BY <1>a DEF Joins
<1> HIDE DEF n, x
<1> DEFINE o == [i \in 0 .. n |-> Len(f[i])]
<1>2. \A i \in 0 .. n : o[i] = Len(f[i]) /\ o[i] \in Nat
  <2> SUFFICES ASSUME NEW i \in 0 .. n PROVE o[i] = Len(f[i]) /\ o[i] \in Nat
    OBVIOUS
  <2>1. f[i] \in Seq(S)
    BY <1>1
  <2> QED BY <2>1
<1>3. o \in [0 .. n -> Nat] /\ 0 \in 0 .. n /\ n \in 0 .. n
  BY <1>0, <1>2
<1> HIDE DEF o
<1>4. o[0] = 0 /\ o[n] = Len(x)
  BY <1>1, <1>2, <1>3
<1>5. ASSUME NEW i \in 1 .. n
      PROVE  /\ o[i] = o[i - 1] + Len(s[i]) /\ o[i] <= Len(x)
             /\ \A k \in 1 .. Len(s[i]) : x[o[i - 1] + k] = s[i][k]
  <2> DEFINE a == f[i - 1]
             b == s[i]
  <2>1. i - 1 \in 0 .. n /\ i \in 0 .. n
    BY <1>0
  <2>2. /\ a \in Seq(S) /\ b \in Seq(S) /\ f[i] = a \o b
        /\ o[i] = Len(a \o b) /\ o[i - 1] = Len(a)
    BY <1>0, <1>1, <1>2, <2>1
  <2>3. o[i] <= Len(x) /\ \A k \in 1 .. Len(a \o b) : x[k] = (a \o b)[k]
    BY <1>1, <1>2, <2>1, <2>2
  <2> HIDE DEF a, b
  <2>4. o[i] = o[i - 1] + Len(b) /\ Len(a) \in Nat /\ Len(b) \in Nat
    BY <2>2
  <2>5. ASSUME NEW k \in 1 .. Len(b) PROVE x[Len(a) + k] = b[k]
    <3>1. Len(a) + k \in 1 .. Len(a \o b) /\ (a \o b)[Len(a) + k] = b[k]
      BY <2>2
    <3> QED BY <2>3, <3>1
  <2> QED BY <2>2, <2>3, <2>4, <2>5 DEF b
<1>6. Placed(s, o)
  BY <1>3, <1>4, <1>5 DEF n, x, Placed
<1> QED BY <1>6

=============================================================================
