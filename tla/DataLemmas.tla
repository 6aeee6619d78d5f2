----------------------------- MODULE DataLemmas -----------------------------
(***************************************************************************)
(* What the proofs use of the data of the models: what is in a queue after *)
(* an operation; induction over numbers; and what recursive functions and  *)
(* folds give.  The library's theorems on induction take a predicate as a  *)
(* parameter, which the provers used here cannot instantiate; here the     *)
(* predicate is a set of numbers, and the step of a recursion a function.  *)
(***************************************************************************)
EXTENDS Integers, Sequences, SequencesExt, WellFoundedInduction, TLAPS

-----------------------------------------------------------------------------
(* Queues. *)

\* Append adds one element.
LEMMA AppendRange ==
  ASSUME NEW S, NEW s \in Seq(S), NEW e \in S
  PROVE  /\ Append(s, e) \in Seq(S)
         /\ ToSet(Append(s, e)) = ToSet(s) \cup {e}
<1>1. Append(s, e) \in Seq(S)
  OBVIOUS
<1>2. /\ DOMAIN Append(s, e) = 1 .. Len(s) + 1
      /\ \A i \in 1 .. Len(s) : Append(s, e)[i] = s[i]
      /\ Append(s, e)[Len(s) + 1] = e
      /\ DOMAIN s = 1 .. Len(s) /\ Len(s) \in Nat
  OBVIOUS
<1>3. 1 .. Len(s) + 1 = (1 .. Len(s)) \cup {Len(s) + 1}
  BY <1>2
<1>4. ToSet(Append(s, e)) = ToSet(s) \cup {e}
  BY <1>2, <1>3 DEF ToSet
<1> QED BY <1>1, <1>4

\* Head and Tail share out what was there.
LEMMA TailRange ==
  ASSUME NEW S, NEW s \in Seq(S), s # <<>>
  PROVE  /\ Head(s) \in S /\ Head(s) \in ToSet(s)
         /\ Tail(s) \in Seq(S)
         /\ ToSet(Tail(s)) \subseteq ToSet(s)
<1>1. /\ Len(s) \in Nat \ {0} /\ DOMAIN s = 1 .. Len(s)
      /\ Head(s) = s[1] /\ Tail(s) \in Seq(S)
      /\ DOMAIN Tail(s) = 1 .. Len(s) - 1
      /\ \A i \in 1 .. Len(s) - 1 : Tail(s)[i] = s[i + 1]
  OBVIOUS
<1>2. 1 \in DOMAIN s /\ \A i \in 1 .. Len(s) - 1 : i + 1 \in DOMAIN s
  BY <1>1
<1>3. ToSet(Tail(s)) \subseteq ToSet(s)
  BY <1>1, <1>2 DEF ToSet
<1> QED BY <1>1, <1>2, <1>3 DEF ToSet

\* What was there and is not the head is in the tail.
LEMMA TailCovers ==
  ASSUME NEW S, NEW s \in Seq(S), s # <<>>, NEW e \in ToSet(s)
  PROVE  e = Head(s) \/ e \in ToSet(Tail(s))
<1>1. /\ Len(s) \in Nat \ {0} /\ DOMAIN s = 1 .. Len(s)
      /\ Head(s) = s[1]
      /\ DOMAIN Tail(s) = 1 .. Len(s) - 1
      /\ \A i \in 1 .. Len(s) - 1 : Tail(s)[i] = s[i + 1]
  OBVIOUS
<1>2. PICK i \in 1 .. Len(s) : s[i] = e
  BY <1>1 DEF ToSet
<1>3. CASE i = 1
  BY <1>1, <1>2, <1>3
<1>4. CASE i # 1
  <2>1. i - 1 \in 1 .. Len(s) - 1
    BY <1>1, <1>4
  <2>2. Tail(s)[i - 1] = e
    BY <1>1, <1>2, <2>1
  <2> QED BY <1>1, <2>1, <2>2 DEF ToSet
<1> QED BY <1>3, <1>4

\* A prefix holds nothing new.
LEMMA PrefixRange ==
  ASSUME NEW S, NEW s \in Seq(S), NEW n \in 0 .. Len(s)
  PROVE  /\ SubSeq(s, 1, n) \in Seq(S)
         /\ ToSet(SubSeq(s, 1, n)) \subseteq ToSet(s)
<1>1. /\ SubSeq(s, 1, n) \in Seq(S)
      /\ DOMAIN SubSeq(s, 1, n) = 1 .. n
      /\ \A i \in 1 .. n : SubSeq(s, 1, n)[i] = s[i]
      /\ DOMAIN s = 1 .. Len(s) /\ Len(s) \in Nat
  OBVIOUS
<1>2. 1 .. n \subseteq 1 .. Len(s)
  BY <1>1
<1> QED BY <1>1, <1>2 DEF ToSet

\* The empty queue holds nothing.
LEMMA EmptyRange == ASSUME NEW S PROVE <<>> \in Seq(S) /\ ToSet(<<>>) = {}
BY DEF ToSet

\* A queue of one holds that one.
LEMMA SingleRange == ASSUME NEW e PROVE ToSet(<<e>>) = {e}
BY DEF ToSet

\* A queue of S holds members of S.
LEMMA RangeInside == ASSUME NEW S, NEW s \in Seq(S) PROVE ToSet(s) \subseteq S
BY DEF ToSet

-----------------------------------------------------------------------------
(* Induction and recursion. *)

\* Induction over the natural numbers.
LEMMA SetInduction ==
  ASSUME NEW S, 0 \in S, \A n \in Nat : n \in S => n + 1 \in S
  PROVE  Nat \subseteq S
<1> DEFINE R == {ss \in Nat \X Nat : ss[1] < ss[2]}
           T == Nat \ S
<1> SUFFICES ASSUME T # {} PROVE FALSE
  OBVIOUS
<1>1. IsWellFoundedOn(R, Nat)
  BY NatLessThanWellFounded DEF OpToRel, R
<1>2. T \subseteq Nat
  OBVIOUS
<1> HIDE DEF R, T
<1>3. PICK m \in T : \A y \in T : <<y, m>> \notin R
  BY <1>1, <1>2, WFMin
<1>4. m \in Nat \ {0} /\ m \notin S
  BY <1>3 DEF T
<1>5. m - 1 \in Nat /\ (m - 1) + 1 = m
  BY <1>4
<1>6. m - 1 \in T
  BY <1>4, <1>5 DEF T
<1>7. <<m - 1, m>> \in R
  BY <1>4, <1>5 DEF R, OpToRel
<1> QED BY <1>3, <1>6, <1>7

\* f is defined by recursion: F[n] takes f[n] to f[n + 1].
RecursiveBy(A, a, F, f) ==
  f \in [Nat -> A] /\ f[0] = a /\ \A n \in Nat : f[n + 1] = F[n][f[n]]

\* There is such a function.
LEMMA NatRecursion ==
  ASSUME NEW A, NEW a \in A, NEW F \in [Nat -> [A -> A]]
  PROVE  \E f : RecursiveBy(A, a, F, f)
<1> DEFINE Upto(n, g) == /\ g \in [0 .. n -> A] /\ g[0] = a
                         /\ \A i \in 0 .. n - 1 : g[i + 1] = F[i][g[i]]
           S == {n \in Nat : \E g : Upto(n, g)}
<1>1. 0 \in S
  <2>1. Upto(0, [i \in 0 .. 0 |-> a])
    OBVIOUS
  <2> QED BY <2>1
<1>2. ASSUME NEW n \in Nat, n \in S PROVE n + 1 \in S
  <2>1. PICK g : Upto(n, g)
    BY <1>2
  <2> DEFINE h == [i \in 0 .. n + 1 |-> IF i = n + 1 THEN F[n][g[n]] ELSE g[i]]
  <2>2. \A i \in 0 .. n : g[i] \in A
    BY <2>1
  <2>3. F[n][g[n]] \in A
    BY <2>2
  <2>4. h \in [0 .. n + 1 -> A] /\ h[0] = a
    BY <2>1, <2>2, <2>3
  <2>5. \A i \in 0 .. n : h[i + 1] = F[i][h[i]]
    <3>1. \A i \in 0 .. n - 1 : h[i] = g[i] /\ h[i + 1] = g[i + 1]
      OBVIOUS
    <3>2. h[n] = g[n] /\ h[n + 1] = F[n][g[n]]
      OBVIOUS
    <3>3. \A i \in 0 .. n : i \in 0 .. n - 1 \/ i = n
      OBVIOUS
    <3> HIDE DEF h
    <3>4. \A i \in 0 .. n - 1 : h[i + 1] = F[i][h[i]]
      BY <2>1, <3>1
    <3> QED BY <3>2, <3>3, <3>4
  <2> HIDE DEF h
  <2>6. Upto(n + 1, h) /\ n + 1 \in Nat
    BY <2>4, <2>5
  <2> QED BY <2>6, Zenon
<1>3. Nat \subseteq S
  <2> HIDE DEF S
  <2> QED BY <1>1, <1>2, SetInduction
<1>4. \E H : \A n \in Nat : Upto(n, H[n])
  <2> DEFINE H == [n \in Nat |-> CHOOSE g : Upto(n, g)]
  <2>1. \A n \in Nat : \E g : Upto(n, g)
    BY <1>3
  <2> HIDE DEF Upto
  <2>2. \A n \in Nat : Upto(n, CHOOSE g : Upto(n, g))
    BY <2>1
  <2>3. \A n \in Nat : Upto(n, H[n])
    BY <2>2
  <2> QED BY <2>3
<1>5. PICK H : \A n \in Nat : Upto(n, H[n])
  BY <1>4
<1> DEFINE f == [n \in Nat |-> H[n][n]]
<1>6. ASSUME NEW n \in Nat PROVE H[n + 1][n] = H[n][n]
  <2> DEFINE E == {i \in Nat : i <= n => H[n + 1][i] = H[n][i]}
  <2>0. n + 1 \in Nat
    OBVIOUS
  <2>1. 0 \in E
    BY <1>5, <2>0
  <2>2. ASSUME NEW i \in Nat, i \in E PROVE i + 1 \in E
    <3> SUFFICES ASSUME i + 1 <= n PROVE H[n + 1][i + 1] = H[n][i + 1]
      OBVIOUS
    <3>1. i \in 0 .. n - 1 /\ i \in 0 .. (n + 1) - 1
      OBVIOUS
    <3>2. H[n + 1][i] = H[n][i]
      BY <2>2
    <3>3. H[n][i + 1] = F[i][H[n][i]]
      BY <1>5, <3>1
    <3>4. H[n + 1][i + 1] = F[i][H[n + 1][i]]
      BY <1>5, <2>0, <3>1
    <3> QED BY <3>2, <3>3, <3>4
  <2>3. Nat \subseteq E
    <3> HIDE DEF E
    <3> QED BY <2>1, <2>2, SetInduction
  <2> QED BY <2>3
<1>7. f \in [Nat -> A] /\ f[0] = a
  <2>1. \A n \in Nat : H[n][n] \in A
    BY <1>5
  <2> QED BY <1>5, <2>1
<1>8. ASSUME NEW n \in Nat PROVE f[n + 1] = F[n][f[n]]
  <2>1. n + 1 \in Nat /\ f[n + 1] = H[n + 1][n + 1] /\ f[n] = H[n][n]
    OBVIOUS
  <2>2. H[n + 1][n + 1] = F[n][H[n + 1][n]]
    BY <1>5, <2>1
  <2> QED BY <1>6, <2>1, <2>2
<1> HIDE DEF f
<1> QED BY <1>7, <1>8 DEF RecursiveBy

-----------------------------------------------------------------------------
(* Folds.  FoldLeft takes the positions of a sequence from a set, the last one first. *)

\* The greatest number of an interval, and what is left without it.
LEMMA MaxInterval ==
  ASSUME NEW k \in Nat \ {0}
  PROVE  Max(1 .. k) = k /\ (1 .. k) \ {Max(1 .. k)} = 1 .. k - 1
<1>1. k \in 1 .. k /\ \A y \in 1 .. k : k >= y
  OBVIOUS
<1>2. \A x \in 1 .. k : (\A y \in 1 .. k : x >= y) => x = k
  BY <1>1
<1>3. Max(1 .. k) = k
  BY <1>1, <1>2 DEF Max
<1> QED BY <1>3

\* A set of numbers up to n has a greatest one, if any.
LEMMA MaxOfFinite ==
  ASSUME NEW n \in Nat, NEW s \in SUBSET (1 .. n), s # {}
  PROVE  Max(s) \in s /\ \A y \in s : y <= Max(s)
<1> DEFINE S == {k \in Nat : \A t \in SUBSET (1 .. k) :
                               t # {} => \E x \in t : \A y \in t : x >= y}
<1>1. 0 \in S
  <2>1. \A t \in SUBSET (1 .. 0) : t = {}
    OBVIOUS
  <2> QED BY <2>1
<1>2. ASSUME NEW k \in Nat, k \in S PROVE k + 1 \in S
  <2> SUFFICES ASSUME NEW t \in SUBSET (1 .. k + 1), t # {}
               PROVE  \E x \in t : \A y \in t : x >= y
    OBVIOUS
  <2>1. CASE k + 1 \in t
    BY <2>1
  <2>2. CASE k + 1 \notin t
    <3>1. t \in SUBSET (1 .. k)
      BY <2>2
    <3> QED BY <1>2, <3>1
  <2> QED BY <2>1, <2>2
<1>3. n \in S
  <2> HIDE DEF S
  <2> QED BY <1>1, <1>2, SetInduction
<1>4. \E x \in s : \A y \in s : x >= y
  BY <1>3
<1>5. Max(s) \in s /\ \A y \in s : Max(s) >= y
  BY <1>4, Zenon DEF Max
<1>6. PICK m : m = Max(s)
  OBVIOUS
<1>7. \A y \in s : y \in Nat
  OBVIOUS
<1>8. m \in s /\ \A y \in s : y <= m
  BY <1>5, <1>6, <1>7
<1> QED BY <1>6, <1>8

\* g takes one number after another off a set, the greatest first.
TakesMax(A, a, n, F, g) ==
  /\ g \in [SUBSET (1 .. n) -> A]
  /\ g[{}] = a
  /\ \A s \in SUBSET (1 .. n) : s # {} => g[s] = F[Max(s)][g[s \ {Max(s)}]]

\* The same of a function of which it is not known that its values are in A.
Follows(A, n, F, g) ==
  \A s \in SUBSET (1 .. n) :
    s # {} /\ g[s \ {Max(s)}] \in A => g[s] = F[Max(s)][g[s \ {Max(s)}]]

\* r goes from a through the steps F[1] to F[n] to z.
Runs(A, a, n, F, r, z) ==
  /\ r \in [0 .. n -> A]
  /\ r[0] = a /\ r[n] = z
  /\ \A i \in 1 .. n : r[i] = F[i][r[i - 1]]

\* There is such a function.
LEMMA MaxRecursion ==
  ASSUME NEW A, NEW a \in A, NEW n \in Nat, NEW F \in [Nat -> [A -> A]]
  PROVE  \E g : TakesMax(A, a, n, F, g)
<1> DEFINE D(k) == SUBSET (1 .. k)
           Good(k, g) == /\ g \in [D(k) -> A]
                         /\ g[{}] = a
                         /\ \A s \in D(k) : s # {} => g[s] = F[Max(s)][g[s \ {Max(s)}]]
           S == {k \in Nat : \E g : Good(k, g)}
<1>1. 0 \in S
  <2>1. D(0) = {{}}
    OBVIOUS
  <2>2. Good(0, [s \in D(0) |-> a])
    BY <2>1
  <2> QED BY <2>2
<1>2. ASSUME NEW k \in Nat, k \in S PROVE k + 1 \in S
  <2>1. PICK g : Good(k, g)
    BY <1>2
  <2> DEFINE h == [s \in D(k + 1) |-> IF k + 1 \in s THEN F[k + 1][g[s \ {k + 1}]] ELSE g[s]]
  <2>2. \A s \in D(k + 1) : s \ {k + 1} \in D(k) /\ (k + 1 \notin s => s \in D(k))
    OBVIOUS
  <2>3. \A s \in D(k + 1) : k + 1 \in s => Max(s) = k + 1
    <3> SUFFICES ASSUME NEW s \in D(k + 1), k + 1 \in s PROVE Max(s) = k + 1
      OBVIOUS
    <3>1. k + 1 \in Nat /\ s # {}
      OBVIOUS
    <3>2. Max(s) \in s /\ \A y \in s : y <= Max(s)
      BY <3>1, MaxOfFinite
    <3>3. k + 1 <= Max(s) /\ Max(s) \in 1 .. k + 1
      BY <3>2
    <3> QED BY <3>3
  <2>4. \A s \in D(k) : s # {} => Max(s) \in s
    BY MaxOfFinite
  <2>5. k + 1 \in Nat /\ {} \in D(k + 1) /\ {} \in D(k)
    OBVIOUS
  <2>6. \A s \in D(k) : g[s] \in A
    BY <2>1
  <2>7. \A s \in D(k + 1) : h[s] \in A
    BY <2>2, <2>5, <2>6
  <2>8. h \in [D(k + 1) -> A]
    BY <2>7
  <2>9. h[{}] = a
    BY <2>1, <2>5
  <2>10. ASSUME NEW s \in D(k + 1), s # {} PROVE h[s] = F[Max(s)][h[s \ {Max(s)}]]
    <3>1. CASE k + 1 \in s
      <4>1. Max(s) = k + 1 /\ h[s] = F[k + 1][g[s \ {k + 1}]]
        BY <2>3, <3>1
      <4>2. s \ {k + 1} \in D(k + 1) /\ h[s \ {k + 1}] = g[s \ {k + 1}]
        OBVIOUS
      <4> HIDE DEF h
      <4> QED BY <4>1, <4>2
    <3>2. CASE k + 1 \notin s
      <4>1. s \in D(k) /\ h[s] = g[s]
        BY <2>2, <3>2
      <4>2. Max(s) \in s /\ s \ {Max(s)} \in D(k + 1) /\ k + 1 \notin s \ {Max(s)}
        BY <2>4, <2>10, <3>2, <4>1
      <4>3. h[s \ {Max(s)}] = g[s \ {Max(s)}]
        BY <4>2
      <4>4. g[s] = F[Max(s)][g[s \ {Max(s)}]]
        BY <2>1, <2>10, <4>1
      <4> HIDE DEF h
      <4> QED BY <4>1, <4>3, <4>4
    <3> QED BY <3>1, <3>2
  <2> HIDE DEF h, D
  <2>11. Good(k + 1, h)
    BY <2>8, <2>9, <2>10
  <2> HIDE DEF Good
  <2> QED BY <2>5, <2>11
<1>3. n \in S
  <2> HIDE DEF S
  <2> QED BY <1>1, <1>2, SetInduction
<1>4. PICK g : Good(n, g)
  BY <1>3
<1> QED BY <1>4 DEF TakesMax

\* What such a function gives for the first numbers, one after the other.
LEMMA MaxOrder ==
  ASSUME NEW A, NEW a \in A, NEW n \in Nat, NEW F \in [Nat -> [A -> A]], NEW g,
         g[{}] = a,
         Follows(A, n, F, g)
  PROVE  \E r : Runs(A, a, n, F, r, g[1 .. n])
<1> DEFINE r == [i \in 0 .. n |-> g[1 .. i]]
           S == {i \in Nat : i <= n => g[1 .. i] \in A}
<1>1. ASSUME NEW i \in 1 .. n, g[1 .. i - 1] \in A PROVE g[1 .. i] = F[i][g[1 .. i - 1]]
  <2>1. Max(1 .. i) = i /\ (1 .. i) \ {Max(1 .. i)} = 1 .. i - 1
    BY MaxInterval
  <2>2. 1 .. i \in SUBSET (1 .. n) /\ 1 .. i # {}
    <3>1. i \in 1 .. i /\ \A y \in 1 .. i : y \in 1 .. n
      OBVIOUS
    <3> QED BY <3>1, Zenon
  <2> QED BY <1>1, <2>1, <2>2 DEF Follows
<1>2. g[1 .. 0] = a
  <2>1. 1 .. 0 = {}
    OBVIOUS
  <2> QED BY <2>1
<1>3. 0 \in S
  BY <1>2
<1>4. ASSUME NEW i \in Nat, i \in S PROVE i + 1 \in S
  <2> SUFFICES ASSUME i + 1 <= n PROVE g[1 .. i + 1] \in A
    OBVIOUS
  <2>1. i + 1 \in 1 .. n /\ (i + 1) - 1 = i /\ g[1 .. i] \in A
    BY <1>4
  <2>2. g[1 .. i + 1] = F[i + 1][g[1 .. i]]
    BY <1>1, <2>1
  <2> QED BY <2>1, <2>2
<1>5. \A i \in 0 .. n : g[1 .. i] \in A
  <2>1. Nat \subseteq S
    <3> HIDE DEF S
    <3> QED BY <1>3, <1>4, SetInduction
  <2> QED BY <2>1
<1>6. r \in [0 .. n -> A] /\ r[0] = a /\ r[n] = g[1 .. n]
  BY <1>2, <1>5
<1>7. ASSUME NEW i \in 1 .. n PROVE r[i] = F[i][r[i - 1]]
  <2>1. i - 1 \in 0 .. n /\ i \in 0 .. n
    OBVIOUS
  <2> QED BY <1>1, <1>5, <2>1
<1> HIDE DEF r
<1> QED BY <1>6, <1>7 DEF Runs
=============================================================================
