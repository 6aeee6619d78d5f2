-------------------------- MODULE PathPolicyProofs --------------------------
(***************************************************************************)
(* Rules that come later decide nothing that was decided, in any policy;   *)
(* matching a pattern finds what the pattern stands for, whatever pattern  *)
(* and path; and clients are told by the answers they got.                 *)
(***************************************************************************)
EXTENDS Subscriptions, DataLemmas, SequenceTheorems, TLAPS

-----------------------------------------------------------------------------
(* Rules. *)

\* The rules are a sequence of rules.
THEOREM TypeCorrect == Spec => []TypeOK
<1>1. Init => TypeOK
  BY DEF Init, TypeOK
<1>2. TypeOK /\ [Next]_rules => TypeOK'
  <2> SUFFICES ASSUME TypeOK, Next PROVE TypeOK'
    BY DEF TypeOK
  <2>1. PICK n \in 0..MaxSegments :
          \E rule \in Rule([1..n -> PatternSegment]) : AddRule(rule)
    BY DEF Next
  <2>2. PICK rule \in Rule([1..n -> PatternSegment]) : AddRule(rule)
    BY <2>1
  <2>3. rule \in Rule(Seq(PatternSegment))
    <3>1. rule.pattern \in [1..n -> PatternSegment] /\ n \in Nat
      BY <2>1, ConstantsOK DEF Rule
    <3>2. rule.pattern \in Seq(PatternSegment)
      BY <3>1
    <3> QED BY <3>2 DEF Rule
  <2> QED BY <2>2, <2>3 DEF AddRule, TypeOK
<1> QED BY <1>1, <1>2, PTL DEF Spec

\* Where some rule applies, the same rule decides before and after a rule is added
\* that no priority puts in front (policy.rs: the sort is stable and by priority).
LEMMA SameRuleDecides ==
  ASSUME TypeOK, NEW rule \in Rule(Seq(PatternSegment)), AddRule(rule),
         NEW actor \in Actor, NEW path \in Path,
         Applicable(actor, path) # {},
         \A i \in DOMAIN rules : rules[i].priority <= rule.priority
  PROVE  Deciding(actor, path)' = Deciding(actor, path)
<1> DEFINE A == Applicable(actor, path)
<1>0. PICK n \in Nat : n = Len(rules)
  BY DEF TypeOK
<1>1. /\ n \in Nat /\ DOMAIN rules = 1..n /\ DOMAIN rules' = 1..(n + 1)
      /\ rules'[n + 1] = rule /\ \A i \in 1..n : rules'[i] = rules[i]
  <2>1. rules \in Seq(Rule(Seq(PatternSegment))) /\ rules' = Append(rules, rule)
    BY DEF TypeOK, AddRule
  <2>2. Len(rules') = Len(rules) + 1 /\ rules' \in Seq(Rule(Seq(PatternSegment)))
    BY <2>1
  <2> QED BY <1>0, <2>1, <2>2
<1>2. \A i \in 1..n : rules[i].priority \in Nat
  <2>1. \A i \in 1..n : rules[i] \in Rule(Seq(PatternSegment))
    BY <1>0 DEF TypeOK
  <2> QED BY <2>1, ConstantsOK DEF Rule
<1>3. rule.priority \in Nat /\ \A i \in 1..n : rules[i].priority <= rule.priority
  BY <1>1, ConstantsOK DEF Rule
<1>4. A \subseteq 1..n /\ A' \subseteq 1..(n + 1)
  BY <1>1 DEF Applicable
<1>5. \A i \in 1..n : i \in A' <=> i \in A
  BY <1>1 DEF Applicable
<1>6. \A i, j \in 1..n : Before(i, j)' <=> Before(i, j)
  BY <1>1 DEF Before
<1>7. \A i \in 1..n : Before(i, n + 1)' /\ ~Before(n + 1, i)'
  <2> SUFFICES ASSUME NEW i \in 1..n PROVE Before(i, n + 1)' /\ ~Before(n + 1, i)'
    OBVIOUS
  <2>1. rules'[i].priority <= rules'[n + 1].priority
    BY <1>1, <1>3
  <2>2. rules'[i].priority \in Nat /\ rules'[n + 1].priority \in Nat
    BY <1>1, <1>2, <1>3
  <2> QED BY <1>1, <2>1, <2>2 DEF Before
<1>8. ASSUME NEW i \in Deciding(actor, path)' PROVE i \in Deciding(actor, path)
  <2>1. i \in A' /\ \A j \in A' : i = j \/ Before(i, j)'
    BY <1>8 DEF Deciding
  <2>2. i \in 1..n
    <3>1. PICK j \in A : TRUE
      OBVIOUS
    <3>2. j \in 1..n /\ j \in A'
      BY <1>4, <1>5, <3>1
    <3>3. i = j \/ i # n + 1
      BY <1>7, <2>1, <3>2
    <3> QED BY <1>1, <1>4, <2>1, <3>2, <3>3
  <2> QED BY <1>4, <1>5, <1>6, <2>1, <2>2 DEF Deciding
<1>9. ASSUME NEW i \in Deciding(actor, path) PROVE i \in Deciding(actor, path)'
  <2>1. i \in A /\ i \in 1..n /\ \A j \in A : i = j \/ Before(i, j)
    BY <1>4, <1>9 DEF Deciding
  <2>2. ASSUME NEW j \in A' PROVE i = j \/ Before(i, j)'
    <3>1. CASE j \in 1..n
      BY <1>5, <1>6, <2>1, <2>2, <3>1
    <3>2. CASE j = n + 1
      BY <1>7, <2>1, <3>2
    <3> QED BY <1>1, <1>4, <2>2, <3>1, <3>2
  <2> QED BY <1>5, <2>1, <2>2 DEF Deciding
<1> QED BY <1>8, <1>9

\* No rule that comes after the others takes a decision from them: policies can be
\* extended at the end without reading what they say (policy.rs: evaluate).
THEOREM LaterRulesDecideNothing == Spec => LaterRulesYield
<1>1. TypeOK /\ [Next]_rules =>
        [\A actor \in Actor, path \in Path :
           /\ Applicable(actor, path) # {}
           /\ \A i \in DOMAIN rules : rules[i].priority <= rules'[Len(rules')].priority
           => Allowed(actor, path)' = Allowed(actor, path)]_rules
  <2> SUFFICES ASSUME TypeOK, Next, NEW actor \in Actor, NEW path \in Path,
                      Applicable(actor, path) # {},
                      \A i \in DOMAIN rules :
                        rules[i].priority <= rules'[Len(rules')].priority
               PROVE  Allowed(actor, path)' = Allowed(actor, path)
    OBVIOUS
  <2>1. PICK n \in 0..MaxSegments :
          \E rule \in Rule([1..n -> PatternSegment]) : AddRule(rule)
    BY DEF Next
  <2>2. PICK rule \in Rule([1..n -> PatternSegment]) : AddRule(rule)
    BY <2>1
  <2>3. rule \in Rule(Seq(PatternSegment))
    <3>1. rule.pattern \in [1..n -> PatternSegment] /\ n \in Nat
      BY <2>1, ConstantsOK DEF Rule
    <3>2. rule.pattern \in Seq(PatternSegment)
      BY <3>1
    <3> QED BY <3>2 DEF Rule
  <2>4. rules' = Append(rules, rule) /\ rules'[Len(rules')] = rule
    BY <2>2, <2>3 DEF AddRule, TypeOK
  <2>5. Deciding(actor, path)' = Deciding(actor, path)
    BY <2>2, <2>3, <2>4, SameRuleDecides
  <2>6. \A i \in Deciding(actor, path) : rules'[i] = rules[i]
    BY <2>3, <2>4 DEF Deciding, Applicable, TypeOK
  <2> QED BY <2>5, <2>6 DEF Allowed
<1> QED BY <1>1, TypeCorrect, PTL DEF Spec, LaterRulesYield

-----------------------------------------------------------------------------
(* Patterns. *)

\* What a pattern's matching is, given that of the shorter patterns.
Matching(p, M) ==
  [s \in Segments |->
     IF p = <<>> \/ s = <<>> THEN p = s \/ p = <<Deep>>
     ELSE IF Head(p) = Deep
          THEN \E i \in Takes(s) : M[SubSeq(s, i + 1, Len(s))]
          ELSE Head(p) \in {Star, Head(s)} /\ M[Tail(s)]]

\* There is one function that matches as the code's recursion does.
LEMMA MatchesExists == Matches = [p \in Segments |-> Matching(p, Matches[Tail(p)])]
<1> DEFINE B == [Segments -> BOOLEAN]
           A == [Segments -> B]
           F == [n \in Nat |-> [M \in A |-> [p \in Segments |-> IF p = <<>> THEN Matching(p, M[p]) ELSE Matching(p, M[Tail(p)])]]]
           a == [p \in Segments |-> [s \in Segments |-> FALSE]]
<1>1. a \in A /\ F \in [Nat -> [A -> A]]
  <2>1. \A p, M : Matching(p, M) \in B
    BY DEF Matching
  <2> HIDE DEF B
  <2>2. \A M \in A : [p \in Segments |-> IF p = <<>> THEN Matching(p, M[p]) ELSE Matching(p, M[Tail(p)])] \in A
    BY <2>1
  <2>3. a \in A
    BY DEF B
  <2> QED BY <2>2, <2>3
<1>2. PICK f : RecursiveBy(A, a, F, f)
  <2> HIDE DEF A, a, F
  <2> QED BY <1>1, NatRecursion
<1>3. \A n \in Nat, p \in Segments : p # <<>> => f[n + 1][p] = Matching(p, f[n][Tail(p)])
  <2> SUFFICES ASSUME NEW n \in Nat, NEW p \in Segments, p # <<>> PROVE f[n + 1][p] = Matching(p, f[n][Tail(p)])
    OBVIOUS
  <2>1. PICK M \in A : M = f[n]
    BY <1>2 DEF RecursiveBy
  <2>2. f[n + 1] = F[n][M]
    BY <1>2, <2>1 DEF RecursiveBy
  <2> HIDE DEF A
  <2> QED BY <2>1, <2>2
<1> DEFINE g == [p \in Segments |-> f[Len(p) + 1][p]]
<1>4. \A p \in Segments : p # <<>> => Tail(p) \in Segments /\ Len(p) \in Nat /\ Len(Tail(p)) + 1 = Len(p)
  BY DEF Segments
<1>5. \A p \in Segments : g[p] = Matching(p, g[Tail(p)])
  <2> SUFFICES ASSUME NEW p \in Segments PROVE g[p] = Matching(p, g[Tail(p)])
    OBVIOUS
  <2>1. CASE p = <<>>
    <3>1. Len(p) = 0 /\ g[p] = f[1][p]
      BY <2>1
    <3>2. PICK M \in A : M = f[0]
      BY <1>2 DEF RecursiveBy
    <3>3. f[1] = F[0][M]
      <4>1. f[0 + 1] = F[0][f[0]]
        BY <1>2 DEF RecursiveBy
      <4> HIDE DEF F
      <4> QED BY <3>2, <4>1
    <3>4. f[1][p] = Matching(p, M[p])
      <4> HIDE DEF A
      <4> QED BY <2>1, <3>2, <3>3
    <3>5. \A x, y : Matching(p, x) = Matching(p, y)
      BY <2>1 DEF Matching
    <3> HIDE DEF g
    <3> QED BY <3>1, <3>4, <3>5
  <2>2. CASE p # <<>>
    <3>1. f[Len(p) + 1][p] = Matching(p, f[Len(p)][Tail(p)])
      BY <1>3, <1>4, <2>2
    <3>2. g[Tail(p)] = f[Len(p)][Tail(p)]
      BY <1>4, <2>2
    <3> QED BY <3>1, <3>2
  <2> QED BY <2>1, <2>2
<1> HIDE DEF g
<1>6. g = [p \in Segments |-> Matching(p, g[Tail(p)])]
  <2>1. g = [p \in Segments |-> g[p]]
    BY DEF g
  <2> QED BY <1>5, <2>1
<1>7. Matches = CHOOSE M : M = [p \in Segments |-> Matching(p, M[Tail(p)])]
  BY Zenon DEF Matches, Matching
<1> QED BY <1>6, <1>7, Zenon

\* One step of matching.
LEMMA MatchesStep ==
  ASSUME NEW p \in Segments, NEW s \in Segments
  PROVE  Matches[p][s] <=>
           IF p = <<>> \/ s = <<>> THEN p = s \/ p = <<Deep>>
           ELSE IF Head(p) = Deep
                THEN \E i \in 0 .. Len(s) : Matches[Tail(p)][SubSeq(s, i + 1, Len(s))]
                ELSE Head(p) \in {Star, Head(s)} /\ Matches[Tail(p)][Tail(s)]
<1>1. Matches[p] = Matching(p, Matches[Tail(p)])
  BY MatchesExists
<1> QED BY <1>1 DEF Matching, Takes

\* A pattern without segments stands for the empty path.
LEMMA CoversNone == ASSUME NEW s \in Segments PROVE Covers(<<>>, s) <=> s = <<>>
<1>1. Len(s) \in Nat /\ (Len(s) = 0 <=> s = <<>>) /\ Len(<<>>) = 0
  BY DEF Segments
<1>2. ASSUME Covers(<<>>, s) PROVE Len(s) = 0
  BY <1>1, <1>2 DEF Covers
<1>3. ASSUME Len(s) = 0 PROVE Covers(<<>>, s)
  <2> DEFINE upto == [j \in 0 .. 0 |-> 0]
  <2>1. upto \in [0 .. 0 -> 0 .. 0] /\ upto[0] = 0
    OBVIOUS
  <2> HIDE DEF upto
  <2>2. \A i \in 1 .. 0 : FALSE
    OBVIOUS
  <2> QED BY <1>1, <1>3, <2>1, <2>2 DEF Covers
<1> QED BY <1>1, <1>2, <1>3

\* Ways to share out are not taken back: a later part of the pattern takes what is left.
LEMMA SharesGrow ==
  ASSUME NEW n \in Nat, NEW m \in Nat, NEW upto \in [0 .. n -> 0 .. m],
         \A i \in 1 .. n : upto[i] >= upto[i - 1]
  PROVE  \A i \in 1 .. n : upto[i] >= upto[1]
<1> DEFINE S == {i \in Nat : i + 1 <= n => upto[i + 1] >= upto[1]}
<1>0. \A i \in 0 .. n : upto[i] \in Nat
  OBVIOUS
<1>1. 0 \in S
  BY <1>0
<1>2. ASSUME NEW i \in Nat, i \in S PROVE i + 1 \in S
  <2> SUFFICES ASSUME (i + 1) + 1 <= n PROVE upto[(i + 1) + 1] >= upto[1]
    OBVIOUS
  <2>1. (i + 1) + 1 \in 1 .. n /\ ((i + 1) + 1) - 1 = i + 1 /\ i + 1 \in 0 .. n /\ 1 \in 0 .. n
    OBVIOUS
  <2>2. upto[(i + 1) + 1] >= upto[i + 1] /\ upto[i + 1] >= upto[1]
    BY <1>2, <2>1
  <2>3. upto[(i + 1) + 1] \in Nat /\ upto[i + 1] \in Nat /\ upto[1] \in Nat
    BY <1>0, <2>1
  <2> QED BY <2>2, <2>3
<1>3. Nat \subseteq S
  <2> HIDE DEF S
  <2> QED BY <1>1, <1>2, SetInduction
<1>4. \A i \in 1 .. n : i - 1 \in Nat /\ (i - 1) + 1 = i /\ i <= n
  OBVIOUS
<1> QED BY <1>3, <1>4

\* The first part of a pattern takes i of the path's segments.
FirstTakes(p, s, i) ==
  \/ Head(p) = Deep
  \/ Head(p) # Deep /\ i = 1 /\ Head(p) \in {Star, Head(s)}

\* What is left when i segments are taken.
LEMMA RestIs ==
  ASSUME NEW s \in Segments, NEW i \in 0 .. Len(s)
  PROVE  /\ SubSeq(s, i + 1, Len(s)) \in Segments
         /\ Len(SubSeq(s, i + 1, Len(s))) = Len(s) - i
         /\ \A k \in 1 .. Len(s) - i : SubSeq(s, i + 1, Len(s))[k] = s[i + k]
<1>1. /\ s \in Seq(Name \cup {Star, Deep}) /\ Len(s) \in Nat /\ DOMAIN s = 1 .. Len(s)
      /\ i \in Nat /\ i <= Len(s)
  BY DEF Segments
<1>2. i + 1 \in Int /\ Len(s) \in Int /\ \A k \in i + 1 .. Len(s) : s[k] \in Name \cup {Star, Deep}
  BY <1>1
<1> DEFINE t == SubSeq(s, i + 1, Len(s))
<1>4. /\ t \in Seq(Name \cup {Star, Deep})
      /\ Len(t) = IF i + 1 <= Len(s) THEN Len(s) - (i + 1) + 1 ELSE 0
      /\ \A k \in 1 .. Len(s) - (i + 1) + 1 : t[k] = s[(i + 1) + k - 1]
  BY <1>2, SubSeqProperties
<1> HIDE DEF t
<1>5. Len(t) = Len(s) - i
  <2>1. CASE i = Len(s)
    BY <1>1, <1>4, <2>1
  <2>2. CASE i + 1 <= Len(s)
    <3>1. Len(s) - (i + 1) + 1 = Len(s) - i
      BY <1>1
    <3>2. Len(t) = Len(s) - (i + 1) + 1
      <4>1. PICK a \in Nat : a = Len(s)
        BY <1>1
      <4> QED BY <1>4, <2>2
    <3> QED BY <3>1, <3>2
  <2>3. i = Len(s) \/ i + 1 <= Len(s)
    <3>1. PICK a \in Nat : a = Len(s)
      BY <1>1
    <3>2. i \in Nat /\ i <= a
      BY <1>1, <3>1
    <3>3. i = a \/ i + 1 <= a
      BY <3>2
    <3> QED BY <3>1, <3>3
  <2> QED BY <2>1, <2>2, <2>3
<1>6. \A k \in 1 .. Len(s) - i : k \in 1 .. Len(s) - (i + 1) + 1 /\ (i + 1) + k - 1 = i + k
  BY <1>1
<1> QED BY <1>4, <1>5, <1>6 DEF Segments, t

\* A pattern stands for what its first part takes and its rest stands for.
LEMMA CoversStep ==
  ASSUME NEW p \in Segments, p # <<>>, NEW s \in Segments
  PROVE  Covers(p, s) <=> \E i \in 0 .. Len(s) :
                            FirstTakes(p, s, i) /\ Covers(Tail(p), SubSeq(s, i + 1, Len(s)))
<1> DEFINE n == Len(p)
           m == Len(s)
           q == Tail(p)
           t(i) == SubSeq(s, i + 1, m)
<1>1. /\ n \in Nat \ {0} /\ m \in Nat /\ q \in Segments /\ Len(q) = n - 1
      /\ p[1] = Head(p) /\ \A i \in 1 .. n - 1 : q[i] = p[i + 1]
  BY DEF Segments
<1>2. m # 0 => Head(s) = s[1]
  BY DEF Segments
<1>3. \A i \in 0 .. m : Len(t(i)) = m - i /\ \A k \in 1 .. m - i : t(i)[k] = s[i + k]
  BY RestIs
<1> HIDE DEF n, m, q, t
<1>4. ASSUME Covers(p, s)
      PROVE  \E i \in 0 .. m : FirstTakes(p, s, i) /\ Covers(q, t(i))
  <2>1. PICK upto \in [0 .. n -> 0 .. m] :
          /\ upto[0] = 0 /\ upto[n] = m
          /\ \A i \in 1 .. n :
               \/ p[i] = Deep /\ upto[i] >= upto[i - 1]
               \/ /\ p[i] # Deep /\ upto[i] = upto[i - 1] + 1
                  /\ p[i] \in {Star, s[upto[i]]}
    BY <1>4 DEF Covers, n, m
  <2>2. \A i \in 1 .. n : upto[i] >= upto[i - 1]
    <3>1. \A i \in 1 .. n : i - 1 \in 0 .. n /\ i \in 0 .. n
      BY <1>1
    <3>2. \A i \in 0 .. n : upto[i] \in Nat
      BY <1>1
    <3> QED BY <2>1, <3>1, <3>2
  <2>3. \A i \in 1 .. n : upto[i] >= upto[1]
    BY <1>1, <2>2, SharesGrow
  <2>4. PICK i \in 0 .. m : i = upto[1]
    BY <1>1
  <2>5. FirstTakes(p, s, i)
    <3>1. 1 \in 1 .. n /\ 1 - 1 = 0
      BY <1>1
    <3>2. \/ p[1] = Deep
          \/ p[1] # Deep /\ i = 1 /\ p[1] \in {Star, s[i]}
      BY <2>1, <2>4, <3>1
    <3>3. i = 1 => m # 0
      BY <1>1, <2>4
    <3> QED BY <1>1, <1>2, <3>2, <3>3 DEF FirstTakes
  <2> DEFINE u == [j \in 0 .. n - 1 |-> upto[j + 1] - i]
  <2>6. \A j \in 0 .. n - 1 : j + 1 \in 1 .. n /\ upto[j + 1] \in 0 .. m /\ upto[j + 1] >= i
    BY <1>1, <2>3, <2>4
  <2>7. u \in [0 .. n - 1 -> 0 .. m - i] /\ u[0] = 0 /\ u[n - 1] = m - i
    <3>1. \A j \in 0 .. n - 1 : upto[j + 1] - i \in 0 .. m - i
      BY <1>1, <2>6
    <3>2. 0 \in 0 .. n - 1 /\ n - 1 \in 0 .. n - 1 /\ (n - 1) + 1 = n
      BY <1>1
    <3> QED BY <1>1, <2>1, <2>4, <3>1, <3>2
  <2>8. ASSUME NEW j \in 1 .. n - 1
        PROVE  \/ q[j] = Deep /\ u[j] >= u[j - 1]
               \/ /\ q[j] # Deep /\ u[j] = u[j - 1] + 1
                  /\ q[j] \in {Star, t(i)[u[j]]}
    <3>1. j + 1 \in 1 .. n /\ (j + 1) - 1 = j /\ j - 1 \in 0 .. n - 1 /\ j \in 0 .. n - 1 /\ q[j] = p[j + 1]
      BY <1>1
    <3>2. u[j] = upto[j + 1] - i /\ u[j - 1] = upto[j] - i
      BY <3>1
    <3>3. upto[j + 1] \in 0 .. m /\ upto[j] \in 0 .. m
      BY <1>1, <3>1
    <3>4. \/ p[j + 1] = Deep /\ upto[j + 1] >= upto[j]
          \/ /\ p[j + 1] # Deep /\ upto[j + 1] = upto[j] + 1
             /\ p[j + 1] \in {Star, s[upto[j + 1]]}
      BY <2>1, <3>1
    <3> HIDE DEF u
    <3>5. CASE p[j + 1] = Deep /\ upto[j + 1] >= upto[j]
      BY <1>1, <3>1, <3>2, <3>3, <3>5
    <3>6. CASE p[j + 1] # Deep /\ upto[j + 1] = upto[j] + 1 /\ p[j + 1] \in {Star, s[upto[j + 1]]}
      <4>1. u[j] = u[j - 1] + 1
        BY <3>2, <3>3, <3>6
      <4>2. upto[j] >= i
        <5>1. j \in 1 .. n
          BY <1>1
        <5> QED BY <2>3, <2>4, <5>1
      <4>3. u[j] \in 1 .. m - i /\ i + u[j] = upto[j + 1]
        <5>1. i \in Nat /\ u[j] = upto[j + 1] - i /\ upto[j + 1] > i /\ upto[j + 1] <= m /\ upto[j + 1] \in Nat
          BY <1>1, <3>2, <3>3, <3>6, <4>2
        <5>2. PICK a : a = upto[j + 1]
          OBVIOUS
        <5>3. i \in Nat /\ a \in Nat /\ a > i /\ a <= m /\ m \in Nat
          BY <1>1, <5>1, <5>2
        <5>4. a - i \in 1 .. m - i /\ i + (a - i) = a
          BY <5>3
        <5> QED BY <5>1, <5>2, <5>4
      <4>4. t(i)[u[j]] = s[upto[j + 1]]
        BY <1>3, <4>3
      <4> QED BY <3>1, <3>6, <4>1, <4>4
    <3> QED BY <3>4, <3>5, <3>6
  <2> HIDE DEF u
  <2>9. Covers(q, t(i))
    <3>1. Len(q) = n - 1 /\ Len(t(i)) = m - i
      BY <1>1, <1>3
    <3> QED BY <2>7, <2>8, <3>1 DEF Covers
  <2> QED BY <2>5, <2>9
<1>5. ASSUME NEW i \in 0 .. m, FirstTakes(p, s, i), Covers(q, t(i))
      PROVE  Covers(p, s)
  <2>1. PICK u \in [0 .. n - 1 -> 0 .. m - i] :
          /\ u[0] = 0 /\ u[n - 1] = m - i
          /\ \A j \in 1 .. n - 1 :
               \/ q[j] = Deep /\ u[j] >= u[j - 1]
               \/ /\ q[j] # Deep /\ u[j] = u[j - 1] + 1
                  /\ q[j] \in {Star, t(i)[u[j]]}
    <3>1. Len(q) = n - 1 /\ Len(t(i)) = m - i
      BY <1>1, <1>3
    <3> QED BY <1>5, <3>1 DEF Covers
  <2> DEFINE upto == [j \in 0 .. n |-> IF j = 0 THEN 0 ELSE u[j - 1] + i]
  <2>2. upto \in [0 .. n -> 0 .. m] /\ upto[0] = 0 /\ upto[n] = m
    <3>1. \A j \in 1 .. n : j - 1 \in 0 .. n - 1
      BY <1>1
    <3>2. \A j \in 0 .. n - 1 : u[j] \in 0 .. m - i
      BY <1>1
    <3>3. \A j \in 1 .. n : u[j - 1] + i \in 0 .. m
      BY <1>1, <3>1, <3>2
    <3>4. \A j \in 0 .. n : j # 0 => j \in 1 .. n
      BY <1>1
    <3>5. 0 \in 0 .. m /\ n \in 0 .. n /\ n # 0 /\ 0 \in 0 .. n /\ u[n - 1] + i = m
      BY <1>1, <2>1
    <3> QED BY <3>3, <3>4, <3>5
  <2>3. \A j \in 1 .. n : upto[j] = u[j - 1] + i
    BY <1>1
  <2> HIDE DEF upto
  <2>4. ASSUME NEW j \in 1 .. n
        PROVE  \/ p[j] = Deep /\ upto[j] >= upto[j - 1]
               \/ /\ p[j] # Deep /\ upto[j] = upto[j - 1] + 1
                  /\ p[j] \in {Star, s[upto[j]]}
    <3>1. CASE j = 1
      <4>1. upto[1] = i /\ upto[1 - 1] = 0
        <5>1. 1 \in 1 .. n /\ 1 - 1 = 0
          BY <1>1
        <5> QED BY <2>1, <2>2, <2>3, <5>1
      <4>2. i = 1 => Head(s) = s[i]
        BY <1>1, <1>2
      <4>3. \/ p[1] = Deep
            \/ p[1] # Deep /\ i = 1 /\ p[1] \in {Star, s[i]}
        BY <1>1, <1>5, <4>2 DEF FirstTakes
      <4> QED BY <3>1, <4>1, <4>3
    <3>2. CASE j # 1
      <4> DEFINE k == j - 1
      <4>1. k \in 1 .. n - 1 /\ k + 1 = j /\ k \in 1 .. n /\ k - 1 \in 0 .. n - 1 /\ k \in 0 .. n - 1
        BY <1>1, <3>2
      <4>2. upto[j] = u[k] + i /\ upto[k] = u[k - 1] + i /\ q[k] = p[j]
        BY <1>1, <2>3, <4>1
      <4>3. u[k] \in 0 .. m - i /\ u[k - 1] \in 0 .. m - i
        BY <4>1
      <4>4. \/ q[k] = Deep /\ u[k] >= u[k - 1]
            \/ /\ q[k] # Deep /\ u[k] = u[k - 1] + 1
               /\ q[k] \in {Star, t(i)[u[k]]}
        BY <2>1, <4>1
      <4>5. upto[k] = upto[j - 1]
        OBVIOUS
      <4> HIDE DEF k
      <4>6. CASE q[k] = Deep /\ u[k] >= u[k - 1]
        BY <1>1, <4>2, <4>3, <4>5, <4>6
      <4>7. CASE q[k] # Deep /\ u[k] = u[k - 1] + 1 /\ q[k] \in {Star, t(i)[u[k]]}
        <5>1. u[k] \in 1 .. m - i /\ i + u[k] = upto[j]
          BY <1>1, <4>2, <4>3, <4>7
        <5>2. t(i)[u[k]] = s[upto[j]]
          BY <1>3, <5>1
        <5>3. upto[j] = upto[k] + 1
          BY <1>1, <4>2, <4>3, <4>7
        <5> QED BY <4>2, <4>5, <4>7, <5>2, <5>3
      <4> QED BY <4>4, <4>6, <4>7
    <3> QED BY <3>1, <3>2
  <2> QED BY <2>2, <2>4 DEF Covers, n, m
<1> QED BY <1>4, <1>5 DEF n, m, q, t

\* The pieces of a pattern and a path, for the induction.
LEMMA Pieces ==
  ASSUME NEW p \in Segments, p # <<>>
  PROVE  /\ Len(p) \in Nat \ {0} /\ Tail(p) \in Segments /\ Len(Tail(p)) + 1 = Len(p)
         /\ Head(p) \in Name \cup {Star, Deep} /\ Head(p) = p[1]
         /\ Tail(p) = SubSeq(p, 2, Len(p))
<1>1. p \in Seq(Name \cup {Star, Deep})
  BY DEF Segments
<1>2. Tail(p) = SubSeq(p, 2, Len(p))
  BY <1>1, TailIsSubSeq
<1> QED BY <1>1, <1>2 DEF Segments

\* What matches is covered.
LEMMA MatchedIsCovered ==
  ASSUME NEW p \in Segments, NEW s \in Segments, Matches[p][s]
  PROVE  Covers(p, s)
<1> DEFINE S == {n \in Nat : \A q, t \in Segments : Len(q) = n /\ Matches[q][t] => Covers(q, t)}
<1>1. 0 \in S
  <2> SUFFICES ASSUME NEW q \in Segments, NEW t \in Segments, Len(q) = 0, Matches[q][t]
               PROVE  Covers(q, t)
    OBVIOUS
  <2>1. q = <<>>
    BY DEF Segments
  <2>2. t = <<>>
    BY <2>1, MatchesStep
  <2> QED BY <2>1, <2>2, CoversNone
<1>2. ASSUME NEW n \in Nat, n \in S PROVE n + 1 \in S
  <2> SUFFICES ASSUME NEW q \in Segments, NEW t \in Segments, Len(q) = n + 1, Matches[q][t]
               PROVE  Covers(q, t)
    OBVIOUS
  <2>1. q # <<>>
    OBVIOUS
  <2>2. Tail(q) \in Segments /\ Len(Tail(q)) = n
    BY <2>1, Pieces
  <2>3. \A u \in Segments : Matches[Tail(q)][u] => Covers(Tail(q), u)
    BY <1>2, <2>2
  <2>4. \A i \in 0 .. Len(t) : SubSeq(t, i + 1, Len(t)) \in Segments
    BY RestIs
  <2> HIDE DEF S
  <2>5. CASE t = <<>>
    <3>1. q = <<Deep>>
      BY <2>1, <2>5, MatchesStep
    <3>2. Head(q) = Deep /\ Tail(q) = <<>>
      BY <3>1
    <3>3. Len(t) = 0 /\ SubSeq(t, 0 + 1, Len(t)) = <<>>
      BY <2>5
    <3>4. Covers(Tail(q), SubSeq(t, 0 + 1, Len(t)))
      BY <2>5, <3>2, <3>3, CoversNone
    <3>5. FirstTakes(q, t, 0) /\ 0 \in 0 .. Len(t)
      BY <3>2, <3>3 DEF FirstTakes
    <3> QED BY <2>1, <3>4, <3>5, CoversStep
  <2>6. CASE t # <<>> /\ Head(q) = Deep
    <3>1. PICK i \in 0 .. Len(t) : Matches[Tail(q)][SubSeq(t, i + 1, Len(t))]
      BY <2>1, <2>6, MatchesStep
    <3>2. Covers(Tail(q), SubSeq(t, i + 1, Len(t)))
      BY <2>3, <2>4, <3>1
    <3>3. FirstTakes(q, t, i)
      BY <2>6 DEF FirstTakes
    <3> QED BY <2>1, <3>2, <3>3, CoversStep
  <2>7. CASE t # <<>> /\ Head(q) # Deep
    <3>1. Head(q) \in {Star, Head(t)} /\ Matches[Tail(q)][Tail(t)]
      BY <2>1, <2>7, MatchesStep
    <3>2. Tail(t) \in Segments /\ Tail(t) = SubSeq(t, 1 + 1, Len(t)) /\ 1 \in 0 .. Len(t)
      BY <2>7, Pieces
    <3>3. Covers(Tail(q), SubSeq(t, 1 + 1, Len(t)))
      BY <2>3, <3>1, <3>2
    <3>4. FirstTakes(q, t, 1)
      BY <2>7, <3>1 DEF FirstTakes
    <3> QED BY <2>1, <3>2, <3>3, <3>4, CoversStep
  <2> QED BY <2>5, <2>6, <2>7
<1>3. Nat \subseteq S
  <2> HIDE DEF S
  <2> QED BY <1>1, <1>2, SetInduction
<1>4. Len(p) \in Nat
  BY DEF Segments
<1> QED BY <1>3, <1>4

\* A pattern whose rest ends with ** twice ends so itself.
LEMMA EndsStay ==
  ASSUME NEW p \in Segments, p # <<>>, EndsDeepTwice(Tail(p))
  PROVE  EndsDeepTwice(p)
<1>1. /\ Len(p) \in Nat \ {0} /\ Len(Tail(p)) = Len(p) - 1
      /\ \A i \in 1 .. Len(p) - 1 : Tail(p)[i] = p[i + 1]
  BY DEF Segments
<1>2. PICK n \in Nat : n = Len(p)
  BY <1>1
<1>3. n - 1 > 1 /\ Tail(p)[n - 1] = Deep /\ Tail(p)[(n - 1) - 1] = Deep
  BY <1>1, <1>2 DEF EndsDeepTwice
<1>4. Tail(p)[n - 1] = p[(n - 1) + 1] /\ Tail(p)[(n - 1) - 1] = p[((n - 1) - 1) + 1]
  <2>1. n - 1 \in 1 .. n - 1 /\ (n - 1) - 1 \in 1 .. n - 1
    BY <1>2, <1>3
  <2> QED BY <1>1, <1>2, <2>1
<1>5. n > 1 /\ (n - 1) + 1 = n /\ ((n - 1) - 1) + 1 = n - 1
  BY <1>2, <1>3
<1> QED BY <1>2, <1>3, <1>4, <1>5 DEF EndsDeepTwice

\* The pattern **.
LEMMA JustDeep == ASSUME NEW q \in Segments PROVE q = <<Deep>> <=> Len(q) = 1 /\ q[1] = Deep
<1>1. q \in Seq(Name \cup {Star, Deep})
  BY DEF Segments
<1> QED BY <1>1

\* What is covered is matched, but for a pattern that ends with ** twice.
LEMMA CoveredIsMatched ==
  ASSUME NEW p \in Segments, NEW s \in Segments, Covers(p, s)
  PROVE  Matches[p][s] \/ EndsDeepTwice(p)
<1> DEFINE S == {n \in Nat : \A q, t \in Segments :
                               Len(q) = n /\ Covers(q, t) => Matches[q][t] \/ EndsDeepTwice(q)}
<1>1. 0 \in S
  <2> SUFFICES ASSUME NEW q \in Segments, NEW t \in Segments, Len(q) = 0, Covers(q, t)
               PROVE  Matches[q][t]
    OBVIOUS
  <2>1. q = <<>>
    BY DEF Segments
  <2>2. t = <<>>
    BY <2>1, CoversNone
  <2> QED BY <2>1, <2>2, MatchesStep
<1>2. ASSUME NEW n \in Nat, n \in S PROVE n + 1 \in S
  <2> SUFFICES ASSUME NEW q \in Segments, NEW t \in Segments, Len(q) = n + 1, Covers(q, t),
                      ~EndsDeepTwice(q)
               PROVE  Matches[q][t]
    OBVIOUS
  <2>1. q # <<>>
    OBVIOUS
  <2>2. Tail(q) \in Segments /\ Len(Tail(q)) = n /\ ~EndsDeepTwice(Tail(q))
    BY <2>1, Pieces, EndsStay
  <2>3. \A u \in Segments : Covers(Tail(q), u) => Matches[Tail(q)][u]
    BY <1>2, <2>2
  <2>4. \A i \in 0 .. Len(t) : SubSeq(t, i + 1, Len(t)) \in Segments
    BY RestIs
  <2> HIDE DEF S
  <2>5. PICK i \in 0 .. Len(t) : FirstTakes(q, t, i) /\ Covers(Tail(q), SubSeq(t, i + 1, Len(t)))
    BY <2>1, CoversStep
  <2>6. Matches[Tail(q)][SubSeq(t, i + 1, Len(t))]
    BY <2>3, <2>4, <2>5
  <2>7. CASE t = <<>>
    <3>1. i = 0 /\ SubSeq(t, i + 1, Len(t)) = <<>> /\ Head(q) = Deep
      BY <2>5, <2>7 DEF FirstTakes
    <3>2. PICK r \in Segments : r = Tail(q)
      BY <2>2
    <3>3. r = <<>> \/ r = <<Deep>>
      <4>1. <<>> \in Segments /\ Matches[r][<<>>]
        BY <2>6, <2>7, <3>1, <3>2
      <4> QED BY <4>1, MatchesStep
    <3>4. /\ Len(q) = n + 1 /\ Len(r) = n /\ q[1] = Deep /\ ~EndsDeepTwice(q)
          /\ n = 1 => r[1] = q[2]
      <4>1. q[1] = Deep
        BY <2>1, <3>1, Pieces
      <4>2. \A k \in 1 .. Len(r) : r[k] = q[k + 1]
        <5>1. q \in Seq(Name \cup {Star, Deep})
          BY DEF Segments
        <5> QED BY <2>1, <3>2, <5>1, HeadTailProperties, Zenon
      <4>3. Len(r) = n
        BY <2>2, <3>2, Zenon
      <4> QED BY <2>2, <4>1, <4>2, <4>3
    <3>5. r # <<Deep>>
      <4> SUFFICES ASSUME r = <<Deep>> PROVE FALSE
        OBVIOUS
      <4>1. n = 1 /\ r[1] = Deep
        BY <3>4
      <4> QED BY <3>4, <4>1 DEF EndsDeepTwice
    <3>6. q = <<Deep>>
      <4>1. Len(r) = 0
        BY <3>3, <3>5
      <4> QED BY <3>4, <4>1, JustDeep
    <3> QED BY <2>7, <3>6, MatchesStep
  <2>8. CASE t # <<>> /\ Head(q) = Deep
    BY <2>1, <2>6, <2>8, MatchesStep
  <2>9. CASE t # <<>> /\ Head(q) # Deep
    <3>1. i = 1 /\ Head(q) \in {Star, Head(t)} /\ Tail(t) = SubSeq(t, 2, Len(t))
      BY <2>5, <2>9, Pieces DEF FirstTakes
    <3>2. Matches[Tail(q)][Tail(t)]
      <4>1. SubSeq(t, i + 1, Len(t)) = SubSeq(t, 2, Len(t))
        BY <3>1
      <4> QED BY <2>6, <3>1, <4>1
    <3> QED BY <2>1, <2>9, <3>1, <3>2, MatchesStep
  <2> QED BY <2>7, <2>8, <2>9
<1>3. Nat \subseteq S
  <2> HIDE DEF S
  <2> QED BY <1>1, <1>2, SetInduction
<1>4. Len(p) \in Nat
  BY DEF Segments
<1> QED BY <1>3, <1>4

\* Matching finds what a pattern stands for, for every pattern and path, but that of
\* several ** at the end of a pattern all but one must take a segment: policy.rs.
THEOREM MatchingFindsWhatItCovers == Spec => []MatchesWhatItCovers
<1>1. TypeOK => MatchesWhatItCovers
  <2>1. ASSUME TypeOK, rules # <<>>, NEW actor \in Actor, NEW path \in Path,
               NEW p, p = Substituted(rules[Len(rules)].pattern, actor)
        PROVE  /\ Matches[p][path] => Covers(p, path)
               /\ Covers(p, path) => Matches[p][path] \/ EndsDeepTwice(p)
    <3>1. rules[Len(rules)] \in Rule(Seq(PatternSegment))
      BY <2>1 DEF TypeOK
    <3>2. PICK q \in Seq(PatternSegment) : q = rules[Len(rules)].pattern
      BY <3>1 DEF Rule
    <3>3. p \in Segments
      <4>1. p = [i \in 1 .. Len(q) |-> IF q[i] = Self THEN actor ELSE q[i]]
        BY <2>1, <3>2 DEF Substituted
      <4>2. \A i \in 1 .. Len(q) : (IF q[i] = Self THEN actor ELSE q[i]) \in Name \cup {Star, Deep}
        BY ConstantsOK DEF PatternSegment
      <4> QED BY <4>1, <4>2 DEF Segments
    <3>4. path \in Segments
      <4>1. PICK n \in 0 .. MaxPath : path \in [1 .. n -> Name]
        BY DEF Path
      <4> QED BY <4>1, ConstantsOK DEF Segments
    <3> QED BY <3>3, <3>4, MatchedIsCovered, CoveredIsMatched
  <2> QED BY <2>1 DEF MatchesWhatItCovers
<1> QED BY <1>1, TypeCorrect, PTL

-----------------------------------------------------------------------------
(* Subscriptions. *)

\* r grows from held, by one pattern of the request after another.
GrowsTo(c, held, request, r) ==
  /\ r \in [0 .. Len(request) -> Seq(Wanted)]
  /\ r[0] = held /\ r[Len(request)] = Grown(c, held, request)
  /\ \A i \in 1 .. Len(request) :
       r[i] = IF Permitted(c, request[i]) /\ request[i] \notin ToSet(r[i - 1])
              THEN Append(r[i - 1], request[i]) ELSE r[i - 1]

\* r shrinks held: it keeps one pattern after another, or does not.
ShrinksTo(held, request, r) ==
  /\ r \in [0 .. Len(held) -> Seq(Wanted)]
  /\ r[0] = <<>> /\ r[Len(held)] = Shrunk(held, request)
  /\ \A i \in 1 .. Len(held) :
       r[i] = IF held[i] \in ToSet(request) THEN r[i - 1] ELSE Append(r[i - 1], held[i])

\* Grown takes one pattern of the request after another.
LEMMA GrownSteps ==
  ASSUME NEW c, NEW held \in Seq(Wanted), NEW request \in Seq(Wanted)
  PROVE  \E r : GrowsTo(c, held, request, r)
<1> DEFINE A == Seq(Wanted)
           n == Len(request)
           D == SUBSET (1 .. n)
           Step(h, p) == IF Permitted(c, p) /\ p \notin ToSet(h) THEN Append(h, p) ELSE h
           F == [i \in Nat |-> [h \in A |-> IF i \in 1 .. n THEN Step(h, request[i]) ELSE h]]
<1>1. n \in Nat /\ DOMAIN request = 1 .. n
  OBVIOUS
<1>2. F \in [Nat -> [A -> A]]
  OBVIOUS
<1>3. PICK g : TakesMax(A, held, n, F, g)
  <2> HIDE DEF F, A, n
  <2>1. held \in A
    BY DEF A
  <2> QED BY <1>1, <1>2, <2>1, MaxRecursion
<1>4. \A s \in D : s # {} => g[s] = Step(g[s \ {Max(s)}], request[Max(s)])
  <2> SUFFICES ASSUME NEW s \in D, s # {} PROVE g[s] = Step(g[s \ {Max(s)}], request[Max(s)])
    OBVIOUS
  <2>1. Max(s) \in 1 .. n
    BY <1>1, MaxOfFinite
  <2>2. PICK m \in 1 .. n : m = Max(s)
    BY <2>1
  <2>3. s \ {m} \in D /\ g \in [D -> A]
    BY <1>3 DEF TakesMax
  <2>4. PICK h \in A : h = g[s \ {m}]
    BY <2>3
  <2>5. F[m][h] = Step(h, request[m])
    <3> HIDE DEF Step
    <3> QED BY <1>1
  <2> HIDE DEF F, Step
  <2> QED BY <1>3, <2>2, <2>4, <2>5 DEF TakesMax
<1>5. g = [s \in SUBSET (DOMAIN request) |-> IF s = {} THEN held ELSE Step(g[s \ {Max(s)}], request[Max(s)])]
  <2> HIDE DEF Step
  <2>1. {} \in D /\ g \in [D -> A] /\ DOMAIN request = 1 .. n
    BY <1>1, <1>3 DEF TakesMax
  <2>2. g[{}] = held
    BY <1>3 DEF TakesMax
  <2> QED BY <1>4, <2>1, <2>2
<1> DEFINE iter == CHOOSE g1 : g1 = [s \in SUBSET (DOMAIN request) |-> IF s = {} THEN held ELSE Step(g1[s \ {Max(s)}], request[Max(s)])]
<1>6. iter = [s \in SUBSET (DOMAIN request) |-> IF s = {} THEN held ELSE Step(iter[s \ {Max(s)}], request[Max(s)])]
  BY <1>5, Zenon
<1>7. Grown(c, held, request) = iter[DOMAIN request]
  BY Zenon DEF Grown, FoldLeft, MapThenFoldSet
<1> HIDE DEF iter
<1>8. iter[{}] = held
  BY <1>1, <1>6
<1>9. ASSUME NEW s \in D, s # {}, iter[s \ {Max(s)}] \in A
      PROVE  iter[s] = F[Max(s)][iter[s \ {Max(s)}]]
  <2>1. Max(s) \in 1 .. n
    BY <1>1, <1>9, MaxOfFinite
  <2>2. PICK m \in 1 .. n, h \in A : m = Max(s) /\ h = iter[s \ {Max(s)}]
    BY <1>9, <2>1
  <2>3. F[m][h] = Step(h, request[m])
    <3> HIDE DEF Step
    <3> QED BY <1>1
  <2>4. iter[s] = Step(h, request[m])
    <3> HIDE DEF Step
    <3> QED BY <1>1, <1>6, <1>9, <2>2
  <2> HIDE DEF F
  <2> QED BY <2>2, <2>3, <2>4
<1>10. PICK r : Runs(A, held, n, F, r, iter[1 .. n])
  <2>2. Follows(A, n, F, iter)
    <3> HIDE DEF F, A
    <3> QED BY <1>9 DEF Follows
  <2> HIDE DEF F, A, n
  <2>1. held \in A
    BY DEF A
  <2> QED BY <1>1, <1>2, <1>8, <2>2, <2>1, MaxOrder
<1>11. ASSUME NEW i \in 1 .. n PROVE r[i] = Step(r[i - 1], request[i])
  <2>1. r[i - 1] \in A /\ i \in Nat
    BY <1>1, <1>10 DEF Runs
  <2>2. F[i][r[i - 1]] = Step(r[i - 1], request[i])
    <3> HIDE DEF Step
    <3> QED BY <1>1, <2>1
  <2> QED BY <1>10, <2>2 DEF Runs
<1>12. GrowsTo(c, held, request, r)
  BY <1>1, <1>7, <1>10, <1>11 DEF Runs, GrowsTo
<1> QED BY <1>12

\* Shrunk takes one pattern held after another.
LEMMA ShrunkSteps ==
  ASSUME NEW held \in Seq(Wanted), NEW request
  PROVE  \E r : ShrinksTo(held, request, r)
<1> DEFINE A == Seq(Wanted)
           n == Len(held)
           D == SUBSET (1 .. n)
           Step(h, p) == IF p \in ToSet(request) THEN h ELSE Append(h, p)
           F == [i \in Nat |-> [h \in A |-> IF i \in 1 .. n THEN Step(h, held[i]) ELSE h]]
<1>1. n \in Nat /\ DOMAIN held = 1 .. n
  OBVIOUS
<1>2. F \in [Nat -> [A -> A]]
  OBVIOUS
<1>3. PICK g : TakesMax(A, <<>>, n, F, g)
  <2> HIDE DEF F, A, n
  <2>1. <<>> \in A
    BY DEF A
  <2> QED BY <1>1, <1>2, <2>1, MaxRecursion
<1>4. \A s \in D : s # {} => g[s] = Step(g[s \ {Max(s)}], held[Max(s)])
  <2> SUFFICES ASSUME NEW s \in D, s # {} PROVE g[s] = Step(g[s \ {Max(s)}], held[Max(s)])
    OBVIOUS
  <2>1. Max(s) \in 1 .. n
    BY <1>1, MaxOfFinite
  <2>2. PICK m \in 1 .. n : m = Max(s)
    BY <2>1
  <2>3. s \ {m} \in D /\ g \in [D -> A]
    BY <1>3 DEF TakesMax
  <2>4. PICK h \in A : h = g[s \ {m}]
    BY <2>3
  <2>5. F[m][h] = Step(h, held[m])
    <3> HIDE DEF Step
    <3> QED BY <1>1
  <2> HIDE DEF F, Step
  <2> QED BY <1>3, <2>2, <2>4, <2>5 DEF TakesMax
<1>5. g = [s \in SUBSET (DOMAIN held) |-> IF s = {} THEN <<>> ELSE Step(g[s \ {Max(s)}], held[Max(s)])]
  <2> HIDE DEF Step
  <2>1. {} \in D /\ g \in [D -> A] /\ DOMAIN held = 1 .. n
    BY <1>1, <1>3 DEF TakesMax
  <2>2. g[{}] = <<>>
    BY <1>3 DEF TakesMax
  <2> QED BY <1>4, <2>1, <2>2
<1> DEFINE iter == CHOOSE g1 : g1 = [s \in SUBSET (DOMAIN held) |-> IF s = {} THEN <<>> ELSE Step(g1[s \ {Max(s)}], held[Max(s)])]
<1>6. iter = [s \in SUBSET (DOMAIN held) |-> IF s = {} THEN <<>> ELSE Step(iter[s \ {Max(s)}], held[Max(s)])]
  BY <1>5, Zenon
<1>7. Shrunk(held, request) = iter[DOMAIN held]
  BY Zenon DEF Shrunk, FoldLeft, MapThenFoldSet
<1> HIDE DEF iter
<1>8. iter[{}] = <<>>
  BY <1>1, <1>6
<1>9. ASSUME NEW s \in D, s # {}, iter[s \ {Max(s)}] \in A
      PROVE  iter[s] = F[Max(s)][iter[s \ {Max(s)}]]
  <2>1. Max(s) \in 1 .. n
    BY <1>1, <1>9, MaxOfFinite
  <2>2. PICK m \in 1 .. n, h \in A : m = Max(s) /\ h = iter[s \ {Max(s)}]
    BY <1>9, <2>1
  <2>3. F[m][h] = Step(h, held[m])
    <3> HIDE DEF Step
    <3> QED BY <1>1
  <2>4. iter[s] = Step(h, held[m])
    <3> HIDE DEF Step
    <3> QED BY <1>1, <1>6, <1>9, <2>2
  <2> HIDE DEF F
  <2> QED BY <2>2, <2>3, <2>4
<1>10. PICK r : Runs(A, <<>>, n, F, r, iter[1 .. n])
  <2>2. Follows(A, n, F, iter)
    <3> HIDE DEF F, A
    <3> QED BY <1>9 DEF Follows
  <2> HIDE DEF F, A, n
  <2>1. <<>> \in A
    BY DEF A
  <2> QED BY <1>1, <1>2, <1>8, <2>2, <2>1, MaxOrder
<1>11. ASSUME NEW i \in 1 .. n PROVE r[i] = Step(r[i - 1], held[i])
  <2>1. r[i - 1] \in A /\ i \in Nat
    BY <1>1, <1>10 DEF Runs
  <2>2. F[i][r[i - 1]] = Step(r[i - 1], held[i])
    <3> HIDE DEF Step
    <3> QED BY <1>1, <2>1
  <2> QED BY <1>10, <2>2 DEF Runs
<1>12. ShrinksTo(held, request, r)
  BY <1>1, <1>7, <1>10, <1>11 DEF Runs, ShrinksTo
<1> QED BY <1>12

\* A pattern that is not there yet can be added once.
LEMMA OneMoreOnce ==
  ASSUME NEW S, NEW s \in Seq(S), NEW e \in S, IsInjective(s), e \notin ToSet(s)
  PROVE  IsInjective(Append(s, e)) /\ Append(s, e) \in Seq(S)
<1> DEFINE n == Len(s)
           t == Append(s, e)
<1>1. n \in Nat /\ DOMAIN s = 1 .. n
  OBVIOUS
<1>2. DOMAIN t = 1 .. n + 1 /\ t[n + 1] = e /\ \A i \in 1 .. n : t[i] = s[i]
  OBVIOUS
<1>3. \A i \in 1 .. n : s[i] # e
  BY <1>1 DEF ToSet
<1>4. \A i, j \in 1 .. n : s[i] = s[j] => i = j
  BY <1>1 DEF IsInjective
<1>5. \A i \in 1 .. n + 1 : i \in 1 .. n \/ i = n + 1
  BY <1>1
<1> HIDE DEF n, t
<1>6. \A i, j \in 1 .. n + 1 : t[i] = t[j] => i = j
  BY <1>2, <1>3, <1>4, <1>5
<1>7. IsInjective(t)
  BY <1>2, <1>6, Zenon DEF IsInjective
<1> QED BY <1>7 DEF t

\* What is added goes to the end, is new, and is named in the answer.
LEMMA GrownIs ==
  ASSUME NEW c, NEW held \in Seq(Wanted), NEW request \in Seq(Wanted), IsInjective(held)
  PROVE  /\ Grown(c, held, request) \in Seq(Wanted)
         /\ IsInjective(Grown(c, held, request))
         /\ ToSet(Grown(c, held, request)) = ToSet(held) \cup ToSet(AddedTo(c, held, request))
<1> DEFINE n == Len(request)
           m == Len(held)
           Keeps(g) == /\ g \in Seq(Wanted) /\ IsInjective(g) /\ m <= Len(g)
                       /\ \A i \in 1 .. m : g[i] = held[i]
<1>0. PICK r : GrowsTo(c, held, request, r)
  BY GrownSteps
<1>1. /\ r \in [0 .. n -> Seq(Wanted)] /\ r[0] = held /\ r[n] = Grown(c, held, request)
      /\ \A i \in 1 .. n : r[i] = IF Permitted(c, request[i]) /\ request[i] \notin ToSet(r[i - 1])
                                  THEN Append(r[i - 1], request[i]) ELSE r[i - 1]
  BY <1>0 DEF GrowsTo
<1>2. n \in Nat /\ m \in Nat /\ \A i \in 1 .. n : request[i] \in Wanted
  OBVIOUS
<1> DEFINE S == {i \in Nat : i <= n => Keeps(r[i])}
<1> HIDE DEF n
<1>3. 0 \in S
  BY <1>1, <1>2
<1>4. ASSUME NEW i \in Nat, i \in S PROVE i + 1 \in S
  <2> SUFFICES ASSUME i + 1 <= n PROVE Keeps(r[i + 1])
    OBVIOUS
  <2>1. i + 1 \in 1 .. n /\ (i + 1) - 1 = i /\ i <= n
    BY <1>2
  <2>2. Keeps(r[i]) /\ request[i + 1] \in Wanted
    BY <1>2, <1>4, <2>1
  <2>3. r[i + 1] = r[i] \/ (request[i + 1] \notin ToSet(r[i]) /\ r[i + 1] = Append(r[i], request[i + 1]))
    <3> HIDE DEF Keeps
    <3> QED BY <1>1, <2>1
  <2>4. ASSUME NEW g, NEW p \in Wanted, Keeps(g), p \notin ToSet(g) PROVE Keeps(Append(g, p))
    <3>1. IsInjective(Append(g, p))
      BY <2>4, OneMoreOnce
    <3>2. /\ Append(g, p) \in Seq(Wanted) /\ Len(Append(g, p)) = Len(g) + 1 /\ Len(g) \in Nat
          /\ \A j \in 1 .. Len(g) : Append(g, p)[j] = g[j]
      BY <2>4
    <3>3. \A j \in 1 .. m : j \in 1 .. Len(g)
      BY <1>2, <2>4, <3>2
    <3> QED BY <1>2, <2>4, <3>1, <3>2, <3>3
  <2> HIDE DEF Keeps
  <2> QED BY <2>2, <2>3, <2>4
<1>5. Keeps(r[n])
  <2>1. Nat \subseteq S
    <3> HIDE DEF S
    <3> QED BY <1>3, <1>4, SetInduction
  <2> HIDE DEF Keeps
  <2> QED BY <1>2, <2>1
<1> DEFINE g == r[n]
<1> HIDE DEF g
<1>6. Keeps(g) /\ g = Grown(c, held, request)
  BY <1>1, <1>5 DEF g
<1>7. ToSet(g) = ToSet(held) \cup ToSet(SubSeq(g, m + 1, Len(g)))
  <2> DEFINE t == SubSeq(g, m + 1, Len(g))
  <2>1. /\ DOMAIN g = 1 .. Len(g) /\ DOMAIN held = 1 .. m /\ Len(g) \in Nat
        /\ DOMAIN t = 1 .. Len(g) - m /\ \A i \in 1 .. Len(g) - m : t[i] = g[m + i]
    BY <1>2, <1>6
  <2>2. \A i \in 1 .. Len(g) : i \in 1 .. m \/ i - m \in 1 .. Len(g) - m
    BY <1>2, <2>1
  <2>3. \A i \in 1 .. Len(g) - m : m + i \in 1 .. Len(g)
    BY <1>2, <2>1
  <2>4. \A i \in 1 .. m : i \in 1 .. Len(g) /\ g[i] = held[i]
    BY <1>2, <1>6, <2>1
  <2>5. \A i \in 1 .. Len(g) : m + (i - m) = i
    BY <1>2, <2>1
  <2> HIDE DEF t, m, Keeps
  <2>6. ASSUME NEW p \in ToSet(g) PROVE p \in ToSet(held) \cup ToSet(t)
    <3>1. PICK i \in 1 .. Len(g) : p = g[i]
      BY <2>1 DEF ToSet
    <3>2. CASE i \in 1 .. m
      BY <2>1, <2>4, <3>1, <3>2 DEF ToSet
    <3>3. CASE i - m \in 1 .. Len(g) - m
      <4>1. t[i - m] = g[i]
        BY <2>1, <2>5, <3>3
      <4> QED BY <2>1, <3>1, <3>3, <4>1 DEF ToSet
    <3> QED BY <2>2, <3>2, <3>3
  <2>7. ToSet(held) \subseteq ToSet(g)
    BY <2>1, <2>4 DEF ToSet
  <2>8. ToSet(t) \subseteq ToSet(g)
    BY <2>1, <2>3 DEF ToSet
  <2> QED BY <2>6, <2>7, <2>8 DEF t
<1> QED BY <1>6, <1>7 DEF AddedTo

\* What is removed is exactly what was asked for.
LEMMA ShrunkIs ==
  ASSUME NEW held \in Seq(Wanted), NEW request, IsInjective(held)
  PROVE  /\ Shrunk(held, request) \in Seq(Wanted)
         /\ IsInjective(Shrunk(held, request))
         /\ ToSet(Shrunk(held, request)) = ToSet(held) \ ToSet(request)
<1> DEFINE n == Len(held)
           R == ToSet(request)
           First(i) == {held[j] : j \in 1 .. i}
           Keeps(i, g) == g \in Seq(Wanted) /\ IsInjective(g) /\ ToSet(g) = First(i) \ R
<1>0. PICK r : ShrinksTo(held, request, r)
  BY ShrunkSteps
<1>1. /\ r \in [0 .. n -> Seq(Wanted)] /\ r[0] = <<>> /\ r[n] = Shrunk(held, request)
      /\ \A i \in 1 .. n : r[i] = IF held[i] \in ToSet(request) THEN r[i - 1]
                                  ELSE Append(r[i - 1], held[i])
  BY <1>0 DEF ShrinksTo
<1>2. n \in Nat /\ DOMAIN held = 1 .. n /\ \A i \in 1 .. n : held[i] \in Wanted
  OBVIOUS
<1>3. \A i, j \in 1 .. n : held[i] = held[j] => i = j
  BY <1>2 DEF IsInjective
<1> DEFINE S == {i \in Nat : i <= n => Keeps(i, r[i])}
<1> HIDE DEF n, R
<1>4. 0 \in S
  <2>1. First(0) = {}
    OBVIOUS
  <2>2. ToSet(<<>>) = {} /\ <<>> \in Seq(Wanted)
    BY EmptyRange
  <2>3. IsInjective(<<>>)
    BY DEF IsInjective
  <2> QED BY <1>1, <2>1, <2>2, <2>3
<1>5. ASSUME NEW i \in Nat, i \in S PROVE i + 1 \in S
  <2> SUFFICES ASSUME i + 1 <= n PROVE Keeps(i + 1, r[i + 1])
    OBVIOUS
  <2>1. i + 1 \in 1 .. n /\ (i + 1) - 1 = i /\ i <= n
    BY <1>2
  <2>2. Keeps(i, r[i]) /\ held[i + 1] \in Wanted
    BY <1>2, <1>5, <2>1
  <2>3. First(i + 1) = First(i) \cup {held[i + 1]}
    <3>1. 1 .. i + 1 = (1 .. i) \cup {i + 1}
      OBVIOUS
    <3> QED BY <3>1
  <2>4. held[i + 1] \notin First(i)
    <3>1. \A j \in 1 .. i : j \in 1 .. n /\ j # i + 1
      BY <1>2, <2>1
    <3> QED BY <1>3, <2>1, <3>1
  <2>5. r[i + 1] = IF held[i + 1] \in R THEN r[i] ELSE Append(r[i], held[i + 1])
    <3> HIDE DEF Keeps
    <3> QED BY <1>1, <2>1 DEF R
  <2> HIDE DEF First
  <2>6. CASE held[i + 1] \in R
    BY <2>2, <2>3, <2>5, <2>6
  <2>7. CASE held[i + 1] \notin R
    <3> DEFINE g == r[i]
               p == held[i + 1]
    <3>1. g \in Seq(Wanted) /\ IsInjective(g) /\ p \in Wanted /\ p \notin ToSet(g)
      BY <2>2, <2>4
    <3> HIDE DEF g, p
    <3>2. IsInjective(Append(g, p))
      BY <3>1, OneMoreOnce
    <3>3. Append(g, p) \in Seq(Wanted) /\ ToSet(Append(g, p)) = ToSet(g) \cup {p}
      BY <3>1, AppendRange
    <3>4. r[i + 1] = Append(g, p) /\ p \notin R /\ ToSet(g) = First(i) \ R /\ First(i + 1) = First(i) \cup {p}
      BY <2>2, <2>3, <2>5, <2>7 DEF g, p
    <3> QED BY <3>2, <3>3, <3>4
  <2> QED BY <2>6, <2>7
<1>6. Keeps(n, r[n])
  <2>1. Nat \subseteq S
    <3> HIDE DEF S
    <3> QED BY <1>4, <1>5, SetInduction
  <2> HIDE DEF Keeps
  <2> QED BY <1>2, <2>1
<1>7. First(n) = ToSet(held)
  BY <1>2 DEF ToSet
<1> QED BY <1>1, <1>6, <1>7 DEF R

\* What is kept of a client is what the client concludes, and nothing twice.
Tells ==
  /\ table \in [Actor -> Seq(Wanted) \cup {Absent}]
  /\ view \in [Actor -> SUBSET Wanted]
  /\ \A c \in Actor : table[c] # Absent => IsInjective(table[c]) /\ view[c] = ToSet(table[c])

\* A request is a sequence of patterns.
LEMMA RequestIs == ASSUME NEW request \in Request PROVE request \in Seq(Wanted)
BY DEF Request

\* Every operation of the manager keeps what it holds and what it answered together.
LEMMA TellsStep == Tells /\ [MakePolicy \/ SubscriptionNext]_<<rules, subscriptionVars>> => Tells'
<1> SUFFICES ASSUME Tells, [MakePolicy \/ SubscriptionNext]_<<rules, subscriptionVars>>
             PROVE  Tells'
  OBVIOUS
<1> USE SubscriptionConstantsOK
<1>1. CASE MakePolicy
  BY <1>1 DEF Tells, MakePolicy, subscriptionVars
<1>2. CASE UNCHANGED <<rules, subscriptionVars>>
  BY <1>2 DEF Tells, subscriptionVars
<1>3. ASSUME NEW c \in Actor, NEW request \in Request, AddClient(c, request)
      PROVE  Tells'
  <2>1. request \in Seq(Wanted)
    BY RequestIs
  <2> DEFINE held == <<>>
             t == Grown(c, held, request)
             v == ToSet(AddedTo(c, held, request))
  <2>2. held \in Seq(Wanted) /\ IsInjective(held) /\ ToSet(held) = {}
    BY EmptyRange DEF IsInjective
  <2>3. table' = [table EXCEPT ![c] = t] /\ view' = [view EXCEPT ![c] = v]
    BY <1>3 DEF AddClient
  <2> HIDE DEF held
  <2>4. t \in Seq(Wanted) /\ IsInjective(t) /\ ToSet(t) = ToSet(held) \cup v
    BY <2>1, <2>2, GrownIs
  <2> HIDE DEF t, v
  <2>5. v \subseteq Wanted /\ v = ToSet(t)
    BY <2>2, <2>4, RangeInside
  <2> QED BY <2>3, <2>4, <2>5 DEF Tells
<1>4. ASSUME NEW c \in Actor, NEW add \in Request, NEW remove \in Request,
             UpdateSubscriptions(c, add, remove)
      PROVE  Tells'
  <2>1. add \in Seq(Wanted)
    BY RequestIs
  <2> DEFINE held == Shrunk(table[c], remove)
             t == Grown(c, held, add)
             v == ToSet(AddedTo(c, held, add))
             w == (view[c] \ ToSet(remove)) \cup v
  <2>2. table[c] \in Seq(Wanted) /\ IsInjective(table[c]) /\ view[c] = ToSet(table[c])
    BY <1>4 DEF Tells, UpdateSubscriptions
  <2>3. table' = [table EXCEPT ![c] = t] /\ view' = [view EXCEPT ![c] = w]
    BY <1>4 DEF UpdateSubscriptions, RemoveThenAdd
  <2>4. held \in Seq(Wanted) /\ IsInjective(held) /\ ToSet(held) = view[c] \ ToSet(remove)
    BY <2>2, ShrunkIs
  <2> HIDE DEF held
  <2>5. t \in Seq(Wanted) /\ IsInjective(t) /\ ToSet(t) = ToSet(held) \cup v
    BY <2>1, <2>4, GrownIs
  <2> HIDE DEF t, v
  <2>6. w = ToSet(t)
    BY <2>4, <2>5
  <2> HIDE DEF w
  <2>7. w \subseteq Wanted
    BY <2>5, <2>6, RangeInside
  <2> QED BY <2>3, <2>5, <2>6, <2>7 DEF Tells
<1>5. ASSUME NEW c \in Actor, RemoveClient(c) PROVE Tells'
  BY <1>5 DEF Tells, RemoveClient
<1> QED BY <1>1, <1>2, <1>3, <1>4, <1>5 DEF SubscriptionNext

\* A client is told of exactly the paths that the patterns it holds by the answers it got
\* stand for, and no pattern is kept twice: sync.rs, with and without a policy.
THEOREM AnswersAreTold == SubscriptionSpec => []AnswersTell
<1>1. SubscriptionInit => Tells
  BY SubscriptionConstantsOK DEF SubscriptionInit, Tells
<1>2. Tells => AnswersTell
  <2>1. ASSUME Tells, NEW c \in Actor, table[c] # Absent
        PROVE  /\ IsInjective(table[c])
               /\ \A path \in Path :
                    c \in Subscribers({path}) <=> \E p \in view[c] : Matches[Substituted(p, c)][path]
    <3>1. IsInjective(table[c]) /\ view[c] = ToSet(table[c])
      BY <2>1 DEF Tells
    <3>2. ASSUME NEW path \in Path
          PROVE  c \in Subscribers({path}) <=> \E p \in ToSet(table[c]) : Matches[Substituted(p, c)][path]
      BY <2>1 DEF Subscribers
    <3> QED BY <3>1, <3>2
  <2> QED BY <2>1 DEF AnswersTell
<1> QED BY <1>1, <1>2, TellsStep, PTL DEF SubscriptionSpec
=============================================================================
