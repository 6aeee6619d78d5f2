----------------------------- MODULE PathPolicy -----------------------------
(***************************************************************************)
(* Path patterns and policy rules (swirldb-core: policy.rs).  A pattern    *)
(* matches a path segment by segment, * for one segment and ** for any     *)
(* number of them; a policy allows what the first applicable rule allows,  *)
(* by priority, and nothing else.  The rules may change while the engine   *)
(* runs (update_config).                                                   *)
(***************************************************************************)
EXTENDS Naturals, Sequences

CONSTANTS
  Name,       \* segments of paths; an actor's id may be one
  Actor,      \* actors, by id
  Star, Deep, \* the wildcards * and **
  Self,       \* the variable {actor.id}
  Anyone,        \* the actor pattern that every actor matches
  Priorities, \* the priorities rules may have; lower comes first
  MaxSegments, MaxPath, MaxRules  \* bounds: segments of all patterns, of a path; rules

ASSUME ConstantsOK ==
  /\ Actor \subseteq Name
  /\ Star # Deep /\ Self \notin {Star, Deep} /\ {Star, Deep, Self} \cap Name = {}
  /\ Anyone \notin Actor
  /\ Priorities \subseteq Nat
  /\ MaxSegments \in Nat /\ MaxPath \in Nat /\ MaxRules \in Nat

VARIABLE rules  \* config.policies.rules, for one action

PatternSegment == Name \cup {Star, Deep, Self}
Path == UNION {[1..n -> Name] : n \in 0..MaxPath}
Rule(patterns) ==
  [priority : Priorities, allow : BOOLEAN, who : Actor \cup {Anyone}, pattern : patterns]

-----------------------------------------------------------------------------
(* Patterns. *)

\* substitute_variables
Substituted(p, actor) == [i \in DOMAIN p |-> IF p[i] = Self THEN actor ELSE p[i]]

\* Mutant: ** must take a segment.
OneOrMore(s) == 1..Len(s)

\* How many segments ** may take.
Takes(s) == 0..Len(s)

Segments == Seq(Name \cup {Star, Deep})

\* match_segments: when the path is used up, a single ** may be left.
Matches[p \in Segments] ==
  [s \in Segments |->
     IF p = <<>> \/ s = <<>> THEN p = s \/ p = <<Deep>>
     ELSE IF Head(p) = Deep
          THEN \E i \in Takes(s) : Matches[Tail(p)][SubSeq(s, i + 1, Len(s))]
          ELSE Head(p) \in {Star, Head(s)} /\ Matches[Tail(p)][Tail(s)]]

-----------------------------------------------------------------------------
(* Rules. *)

Applies(rule, actor, path) ==
  /\ rule.who \in {Anyone, actor}
  /\ Matches[Substituted(rule.pattern, actor)][path]

\* Mutant: an unstable sort.
LastFirst(i, j) ==
  \/ rules[i].priority < rules[j].priority
  \/ rules[i].priority = rules[j].priority /\ i > j

\* The stable sort by priority.
Before(i, j) ==
  \/ rules[i].priority < rules[j].priority
  \/ rules[i].priority = rules[j].priority /\ i < j

Applicable(actor, path) == {i \in DOMAIN rules : Applies(rules[i], actor, path)}

\* The rule that decides, if any: the first applicable one.
Deciding(actor, path) ==
  {i \in Applicable(actor, path) :
     \A j \in Applicable(actor, path) : i = j \/ Before(i, j)}

\* evaluate: no applicable rule means deny.
Allowed(actor, path) == \E i \in Deciding(actor, path) : rules[i].allow

\* update_config, with one more rule: every policy can be reached so.
AddRule(rule) ==
  /\ Len(rules) < MaxRules
  /\ rules' = Append(rules, rule)

Used == LET Total[n \in Nat] == IF n = 0 THEN 0 ELSE Total[n - 1] + Len(rules[n].pattern)
        IN  Total[Len(rules)]

Init == rules = <<>>
Next == \E n \in 0..MaxSegments :
          /\ Used + n <= MaxSegments
          /\ \E rule \in Rule([1..n -> PatternSegment]) : AddRule(rule)
Spec == Init /\ [][Next]_rules

-----------------------------------------------------------------------------
(* What patterns and rules should do. *)

TypeOK == rules \in Seq(Rule(Seq(PatternSegment)))

\* What a pattern stands for: a way to share out the path's segments, one to * and
\* to a name, any number to **.
Covers(p, s) ==
  \E upto \in [0..Len(p) -> 0..Len(s)] :
    /\ upto[0] = 0 /\ upto[Len(p)] = Len(s)
    /\ \A i \in 1..Len(p) :
         \/ p[i] = Deep /\ upto[i] >= upto[i - 1]
         \/ /\ p[i] # Deep /\ upto[i] = upto[i - 1] + 1
            /\ p[i] \in {Star, s[upto[i]]}

EndsDeepTwice(p) == Len(p) > 1 /\ p[Len(p)] = Deep /\ p[Len(p) - 1] = Deep

\* Matching finds what the pattern stands for, although it returns early when
\* pattern or path is used up (policy.rs: match_segments); only of several ** at
\* the end of a pattern all but one must take a segment.
MatchesWhatItCovers ==
  rules # <<>> =>
    \A actor \in Actor, path \in Path :
      LET p == Substituted(rules[Len(rules)].pattern, actor)
      IN  /\ Matches[p][path] => Covers(p, path)
          /\ Covers(p, path) => Matches[p][path] \/ EndsDeepTwice(p)

\* A rule that comes last by priority, or comes later with the same priority,
\* changes no decision that another rule makes (policy.rs: evaluate).
LaterRulesYield ==
  [][\A actor \in Actor, path \in Path :
       /\ Applicable(actor, path) # {}
       /\ \A i \in DOMAIN rules : rules[i].priority <= rules'[Len(rules')].priority
       => Allowed(actor, path)' = Allowed(actor, path)]_rules
=============================================================================
