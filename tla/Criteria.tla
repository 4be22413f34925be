------------------------------- MODULE Criteria -------------------------------
(***************************************************************************)
(* Composition and matching of criteria (src/iodefv2-criteria.c).  A node  *)
(* has a criterion, a negation flag, and two optional children: `and` is   *)
(* asked when the criterion matches, `or` when the outcome so far is no    *)
(* match, and the negation applies to the outcome of the three.            *)
(*                                                                         *)
(* Composing hands the second operand over to the first, so that the       *)
(* criteria a program holds never share a node and each is a value: a tree.*)
(* A node is known by the links that lead to it, and a tree is a function  *)
(* from these positions to nodes.                                          *)
(***************************************************************************)
EXTENDS Integers, Sequences, FiniteSets

CONSTANTS
  Criterions,  \* criterions, told apart by their outcome for a document
  Handles,     \* places of the program that can hold a criteria
  MaxNodes     \* bound: nodes in all the criteria the program holds

VARIABLE held  \* criteria in each handle: a tree, without nodes if there is none

vars == <<held>>

Links == {"or", "and"}
Has(t, p, link) == Append(p, link) \in DOMAIN t

None    == <<>>
Leaf(k) == [p \in {<<>>} |-> [criterion |-> k, negated |-> FALSE]]
Size(t) == Cardinality(DOMAIN t)

IsTree(t) ==
  /\ IsFiniteSet(DOMAIN t) /\ DOMAIN t \subseteq Seq(Links)
  /\ \A p \in DOMAIN t : \A n \in 0 .. Len(p) : SubSeq(p, 1, n) \in DOMAIN t
  /\ t \in [DOMAIN t -> [criterion : Criterions, negated : BOOLEAN]]

-----------------------------------------------------------------------------
\* iodefv2_criteria_match(): 1, 0, or a negative error, given the outcome of each
\* criterion for the document; `at` is what the call returns for the other nodes.
AndAsked_Error(ret) == ret # 0
AndAsked(ret)       == ret = 1
Negated(c, ret)     == IF c.negated THEN 1 - ret ELSE ret

Answer(t, outcome, at, p) ==
  LET own  == outcome[t[p].criterion]
      both == IF AndAsked(own) /\ Has(t, p, "and") THEN at[Append(p, "and")] ELSE own
      ret  == IF both = 0 /\ Has(t, p, "or") THEN at[Append(p, "or")] ELSE both
  IN  IF ret < 0 THEN ret ELSE Negated(t[p], ret)

Answers(t, outcome) == LET at[p \in DOMAIN t] == Answer(t, outcome, at, p) IN at
Match(t, outcome)   == Answers(t, outcome)[<<>>]

-----------------------------------------------------------------------------
\* The tree with a copy of c linked at each of some places, which are links not yet
\* in use.
Graft(t, places, c) ==
  LET Rest(p) == CHOOSE r \in DOMAIN c : \E q \in places : p = q \o r
  IN  [p \in DOMAIN t \cup {q \o r : q \in places, r \in DOMAIN c} |->
         IF p \in DOMAIN t THEN t[p] ELSE c[Rest(p)]]

\* iodefv2_criteria_or_criteria(): c becomes the last alternative of t.
Chain(t) == {p \in DOMAIN t : \A i \in DOMAIN p : p[i] = "or"}
OrPlaces(t) == {Append(p, "or") : p \in {q \in Chain(t) : ~Has(t, q, "or")}}
OrCriteria(t, c) == Graft(t, OrPlaces(t), c)

\* iodefv2_criteria_and_criteria(): the call follows the chain of `and` and calls
\* itself, with a clone of c, for each alternative met on the way: it comes to every
\* node, and c or a clone of it is linked wherever there is no `and` yet.
AndPlaces_NoAlternatives(t) ==
  {Append(p, "and") : p \in {q \in DOMAIN t : ~Has(t, q, "and")
                                            /\ \A i \in DOMAIN q : q[i] # "or"}}
AndPlaces(t) == {Append(p, "and") : p \in {q \in DOMAIN t : ~Has(t, q, "and")}}
AndCriteria(t, c) == Graft(t, AndPlaces(t), c)

\* A node's alternatives are done before what it has, or gets, by `and`; a clone is
\* made before the alternative it is for.  The call fails at a clone that cannot be
\* made, and what it had done stays.
Earlier(p, q) ==
  \E n \in 0 .. Len(q) - 1 :
    /\ n <= Len(p) /\ SubSeq(p, 1, n) = SubSeq(q, 1, n)
    /\ n = Len(p) \/ (p[n + 1] = "or" /\ q[n + 1] = "and")
Alternatives(t) == {p \in DOMAIN t : p # <<>> /\ p[Len(p)] = "or"}
AndUntil(t, c, p) == Graft(t, {q \in AndPlaces(t) : Earlier(q, p)}, c)

-----------------------------------------------------------------------------
Init == held = [h \in Handles |-> None]

Room(n)  == Cardinality(UNION {{h} \X DOMAIN held[h] : h \in Handles}) + n <= MaxNodes
Holds(h) == DOMAIN held[h] # {}
Free(h)  == ~Holds(h)

\* iodefv2_criteria_new() and _set_criterion().
New(h, k) ==
  /\ Free(h) /\ Room(1)
  /\ held' = [held EXCEPT ![h] = Leaf(k)]

Clone(h, g) ==
  /\ Holds(h) /\ Free(g) /\ Room(Size(held[h]))
  /\ held' = [held EXCEPT ![g] = held[h]]

\* Setting the flag to what it is changes nothing.
SetNegation(h, b) ==
  /\ Holds(h) /\ held[h][<<>>].negated # b
  /\ held' = [held EXCEPT ![h][<<>>].negated = b]

Or(h, g) ==
  /\ Holds(h) /\ Holds(g) /\ h # g
  /\ held' = [held EXCEPT ![h] = OrCriteria(held[h], held[g]), ![g] = None]

And(h, g) ==
  /\ Holds(h) /\ Holds(g) /\ h # g
  /\ LET new == AndCriteria(held[h], held[g]) IN
       /\ Room(Size(new) - Size(held[h]))
       /\ held' = [held EXCEPT ![h] = new, ![g] = None]

AndFails(h, g) ==
  /\ Holds(h) /\ Holds(g) /\ h # g
  /\ \E p \in Alternatives(held[h]) : LET new == AndUntil(held[h], held[g], p) IN
       /\ Room(Size(new) - Size(held[h]))
       /\ held' = [held EXCEPT ![h] = new]

Destroy(h) ==
  /\ Holds(h)
  /\ held' = [held EXCEPT ![h] = None]

Next == \E h, g \in Handles :
  \/ \E k \in Criterions : New(h, k)
  \/ Clone(h, g) \/ (\E b \in BOOLEAN : SetNegation(h, b))
  \/ Or(h, g) \/ And(h, g) \/ AndFails(h, g) \/ Destroy(h)
Spec == Init /\ [][Next]_vars

-----------------------------------------------------------------------------
Documents == [Criterions -> {0, 1}]
Outcomes  == [Criterions -> {-1, 0, 1}]

\* Documents that agree with the outcomes of the criterions that gave one.
Completions(outcome) == {d \in Documents : \A k \in Criterions : outcome[k] \in {d[k], -1}}

\* Type invariant: every handle holds a criteria or none.
TypeOK == held = [h \in Handles |-> held[h]] /\ \A h \in Handles : IsTree(held[h])

\* A criterion that cannot be evaluated may keep match() from answering, but an
\* answer it gives all the same is right whatever the criterion would have said.
ErrorsNeverLie ==
  TypeOK /\ \A h \in Handles : Holds(h) => \A o \in Outcomes :
    LET ret == Match(held[h], o) IN
    ret >= 0 => \A d \in Completions(o) : Match(held[h], d) = ret

\* No negation at some positions of a tree.
Plain(t, positions) == \A p \in positions : ~t[p].negated

\* What CriteriaAlgebra sees of the criteria held.
Used      == {h \in Handles : Holds(h)}
Values    == [h \in Handles |->
                IF Holds(h) THEN {d \in Documents : Match(held[h], d) = 1} ELSE {}]
Negations == [h \in Handles |-> Holds(h) /\ held[h][<<>>].negated]
Cleans    == [h \in Handles |-> Plain(held[h], DOMAIN held[h] \ {<<>>})]
Chains    == [h \in Handles |-> Plain(held[h], Chain(held[h]) \ {<<>>})]

Algebra == INSTANCE CriteriaAlgebra WITH
  used <- Used, value <- Values, negated <- Negations, clean <- Cleans, chain <- Chains

\* Composed criteria match what the algebra says: in particular and distributes
\* over the alternatives of its left operand without losing or adding any.
ImplementsAlgebra == Algebra!Spec
==============================================================================
