---------------------------- MODULE CriteriaProofs ----------------------------
(***************************************************************************)
(* Theorems about Criteria for every set of criterions and of handles and  *)
(* every bound on the nodes: the criteria a program composes are trees, an *)
(* answer given in spite of a criterion that could not be evaluated is the *)
(* right one, composing implements CriteriaAlgebra, and a criteria that is *)
(* printed (CriteriaText) is read back.                                    *)
(***************************************************************************)
EXTENDS CriteriaText, FiniteSetTheorems, TLAPS

Facts == INSTANCE SequenceTheorems

\* Induction over the naturals, for a property given as a set.
LEMMA NatSetInduction ==
  ASSUME NEW S, 0 \in S, \A n \in Nat : n \in S => n + 1 \in S
  PROVE  Nat \subseteq S
<1>. SUFFICES ASSUME NEW m \in Nat, m \notin S PROVE FALSE
  OBVIOUS
<1>. DEFINE T == {n \in Nat : n \notin S}
<1>1. T \subseteq Nat /\ T # {}
  OBVIOUS
<1>2. \E x \in T : \A y \in T : ~ (<<y, x>> \in OpToRel(<, Nat))
  BY <1>1, NatLessThanWellFounded, WFMin, Zenon
<1>3. PICK x \in T : \A y \in T : ~ (y < x)
  BY <1>1, <1>2 DEF OpToRel
<1>4. x # 0 /\ x - 1 \in Nat /\ (x - 1) + 1 = x
  OBVIOUS
<1>5. x - 1 \in S
  BY <1>3, <1>4
<1>. QED
  BY <1>4, <1>5

-----------------------------------------------------------------------------
\* Positions, and the nodes a position has below it.
Position == Seq(Links)
Child(p, link) == Append(p, link)
Below(t, p) == {Child(p, link) : link \in Links} \cap DOMAIN t

\* The root is a position, a child is one, one link further down.
LEMMA ChildType ==
  /\ <<>> \in Position /\ Len(<<>>) = 0
  /\ \A p \in Position : Len(p) \in Nat
  /\ \A p \in Position, link \in Links :
       Child(p, link) \in Position /\ Len(Child(p, link)) = Len(p) + 1
BY DEF Position, Child, Links

\* A finite set of positions has a greatest depth.
LEMMA DepthBound ==
  ASSUME NEW D \in SUBSET Position, IsFiniteSet(D)
  PROVE  \E b \in Nat : \A p \in D : Len(p) <= b
<1>1. PICK n \in Nat : ExistsSurjection(1..n, D)
  BY FS_NatSurjection
<1>2. PICK f \in [1..n -> D] : \A p \in D : \E i \in 1..n : f[i] = p
  BY <1>1 DEF ExistsSurjection, Surjection
<1>. DEFINE Bounded == {k \in Nat : k <= n => \E b \in Nat : \A i \in 1..k : Len(f[i]) <= b}
<1>3. 0 \in Bounded
  OBVIOUS
<1>4. ASSUME NEW k \in Nat, k \in Bounded PROVE k + 1 \in Bounded
  <2>. SUFFICES ASSUME k + 1 <= n
                PROVE  \E b \in Nat : \A i \in 1..(k + 1) : Len(f[i]) <= b
    OBVIOUS
  <2>1. PICK b \in Nat : \A i \in 1..k : Len(f[i]) <= b
    BY <1>4
  <2>2. \A i \in 1..n : Len(f[i]) \in Nat
    BY <1>2, ChildType
  <2>3. PICK m \in Nat : m = Len(f[k + 1])
    BY <2>2
  <2>4. CASE m <= b
    <3>1. \A i \in 1..(k + 1) : Len(f[i]) <= b
      BY <2>1, <2>3, <2>4
    <3>. QED
      BY <3>1
  <2>5. CASE b < m
    <3>1. \A i \in 1..(k + 1) : Len(f[i]) <= m
      BY <2>1, <2>2, <2>3, <2>5
    <3>. QED
      BY <3>1
  <2>. QED
    BY <2>4, <2>5
<1>5. n \in Bounded
  <2>. HIDE DEF Bounded
  <2>. QED
    BY <1>3, <1>4, NatSetInduction
<1>6. PICK b \in Nat : \A i \in 1..n : Len(f[i]) <= b
  BY <1>5
<1>. QED
  BY <1>2, <1>6

\* What a tree is made of.
LEMMA TreeFacts ==
  ASSUME NEW t, IsTree(t)
  PROVE  /\ DOMAIN t \in SUBSET Position /\ IsFiniteSet(DOMAIN t)
         /\ \A p \in DOMAIN t : \A n \in 0 .. Len(p) : SubSeq(p, 1, n) \in DOMAIN t
         /\ t = [p \in DOMAIN t |-> t[p]]
         /\ \A p \in DOMAIN t : t[p] \in [criterion : Criterions, negated : BOOLEAN]
         /\ DOMAIN t # {} => <<>> \in DOMAIN t
<1>1. DOMAIN t \in SUBSET Position /\ IsFiniteSet(DOMAIN t)
  BY DEF IsTree, Position
<1>2. \A p \in DOMAIN t : \A n \in 0 .. Len(p) : SubSeq(p, 1, n) \in DOMAIN t
  BY Zenon DEF IsTree
<1>3. /\ t = [p \in DOMAIN t |-> t[p]]
      /\ \A p \in DOMAIN t : t[p] \in [criterion : Criterions, negated : BOOLEAN]
  BY Zenon DEF IsTree
<1>4. \A p \in Position : SubSeq(p, 1, 0) = <<>> /\ 0 \in 0 .. Len(p)
  BY DEF Position
<1>5. ASSUME NEW p \in DOMAIN t PROVE <<>> \in DOMAIN t
  <2>1. SubSeq(p, 1, 0) = <<>> /\ 0 \in 0 .. Len(p)
    BY <1>1, <1>4
  <2>. QED
    BY <1>2, <2>1, Zenon
<1>. QED
  BY <1>1, <1>2, <1>3, <1>5

\* Induction over a tree: a set that a node belongs to whenever all below it do has
\* all the nodes.
LEMMA TreeInduction ==
  ASSUME NEW t, IsTree(t), NEW S, \A p \in DOMAIN t : Below(t, p) \subseteq S => p \in S
  PROVE  DOMAIN t \subseteq S
<1>1. DOMAIN t \in SUBSET Position /\ IsFiniteSet(DOMAIN t)
  BY TreeFacts
<1>2. PICK b \in Nat : \A p \in DOMAIN t : Len(p) <= b
  BY <1>1, DepthBound
<1>. DEFINE Reached == {k \in Nat : \A p \in DOMAIN t : Len(p) + k > b => p \in S}
<1>3. 0 \in Reached
  BY <1>1, <1>2, ChildType
<1>4. ASSUME NEW k \in Nat, k \in Reached PROVE k + 1 \in Reached
  <2>. SUFFICES ASSUME NEW p \in DOMAIN t, Len(p) + (k + 1) > b PROVE p \in S
    OBVIOUS
  <2>1. \A link \in Links : Len(Child(p, link)) + k > b
    BY <1>1, ChildType
  <2>2. Below(t, p) \subseteq S
    BY <1>4, <2>1 DEF Below
  <2>. QED
    BY <2>2
<1>5. b + 1 \in Reached
  <2>. HIDE DEF Reached
  <2>. QED
    BY <1>3, <1>4, NatSetInduction
<1>6. \A p \in DOMAIN t : Len(p) + (b + 1) > b
  BY <1>1, ChildType
<1>. QED
  BY <1>5, <1>6

-----------------------------------------------------------------------------
\* The answer of a node from the outcome of its criterion and the answers below it.
Combined(own, hasAnd, and, hasOr, or, negated) ==
  LET both == IF own = 1 /\ hasAnd THEN and ELSE own
      ret  == IF both = 0 /\ hasOr THEN or ELSE both
  IN  IF ret < 0 THEN ret ELSE IF negated THEN 1 - ret ELSE ret

\* What a node answers when those below answer as `at` says.
AnswerOf(t, o, at, p) ==
  Combined(o[t[p].criterion], Child(p, "and") \in DOMAIN t, at[Child(p, "and")],
           Child(p, "or") \in DOMAIN t, at[Child(p, "or")], t[p].negated)

\* Outcomes, and the answers of match(), are numbers.
Outcome3 == {-1, 0, 1}

\* A function that gives an answer to the positions in D, with this recursive definition.
Answering(f, t, o, D) == f = [p \in D |-> Answer(t, o, f, p)]

\* The answer of a node takes the answers of the nodes below it, and no others.
LEMMA AnswerLocal ==
  ASSUME NEW t, NEW o, NEW f, NEW g, NEW p,
         \A q \in Below(t, p) : f[q] = g[q]
  PROVE  Answer(t, o, f, p) = Answer(t, o, g, p)
<1>1. \A link \in Links : Has(t, p, link) => f[Append(p, link)] = g[Append(p, link)]
  BY DEF Below, Has, Child
<1>2. /\ Has(t, p, "and") => f[Append(p, "and")] = g[Append(p, "and")]
      /\ Has(t, p, "or") => f[Append(p, "or")] = g[Append(p, "or")]
  BY <1>1 DEF Links
<1>. QED
  BY <1>2, Zenon DEF Answer

\* Every node answers from its own criterion and the answers below it: a function
\* with this recursive definition exists, by induction from the deepest nodes up.
LEMMA AnswersDef ==
  ASSUME NEW t, IsTree(t), NEW o
  PROVE  Answering(Answers(t, o), t, o, DOMAIN t)
<1>1. DOMAIN t \in SUBSET Position /\ IsFiniteSet(DOMAIN t)
  BY TreeFacts
<1>2. PICK b \in Nat : \A p \in DOMAIN t : Len(p) <= b
  BY <1>1, DepthBound
<1>. DEFINE Deep(k) == {p \in DOMAIN t : Len(p) + k > b}
            Defined == {k \in Nat : \E f : Answering(f, t, o, Deep(k))}
<1>3. 0 \in Defined
  <2>1. Deep(0) = {}
    BY <1>1, <1>2, ChildType
  <2>2. Answering([p \in {} |-> Answer(t, o, <<>>, p)], t, o, {})
    BY DEF Answering
  <2>. QED
    BY <2>1, <2>2
<1>4. ASSUME NEW k \in Nat, k \in Defined PROVE k + 1 \in Defined
  <2>1. PICK f : Answering(f, t, o, Deep(k))
    BY <1>4
  <2>2. Deep(k) \subseteq Deep(k + 1)
    BY <1>1, ChildType
  <2>3. \A p \in Deep(k + 1) : Below(t, p) \subseteq Deep(k)
    BY <1>1, ChildType DEF Below
  <2>. HIDE DEF Deep
  <2>. DEFINE g == [p \in Deep(k + 1) |-> Answer(t, o, f, p)]
  <2>4. \A p \in Deep(k) : f[p] = g[p]
    BY <2>1, <2>2, Zenon DEF Answering
  <2>5. \A p \in Deep(k + 1) : Answer(t, o, f, p) = Answer(t, o, g, p)
    <3>. HIDE DEF g
    <3>. QED
      BY <2>3, <2>4, AnswerLocal
  <2>6. Answering(g, t, o, Deep(k + 1))
    <3>1. g = [p \in Deep(k + 1) |-> Answer(t, o, g, p)]
      BY <2>5, Zenon
    <3>. QED
      BY <3>1, Zenon DEF Answering
  <2>7. \E h : Answering(h, t, o, Deep(k + 1))
    <3>. HIDE DEF g
    <3>. QED
      BY <2>6, Zenon
  <2>. QED
    BY <2>7
<1>5. b + 1 \in Defined
  <2>. HIDE DEF Defined
  <2>. QED
    BY <1>3, <1>4, NatSetInduction
<1>6. Deep(b + 1) = DOMAIN t
  <2>1. \A p \in DOMAIN t : Len(p) \in Nat
    BY <1>1, ChildType
  <2>2. \A p \in DOMAIN t : Len(p) + (b + 1) > b
    BY <2>1
  <2>. QED
    BY <2>2
<1>7. \E f : Answering(f, t, o, DOMAIN t)
  BY <1>5, <1>6
<1>. QED
  BY <1>7, Zenon DEF Answers, Answering

\* The same, as an equation for each node.
LEMMA AnswersAt ==
  ASSUME NEW t, IsTree(t), NEW o
  PROVE  \A p \in DOMAIN t : Answers(t, o)[p] = AnswerOf(t, o, Answers(t, o), p)
<1>. DEFINE f == Answers(t, o)
<1>1. Answering(f, t, o, DOMAIN t)
  BY AnswersDef
<1>. HIDE DEF f
<1>2. \A p \in DOMAIN t : f[p] = Answer(t, o, f, p)
  BY <1>1 DEF Answering
<1>3. ASSUME NEW p PROVE Answer(t, o, f, p) = AnswerOf(t, o, f, p)
  BY DEF Answer, AnswerOf, Combined, Child, Has, AndAsked, Negated
<1>4. \A p \in DOMAIN t : f[p] = AnswerOf(t, o, f, p)
  BY <1>2, <1>3, Zenon
<1>. QED
  BY <1>4 DEF f

\* match() returns an error, 0 or 1; and 0 or 1 if no criterion gives an error.
LEMMA AnswersType ==
  ASSUME NEW t, IsTree(t), NEW o \in Outcomes
  PROVE  /\ \A p \in DOMAIN t : Answers(t, o)[p] \in Outcome3
         /\ o \in Documents => \A p \in DOMAIN t : Answers(t, o)[p] \in {0, 1}
<1>. DEFINE f == Answers(t, o)
            In(R) == {p \in DOMAIN t : f[p] \in R}
<1>1. \A p \in DOMAIN t : t[p].criterion \in Criterions /\ t[p].negated \in BOOLEAN
  BY TreeFacts
<1>2. \A p \in DOMAIN t : f[p] = AnswerOf(t, o, f, p)
  BY AnswersAt
<1>3. \A p, R : Below(t, p) \subseteq In(R) =>
         /\ Child(p, "and") \in DOMAIN t => f[Child(p, "and")] \in R
         /\ Child(p, "or") \in DOMAIN t => f[Child(p, "or")] \in R
  BY DEF Below, Links
<1>. HIDE DEF f
<1>4. \A p \in DOMAIN t : Below(t, p) \subseteq In(Outcome3) => p \in In(Outcome3)
  <2>. SUFFICES ASSUME NEW p \in DOMAIN t, Below(t, p) \subseteq In(Outcome3)
                PROVE  f[p] \in Outcome3
    OBVIOUS
  <2>1. o[t[p].criterion] \in Outcome3
    BY <1>1 DEF Outcomes, Outcome3
  <2>2. /\ Child(p, "and") \in DOMAIN t => f[Child(p, "and")] \in Outcome3
        /\ Child(p, "or") \in DOMAIN t => f[Child(p, "or")] \in Outcome3
    BY <1>3
  <2>3. AnswerOf(t, o, f, p) \in Outcome3
    BY <2>1, <2>2 DEF AnswerOf, Combined, Outcome3
  <2>. QED
    BY <1>2, <2>3
<1>5. ASSUME o \in Documents
      PROVE  \A p \in DOMAIN t : Below(t, p) \subseteq In({0, 1}) => p \in In({0, 1})
  <2>. SUFFICES ASSUME NEW p \in DOMAIN t, Below(t, p) \subseteq In({0, 1})
                PROVE  f[p] \in {0, 1}
    OBVIOUS
  <2>1. o[t[p].criterion] \in {0, 1}
    BY <1>1, <1>5 DEF Documents
  <2>2. /\ Child(p, "and") \in DOMAIN t => f[Child(p, "and")] \in {0, 1}
        /\ Child(p, "or") \in DOMAIN t => f[Child(p, "or")] \in {0, 1}
    BY <1>3
  <2>3. AnswerOf(t, o, f, p) \in {0, 1}
    BY <2>1, <2>2 DEF AnswerOf, Combined, Outcome3
  <2>. QED
    BY <1>2, <2>3
<1>6. \A R : (\A p \in DOMAIN t : Below(t, p) \subseteq In(R) => p \in In(R))
                => DOMAIN t \subseteq In(R)
  <2>. HIDE DEF In
  <2>. QED
    BY TreeInduction
<1>7. DOMAIN t \subseteq In(Outcome3) /\ (o \in Documents => DOMAIN t \subseteq In({0, 1}))
  <2>. HIDE DEF In
  <2>. QED
    BY <1>4, <1>5, <1>6
<1>. QED
  BY <1>7 DEF f

\* Every answer of a tree, for outcomes with errors, is the one for each document
\* that agrees with the outcomes that are not errors.
LEMMA AnswersDespiteErrors ==
  ASSUME NEW t, IsTree(t), NEW o \in Outcomes, NEW d \in Completions(o)
  PROVE  \A p \in DOMAIN t : Answers(t, o)[p] >= 0 => Answers(t, d)[p] = Answers(t, o)[p]
<1>. DEFINE f == Answers(t, o)
            g == Answers(t, d)
            Right == {p \in DOMAIN t : f[p] >= 0 => g[p] = f[p]}
<1>1. \A p \in DOMAIN t : t[p].criterion \in Criterions /\ t[p].negated \in BOOLEAN
  BY TreeFacts
<1>2. \A p \in DOMAIN t : f[p] = AnswerOf(t, o, f, p) /\ g[p] = AnswerOf(t, d, g, p)
  BY AnswersAt
<1>3. \A p \in DOMAIN t : f[p] \in Outcome3
  BY AnswersType
<1>4. \A k \in Criterions : o[k] \in Outcome3 /\ d[k] \in {0, 1} /\ o[k] \in {d[k], -1}
  BY DEF Completions, Documents, Outcomes, Outcome3
<1>. HIDE DEF f, g
<1>5. ASSUME NEW p \in DOMAIN t, Below(t, p) \subseteq Right, f[p] >= 0
      PROVE  g[p] = f[p]
  <2>1. \A link \in Links : Child(p, link) \in DOMAIN t =>
           /\ f[Child(p, link)] \in Outcome3
           /\ f[Child(p, link)] >= 0 => g[Child(p, link)] = f[Child(p, link)]
    BY <1>3, <1>5 DEF Below
  <2>2. "and" \in Links /\ "or" \in Links
    BY DEF Links
  <2>3. AnswerOf(t, o, f, p) >= 0
    BY <1>2, <1>5
  <2>4. LET a == Child(p, "and") IN a \in DOMAIN t =>
          f[a] \in Outcome3 /\ (f[a] >= 0 => g[a] = f[a])
    BY <2>1, <2>2
  <2>5. LET a == Child(p, "or") IN a \in DOMAIN t =>
          f[a] \in Outcome3 /\ (f[a] >= 0 => g[a] = f[a])
    BY <2>1, <2>2
  <2>6. LET k == t[p].criterion IN o[k] \in Outcome3 /\ d[k] \in {0, 1} /\ o[k] \in {d[k], -1}
    BY <1>1, <1>4
  <2>7. AnswerOf(t, d, g, p) = AnswerOf(t, o, f, p)
    BY <2>3, <2>4, <2>5, <2>6 DEF AnswerOf, Combined, Outcome3
  <2>. QED
    BY <1>2, <2>7
<1>6. DOMAIN t \subseteq Right
  <2>1. \A p \in DOMAIN t : Below(t, p) \subseteq Right => p \in Right
    BY <1>5
  <2>. HIDE DEF Right
  <2>. QED
    BY <2>1, TreeInduction
<1>. QED
  BY <1>6 DEF f, g

-----------------------------------------------------------------------------
\* Position p of a tree that is found at q of another.
Under(q, p) == q \o p

\* Positions put together: the empty one changes nothing, and a child stays one.
LEMMA Together ==
  ASSUME NEW q \in Position, NEW p \in Position
  PROVE  /\ Under(q, p) \in Position /\ Len(Under(q, p)) = Len(q) + Len(p)
         /\ Under(q, <<>>) = q /\ Under(<<>>, p) = p
         /\ \A link \in Links : Under(q, Child(p, link)) = Child(Under(q, p), link)
<1>1. Under(q, p) \in Position /\ Len(Under(q, p)) = Len(q) + Len(p)
  BY Facts!ConcatProperties DEF Position, Under
<1>2. Under(q, <<>>) = q /\ Under(<<>>, p) = p
  BY Facts!ConcatEmptySeq DEF Position, Under
<1>3. ASSUME NEW link \in Links PROVE Under(q, Child(p, link)) = Child(Under(q, p), link)
  <2>1. <<link>> \in Position
    BY DEF Position
  <2>2. Child(p, link) = p \o <<link>> /\ Child(q \o p, link) = (q \o p) \o <<link>>
    BY <1>1, Facts!AppendIsConcat DEF Position, Child, Under
  <2>3. (q \o p) \o <<link>> = q \o (p \o <<link>>)
    BY <2>1, Facts!ConcatAssociative DEF Position
  <2>. QED
    BY <2>2, <2>3 DEF Under
<1>. QED
  BY <1>1, <1>2, <1>3

\* Tree u has at q, below q and nowhere else below it, the nodes t has at S.
Embeds(t, u, q, S) ==
  /\ S \subseteq DOMAIN t /\ \A p \in S : Below(t, p) \subseteq S
  /\ \A p \in S : Under(q, p) \in DOMAIN u /\ u[Under(q, p)] = t[p]
  /\ \A p \in S, link \in Links :
       Child(Under(q, p), link) \in DOMAIN u => Child(p, link) \in DOMAIN t

\* Nodes with the same criterions, negations and children answer alike.
LEMMA Transfer ==
  ASSUME NEW t, IsTree(t), NEW u, IsTree(u), NEW q \in Position, NEW S,
         Embeds(t, u, q, S), NEW o
  PROVE  \A p \in S : Answers(u, o)[Under(q, p)] = Answers(t, o)[p]
<1>. DEFINE f == Answers(t, o)
            g == Answers(u, o)
            Alike == {p \in DOMAIN t : p \in S => g[Under(q, p)] = f[p]}
<1>1. /\ \A p \in DOMAIN t : f[p] = AnswerOf(t, o, f, p)
      /\ \A p \in DOMAIN u : g[p] = AnswerOf(u, o, g, p)
  BY AnswersAt
<1>. HIDE DEF f, g
<1>2. ASSUME NEW p \in DOMAIN t, Below(t, p) \subseteq Alike, p \in S
      PROVE  g[Under(q, p)] = f[p]
  <2>1. Under(q, p) \in DOMAIN u /\ u[Under(q, p)] = t[p]
    BY <1>2 DEF Embeds
  <2>2. p \in Position
    BY TreeFacts
  <2>3. \A link \in Links :
          /\ Child(Under(q, p), link) \in DOMAIN u <=> Child(p, link) \in DOMAIN t
          /\ Child(p, link) \in DOMAIN t => g[Child(Under(q, p), link)] = f[Child(p, link)]
    <3>. SUFFICES ASSUME NEW link \in Links
                  PROVE  /\ Child(Under(q, p), link) \in DOMAIN u <=> Child(p, link) \in DOMAIN t
                         /\ Child(p, link) \in DOMAIN t
                              => g[Child(Under(q, p), link)] = f[Child(p, link)]
      OBVIOUS
    <3>1. Under(q, Child(p, link)) = Child(Under(q, p), link)
      BY <2>2, Together
    <3>2. Child(p, link) \in DOMAIN t => Child(p, link) \in S /\ Child(p, link) \in Alike
      BY <1>2 DEF Embeds, Below
    <3>. QED
      BY <1>2, <3>1, <3>2 DEF Embeds
  <2>4. AnswerOf(u, o, g, Under(q, p)) = AnswerOf(t, o, f, p)
    <3>1. \A link \in Links : Child(Under(q, p), link) \in DOMAIN u <=> Child(p, link) \in DOMAIN t
      BY <2>3
    <3>2. Child(p, "and") \in DOMAIN t => g[Child(Under(q, p), "and")] = f[Child(p, "and")]
      BY <2>3 DEF Links
    <3>3. Child(p, "or") \in DOMAIN t => g[Child(Under(q, p), "or")] = f[Child(p, "or")]
      BY <2>3 DEF Links
    <3>4. /\ Child(Under(q, p), "and") \in DOMAIN u <=> Child(p, "and") \in DOMAIN t
          /\ Child(Under(q, p), "or") \in DOMAIN u <=> Child(p, "or") \in DOMAIN t
      BY <3>1 DEF Links
    <3>. QED
      BY <2>1, <3>2, <3>3, <3>4 DEF AnswerOf, Combined
  <2>. QED
    BY <1>1, <2>1, <2>4
<1>3. DOMAIN t \subseteq Alike
  <2>1. \A p \in DOMAIN t : Below(t, p) \subseteq Alike => p \in Alike
    BY <1>2
  <2>. HIDE DEF Alike
  <2>. QED
    BY <2>1, TreeInduction
<1>4. S \subseteq DOMAIN t
  BY DEF Embeds
<1>. QED
  BY <1>3, <1>4 DEF f, g

-----------------------------------------------------------------------------
\* Links of a tree that are not in use.
Places(t) ==
  {q \in Position : q \notin DOMAIN t /\ \E p \in DOMAIN t, link \in Links : q = Child(p, link)}

\* A link not in use has all its beginnings in the tree, and is not empty.
LEMMA PlaceFacts ==
  ASSUME NEW t, IsTree(t), NEW q \in Places(t)
  PROVE  /\ q \in Position /\ q \notin DOMAIN t /\ Len(q) \in Nat \ {0}
         /\ \A n \in 0 .. Len(q) - 1 : SubSeq(q, 1, n) \in DOMAIN t
<1>1. PICK p \in DOMAIN t, link \in Links : q = Child(p, link)
  BY DEF Places
<1>2. q \in Position /\ q \notin DOMAIN t /\ p \in Position
  BY TreeFacts DEF Places
<1>3. Len(p) \in Nat /\ Len(q) = Len(p) + 1
  BY <1>1, <1>2, ChildType
<1>4. ASSUME NEW n \in 0 .. Len(p) PROVE SubSeq(q, 1, n) = SubSeq(p, 1, n)
  BY <1>1, <1>2, <1>4 DEF Position, Child, Links
<1>5. \A n \in 0 .. Len(p) : SubSeq(p, 1, n) \in DOMAIN t
  BY TreeFacts
<1>6. \A n \in 0 .. Len(q) - 1 : n \in 0 .. Len(p)
  BY <1>3
<1>7. \A n \in 0 .. Len(q) - 1 : SubSeq(q, 1, n) \in DOMAIN t
  BY <1>4, <1>5, <1>6, Zenon
<1>8. Len(q) \in Nat \ {0}
  BY <1>3
<1>. QED
  BY <1>2, <1>7, <1>8

\* The beginning of two positions put together.
LEMMA Beginning ==
  ASSUME NEW q \in Position, NEW r \in Position, NEW n \in 0 .. Len(Under(q, r))
  PROVE  /\ n <= Len(q) => SubSeq(Under(q, r), 1, n) = SubSeq(q, 1, n)
         /\ n >= Len(q) => /\ n - Len(q) \in 0 .. Len(r)
                           /\ SubSeq(Under(q, r), 1, n) = Under(q, SubSeq(r, 1, n - Len(q)))
BY DEF Position, Under

\* Nothing in the tree begins with a link not in use, and positions below two such
\* links are different.
LEMMA PlacesApart ==
  ASSUME NEW t, IsTree(t), NEW q \in Places(t), NEW r \in Position
  PROVE  /\ Under(q, r) \notin DOMAIN t
         /\ \A q2 \in Places(t), r2 \in Position : Under(q, r) = Under(q2, r2) => q = q2 /\ r = r2
<1>1. /\ q \in Position /\ q \notin DOMAIN t /\ Len(q) \in Nat \ {0}
      /\ \A p \in DOMAIN t : \A n \in 0 .. Len(p) : SubSeq(p, 1, n) \in DOMAIN t
  BY PlaceFacts, TreeFacts
<1>2. \A p \in Position :
        /\ Under(q, p) \in Position
        /\ Len(Under(q, p)) = Len(q) + Len(p) /\ Len(p) \in Nat
  BY <1>1, Together, ChildType
<1>3. \A p \in Position : Len(q) \in 0 .. Len(Under(q, p)) /\ SubSeq(Under(q, p), 1, Len(q)) = q
  BY <1>1 DEF Position, Under
<1>4. Under(q, r) \notin DOMAIN t
  BY <1>1, <1>3
<1>5. ASSUME NEW q2 \in Places(t), NEW r2 \in Position, Under(q, r) = Under(q2, r2)
      PROVE  q = q2 /\ r = r2
  <2>1. /\ q2 \in Position /\ q2 \notin DOMAIN t /\ Len(q2) \in Nat
        /\ \A n \in 0 .. Len(q2) - 1 : SubSeq(q2, 1, n) \in DOMAIN t
        /\ \A n \in 0 .. Len(q) - 1 : SubSeq(q, 1, n) \in DOMAIN t
    BY PlaceFacts
  <2>2. /\ Len(q2) \in 0 .. Len(Under(q2, r2)) /\ SubSeq(Under(q2, r2), 1, Len(q2)) = q2
        /\ Len(q) \in 0 .. Len(Under(q, r)) /\ SubSeq(Under(q, r), 1, Len(q)) = q
    BY <1>3, <2>1 DEF Position, Under
  <2>3. ~ (Len(q) < Len(q2))
    <3>. SUFFICES ASSUME Len(q) < Len(q2) PROVE FALSE
      OBVIOUS
    <3>1. SubSeq(Under(q2, r2), 1, Len(q)) = SubSeq(q2, 1, Len(q))
      BY <1>5, <2>1, <2>2, Beginning
    <3>2. Len(q) \in 0 .. Len(q2) - 1
      BY <1>1, <2>1
    <3>. QED
      BY <1>1, <1>5, <2>1, <2>2, <3>1, <3>2
  <2>4. ~ (Len(q2) < Len(q))
    <3>. SUFFICES ASSUME Len(q2) < Len(q) PROVE FALSE
      OBVIOUS
    <3>1. SubSeq(Under(q, r), 1, Len(q2)) = SubSeq(q, 1, Len(q2))
      BY <1>1, <1>5, <2>1, <2>2, Beginning
    <3>2. Len(q2) \in 0 .. Len(q) - 1
      BY <1>1, <2>1
    <3>. QED
      BY <1>1, <1>5, <2>1, <2>2, <3>1, <3>2
  <2>5. q = q2
    BY <1>1, <1>5, <2>1, <2>2, <2>3, <2>4
  <2>6. Under(q, r) = Under(q, r2)
    BY <1>5, <2>5
  <2>7. \A s, u, v \in Position : Under(v, s) = Under(v, u) => s = u
    BY Facts!ConcatSimplifications DEF Position, Under
  <2>. QED
    BY <1>1, <2>5, <2>6, <2>7
<1>. QED
  BY <1>4, <1>5

\* A tree has finitely many links not in use.
LEMMA PlacesFinite ==
  ASSUME NEW t, IsTree(t)
  PROVE  IsFiniteSet(Places(t))
<1>. DEFINE S == (DOMAIN t) \X Links
            f == [x \in S |-> Child(x[1], x[2])]
            R == {f[x] : x \in S}
<1>1. IsFiniteSet(Links)
  <2>1. Links = {"or"} \cup {"and"}
    BY DEF Links
  <2>. QED
    BY <2>1, FS_Singleton, FS_AddElement
<1>2. IsFiniteSet(S)
  <2>1. IsFiniteSet(DOMAIN t)
    BY TreeFacts
  <2>. QED
    BY ONLY <1>1, <2>1, FS_Product
<1>3. f \in Surjection(S, R)
  BY DEF Surjection
<1>4. IsFiniteSet(R)
  <2>. HIDE DEF S, f, R
  <2>. QED
    BY <1>2, <1>3, FS_Surjection
<1>5. Places(t) \subseteq R
  <2>. SUFFICES ASSUME NEW p \in DOMAIN t, NEW link \in Links PROVE Child(p, link) \in R
    BY DEF Places
  <2>. DEFINE x == <<p, link>>
  <2>1. x \in S /\ x[1] = p /\ x[2] = link
    OBVIOUS
  <2>2. f[x] = Child(p, link)
    BY <2>1, Zenon
  <2>. HIDE DEF f, x, S
  <2>. QED
    BY <2>1, <2>2, Zenon
<1>. QED
  BY <1>4, <1>5, FS_Subset

\* Positions of a graft: those of the tree, and those of the copies below the places.
Copies(A, c) == {Under(q, r) : q \in A, r \in DOMAIN c}

\* A copied node is a place and a position in the tree copied, put together.
LEMMA CopiesMember ==
  ASSUME NEW A, NEW c
  PROVE  /\ \A x \in Copies(A, c) : \E q \in A, r \in DOMAIN c : x = Under(q, r)
         /\ \A q \in A, r \in DOMAIN c : Under(q, r) \in Copies(A, c)
<1>1. ASSUME NEW x \in Copies(A, c) PROVE \E q \in A, r \in DOMAIN c : x = Under(q, r)
  BY DEF Copies
<1>2. ASSUME NEW q \in A, NEW r \in DOMAIN c PROVE Under(q, r) \in Copies(A, c)
  BY DEF Copies
<1>. QED
  BY <1>1, <1>2

\* Copies of a tree below finitely many places are finitely many nodes.
LEMMA CopiesFinite ==
  ASSUME NEW A, IsFiniteSet(A), NEW c, IsTree(c)
  PROVE  IsFiniteSet(Copies(A, c))
<1>. DEFINE S == A \X DOMAIN c
            f == [x \in S |-> Under(x[1], x[2])]
<1>1. IsFiniteSet(S)
  BY TreeFacts, FS_Product
<1>2. f \in Surjection(S, Copies(A, c))
  <2>1. \A x \in S : f[x] \in Copies(A, c)
    BY DEF Copies
  <2>2. \A y \in Copies(A, c) : \E x \in S : f[x] = y
    <3>. SUFFICES ASSUME NEW q \in A, NEW r \in DOMAIN c PROVE \E x \in S : f[x] = Under(q, r)
      BY CopiesMember
    <3>. DEFINE x == <<q, r>>
    <3>1. x \in S /\ x[1] = q /\ x[2] = r
      OBVIOUS
    <3>2. f[x] = Under(q, r)
      BY <3>1, Zenon
    <3>. HIDE DEF f, x, S
    <3>. QED
      BY <3>1, <3>2, Zenon
  <2>. QED
    BY <2>1, <2>2 DEF Surjection
<1>. QED
  BY <1>1, <1>2, FS_Surjection

\* What is where in a graft.
LEMMA GraftNodes ==
  ASSUME NEW t, IsTree(t), NEW c, IsTree(c), NEW A \in SUBSET Places(t)
  PROVE  /\ DOMAIN Graft(t, A, c) = DOMAIN t \cup Copies(A, c)
         /\ \A p \in DOMAIN t : Graft(t, A, c)[p] = t[p]
         /\ \A q \in A, r \in DOMAIN c : /\ Under(q, r) \in DOMAIN Graft(t, A, c)
                                         /\ Under(q, r) \notin DOMAIN t
                                         /\ Graft(t, A, c)[Under(q, r)] = c[r]
<1>. DEFINE Rest(p) == CHOOSE r \in DOMAIN c : \E q \in A : p = Under(q, r)
            u == Graft(t, A, c)
<1>1. u = [p \in DOMAIN t \cup Copies(A, c) |-> IF p \in DOMAIN t THEN t[p] ELSE c[Rest(p)]]
  BY DEF Graft, Copies, Under
<1>2. ASSUME NEW q \in A, NEW r \in DOMAIN c
      PROVE  Under(q, r) \notin DOMAIN t /\ Rest(Under(q, r)) = r
  <2>1. DOMAIN c \subseteq Position
    BY TreeFacts
  <2>2. /\ Under(q, r) \notin DOMAIN t
        /\ \A q2 \in A, r2 \in DOMAIN c : Under(q, r) = Under(q2, r2) => r = r2
    <3>1. q \in Places(t) /\ r \in Position /\ A \subseteq Places(t)
      BY <2>1
    <3>. QED
      BY <2>1, <3>1, PlacesApart
  <2>3. \E s \in DOMAIN c : \E q2 \in A : Under(q, r) = Under(q2, s)
    OBVIOUS
  <2>4. Rest(Under(q, r)) \in DOMAIN c /\ \E q2 \in A : Under(q, r) = Under(q2, Rest(Under(q, r)))
    BY <2>3, Zenon
  <2>. HIDE DEF Rest
  <2>. QED
    BY <2>2, <2>4
<1>3. \A q \in A, r \in DOMAIN c : Under(q, r) \in Copies(A, c)
  BY DEF Copies
<1>. HIDE DEF Rest, u
<1>4. /\ DOMAIN u = DOMAIN t \cup Copies(A, c)
      /\ \A p \in DOMAIN t : u[p] = t[p]
  BY <1>1
<1>5. \A q \in A, r \in DOMAIN c :
        /\ Under(q, r) \in DOMAIN u /\ Under(q, r) \notin DOMAIN t
        /\ u[Under(q, r)] = c[r]
  BY <1>1, <1>2, <1>3
<1>. QED
  BY <1>4, <1>5 DEF u

\* A graft is a tree.
LEMMA GraftTree ==
  ASSUME NEW t, IsTree(t), NEW c, IsTree(c), NEW A \in SUBSET Places(t)
  PROVE  IsTree(Graft(t, A, c))
<1>. DEFINE u == Graft(t, A, c)
<1>1. /\ DOMAIN u = DOMAIN t \cup Copies(A, c)
      /\ \A p \in DOMAIN t : u[p] = t[p]
      /\ \A q \in A, r \in DOMAIN c : Under(q, r) \in DOMAIN u /\ u[Under(q, r)] = c[r]
  BY GraftNodes
<1>2. /\ DOMAIN t \in SUBSET Position /\ DOMAIN c \in SUBSET Position
      /\ IsFiniteSet(DOMAIN t)
      /\ \A p \in DOMAIN t : \A n \in 0 .. Len(p) : SubSeq(p, 1, n) \in DOMAIN t
      /\ \A p \in DOMAIN c : \A n \in 0 .. Len(p) : SubSeq(p, 1, n) \in DOMAIN c
      /\ \A p \in DOMAIN t : t[p] \in [criterion : Criterions, negated : BOOLEAN]
      /\ \A p \in DOMAIN c : c[p] \in [criterion : Criterions, negated : BOOLEAN]
  BY TreeFacts
<1>3. IsFiniteSet(DOMAIN u)
  BY <1>1, <1>2, PlacesFinite, FS_Subset, CopiesFinite, FS_Union
<1>4. \A q \in A : q \in Position
  BY PlaceFacts
<1>5. DOMAIN u \subseteq Position
  <2>1. \A q \in A, r \in DOMAIN c : Under(q, r) \in Position
    BY <1>2, <1>4, Together
  <2>. QED
    BY <1>1, <1>2, <2>1, CopiesMember
<1>6. ASSUME NEW p \in DOMAIN u PROVE \A n \in 0 .. Len(p) : SubSeq(p, 1, n) \in DOMAIN u
  <2>1. CASE p \in DOMAIN t
    BY <1>1, <1>2, <2>1
  <2>2. CASE p \in Copies(A, c)
    <3>1. PICK q \in A, r \in DOMAIN c : p = Under(q, r)
      BY <2>2 DEF Copies
    <3>. SUFFICES ASSUME NEW n \in 0 .. Len(Under(q, r))
                  PROVE  SubSeq(Under(q, r), 1, n) \in DOMAIN u
      BY <3>1
    <3>2. /\ q \in Position /\ r \in Position /\ Len(q) \in Nat
          /\ \A m \in 0 .. Len(q) - 1 : SubSeq(q, 1, m) \in DOMAIN t
      BY <1>2, PlaceFacts
    <3>3. CASE n < Len(q)
      <4>1. n \in 0 .. Len(q) - 1 /\ n <= Len(q)
        BY <3>2, <3>3
      <4>2. SubSeq(Under(q, r), 1, n) = SubSeq(q, 1, n)
        BY <3>2, <4>1, Beginning
      <4>. QED
        BY <1>1, <3>2, <4>1, <4>2
    <3>4. CASE n >= Len(q)
      <4>1. /\ n - Len(q) \in 0 .. Len(r)
            /\ SubSeq(Under(q, r), 1, n) = Under(q, SubSeq(r, 1, n - Len(q)))
        BY <3>2, <3>4, Beginning
      <4>2. SubSeq(r, 1, n - Len(q)) \in DOMAIN c
        BY <1>2, <4>1
      <4>. QED
        BY <1>1, <4>1, <4>2
    <3>. QED
      BY <3>2, <3>3, <3>4
  <2>. QED
    BY <1>1, <2>1, <2>2
<1>7. \A p \in DOMAIN u : u[p] \in [criterion : Criterions, negated : BOOLEAN]
  BY <1>1, <1>2, CopiesMember
<1>8. u = [p \in DOMAIN u |-> u[p]]
  BY DEF Graft
<1>9. u \in [DOMAIN u -> [criterion : Criterions, negated : BOOLEAN]]
  <2>. HIDE DEF u
  <2>. QED
    BY <1>7, <1>8
<1>. HIDE DEF u
<1>10. IsTree(u)
  BY <1>3, <1>5, <1>6, <1>9, Zenon DEF IsTree, Position
<1>. QED
  BY <1>10 DEF u

\* The children of the tree's nodes in a graft: those there were, and the places.
LEMMA GraftChildren ==
  ASSUME NEW t, IsTree(t), NEW c, IsTree(c), DOMAIN c # {}, NEW A \in SUBSET Places(t),
         NEW p \in DOMAIN t, NEW link \in Links
  PROVE  Child(p, link) \in DOMAIN Graft(t, A, c) <=> Child(p, link) \in DOMAIN t \cup A
<1>. DEFINE u == Graft(t, A, c)
<1>1. /\ DOMAIN u = DOMAIN t \cup Copies(A, c)
      /\ <<>> \in DOMAIN c /\ DOMAIN c \subseteq Position /\ DOMAIN t \subseteq Position
  BY GraftNodes, TreeFacts
<1>2. /\ Child(p, link) \in Position /\ <<>> \in Position
      /\ Under(Child(p, link), <<>>) = Child(p, link)
  BY <1>1, ChildType, Together
<1>3. ASSUME Child(p, link) \in Copies(A, c), Child(p, link) \notin DOMAIN t
      PROVE  Child(p, link) \in A
  <2>1. PICK q \in A, r \in DOMAIN c : Child(p, link) = Under(q, r)
    BY <1>3 DEF Copies
  <2>2. Child(p, link) \in Places(t)
    BY <1>2, <1>3 DEF Places
  <2>3. Under(Child(p, link), <<>>) = Under(q, r) /\ r \in Position
    BY <1>1, <1>2, <2>1
  <2>4. Child(p, link) = q
    <3>1. q \in Places(t) /\ r \in Position
      BY <1>1
    <3>. QED
      BY <1>2, <2>2, <2>3, <3>1, PlacesApart
  <2>. QED
    BY <2>4
<1>4. ASSUME Child(p, link) \in A PROVE Child(p, link) \in Copies(A, c)
  <2>1. Under(Child(p, link), <<>>) \in Copies(A, c)
    BY <1>1, <1>4, CopiesMember
  <2>. QED
    BY <1>2, <2>1
<1>. QED
  BY <1>1, <1>3, <1>4

\* A graft has a copy below each place, which answers like the tree copied.
LEMMA GraftCopies ==
  ASSUME NEW t, IsTree(t), NEW c, IsTree(c), DOMAIN c # {}, NEW A \in SUBSET Places(t),
         NEW q \in A, NEW o
  PROVE  Answers(Graft(t, A, c), o)[q] = Match(c, o)
<1>. DEFINE u == Graft(t, A, c)
<1>1. /\ DOMAIN u = DOMAIN t \cup Copies(A, c)
      /\ \A r \in DOMAIN c : Under(q, r) \in DOMAIN u /\ u[Under(q, r)] = c[r]
  BY GraftNodes
<1>2. /\ <<>> \in DOMAIN c /\ DOMAIN c \subseteq Position /\ q \in Position
  BY TreeFacts, PlaceFacts
<1>3. ASSUME NEW r \in DOMAIN c, NEW link \in Links, Child(Under(q, r), link) \in DOMAIN u
      PROVE  Child(r, link) \in DOMAIN c
  <2>. r \in Position /\ q \in Places(t)
    BY <1>2
  <2>1. Child(Under(q, r), link) = Under(q, Child(r, link)) /\ Child(r, link) \in Position
    BY <1>2, Together, ChildType
  <2>2. Under(q, Child(r, link)) \notin DOMAIN t
    BY <2>1, PlacesApart
  <2>3. PICK q2 \in A, r2 \in DOMAIN c : Under(q, Child(r, link)) = Under(q2, r2)
    BY <1>1, <1>3, <2>1, <2>2, CopiesMember
  <2>4. Child(r, link) = r2
    <3>1. q2 \in Places(t) /\ r2 \in Position
      BY <1>2
    <3>. QED
      BY <2>1, <2>3, <3>1, PlacesApart
  <2>. QED
    BY <2>4
<1>4. Embeds(c, u, q, DOMAIN c)
  <2>1. \A r \in DOMAIN c : Below(c, r) \subseteq DOMAIN c
    BY DEF Below
  <2>. HIDE DEF u
  <2>. QED
    BY <1>1, <1>3, <2>1, Zenon DEF Embeds
<1>5. IsTree(u)
  BY GraftTree
<1>. HIDE DEF u
<1>6. Answers(u, o)[Under(q, <<>>)] = Answers(c, o)[<<>>]
  <2>1. \A r \in DOMAIN c : Answers(u, o)[Under(q, r)] = Answers(c, o)[r]
    <3>1. IsTree(c) /\ q \in Position
      BY <1>2
    <3>. QED
      BY ONLY <1>4, <1>5, <3>1, Transfer
  <2>. QED
    BY <1>2, <2>1
<1>7. Under(q, <<>>) = q
  BY <1>2, ChildType, Together
<1>. QED
  BY <1>6, <1>7 DEF u, Match

-----------------------------------------------------------------------------
\* Positions that only links to alternatives lead to.
AllOr(p) == \A i \in DOMAIN p : p[i] = "or"

\* The chain of alternatives goes on at an alternative, and at nothing else.
LEMMA AllOrFacts ==
  /\ AllOr(<<>>)
  /\ \A p \in Position, link \in Links : AllOr(Child(p, link)) <=> AllOr(p) /\ link = "or"
  /\ \A p \in Position, q \in Position : AllOr(Under(p, q)) <=> AllOr(p) /\ AllOr(q)
<1>1. AllOr(<<>>)
  BY DEF AllOr
<1>2. ASSUME NEW p \in Position, NEW link \in Links
      PROVE  AllOr(Child(p, link)) <=> AllOr(p) /\ link = "or"
  <2>1. /\ Len(p) \in Nat /\ DOMAIN p = 1 .. Len(p)
        /\ DOMAIN Child(p, link) = 1 .. Len(p) + 1
        /\ \A i \in 1 .. Len(p) : Child(p, link)[i] = p[i]
        /\ Child(p, link)[Len(p) + 1] = link
    BY DEF Position, Child
  <2>. QED
    BY <2>1 DEF AllOr
<1>3. ASSUME NEW p \in Position, NEW q \in Position
      PROVE  AllOr(Under(p, q)) <=> AllOr(p) /\ AllOr(q)
  <2>1. /\ Len(p) \in Nat /\ DOMAIN p = 1 .. Len(p)
        /\ Len(q) \in Nat /\ DOMAIN q = 1 .. Len(q)
        /\ DOMAIN Under(p, q) = 1 .. Len(p) + Len(q)
        /\ \A i \in 1 .. Len(p) : Under(p, q)[i] = p[i]
        /\ \A i \in 1 .. Len(q) : Under(p, q)[Len(p) + i] = q[i]
    BY DEF Position, Under
  <2>2. \A i \in 1 .. Len(p) + Len(q) : i \in 1 .. Len(p) \/ i - Len(p) \in 1 .. Len(q)
    BY <2>1
  <2>3. \A i \in 1 .. Len(p) + Len(q) : i = Len(p) + (i - Len(p))
    BY <2>1
  <2>4. \A i \in 1 .. Len(q) : Len(p) + i \in 1 .. Len(p) + Len(q)
    BY <2>1
  <2>5. \A i \in 1 .. Len(p) : i \in 1 .. Len(p) + Len(q)
    BY <2>1
  <2>6. ASSUME AllOr(Under(p, q)) PROVE AllOr(p) /\ AllOr(q)
    BY <2>1, <2>4, <2>5, <2>6 DEF AllOr
  <2>7. ASSUME AllOr(p), AllOr(q) PROVE AllOr(Under(p, q))
    BY <2>1, <2>2, <2>3, <2>7 DEF AllOr
  <2>. QED
    BY <2>6, <2>7
<1>. QED
  BY <1>1, <1>2, <1>3

\* A child has one parent.
LEMMA ChildInjective ==
  ASSUME NEW p \in Position, NEW q \in Position, NEW l \in Links, NEW m \in Links,
         Child(p, l) = Child(q, m)
  PROVE  p = q /\ l = m
BY Facts!AppendInjective DEF Position, Child

\* Or links its operand at the end of the chain of alternatives.
LEMMA OrPlacesFacts ==
  ASSUME NEW t, IsTree(t), DOMAIN t # {}
  PROVE  /\ OrPlaces(t) \subseteq Places(t) /\ OrPlaces(t) # {}
         /\ \A q \in OrPlaces(t) : AllOr(q)
         /\ \A p \in DOMAIN t, link \in Links :
              Child(p, link) \in OrPlaces(t)
                <=> p \in Chain(t) /\ link = "or" /\ Child(p, link) \notin DOMAIN t
<1>1. DOMAIN t \subseteq Position /\ <<>> \in DOMAIN t /\ "or" \in Links /\ "and" \in Links
  BY TreeFacts DEF Links
<1>2. OrPlaces(t) = {Child(p, "or") : p \in {q \in Chain(t) : Child(q, "or") \notin DOMAIN t}}
  BY DEF OrPlaces, Child, Has
<1>3. \A p : p \in Chain(t) <=> p \in DOMAIN t /\ AllOr(p)
  BY DEF Chain, AllOr
<1>4. \A p \in DOMAIN t, link \in Links :
        Child(p, link) \in OrPlaces(t)
          <=> p \in Chain(t) /\ link = "or" /\ Child(p, link) \notin DOMAIN t
  BY <1>1, <1>2, <1>3, ChildInjective
<1>5. \A q \in OrPlaces(t) : q \in Places(t) /\ AllOr(q)
  BY <1>1, <1>2, <1>3, ChildType, AllOrFacts DEF Places
<1>6. OrPlaces(t) # {}
  <2>. SUFFICES ASSUME OrPlaces(t) = {} PROVE FALSE
    OBVIOUS
  <2>. DEFINE S == {p \in DOMAIN t : p \notin Chain(t)}
  <2>1. ASSUME NEW p \in DOMAIN t, Below(t, p) \subseteq S, p \in Chain(t) PROVE FALSE
    <3>1. Child(p, "or") \in DOMAIN t
      BY <1>1, <1>4, <2>1
    <3>2. Child(p, "or") \in Chain(t)
      BY <1>1, <1>3, <2>1, <3>1, AllOrFacts
    <3>. QED
      BY <1>1, <2>1, <3>1, <3>2 DEF Below
  <2>2. DOMAIN t \subseteq S
    <3>1. \A p \in DOMAIN t : Below(t, p) \subseteq S => p \in S
      BY <2>1
    <3>. HIDE DEF S
    <3>. QED
      BY <3>1, TreeInduction
  <2>. QED
    BY <1>1, <1>3, <2>2, AllOrFacts
<1>. QED
  BY <1>4, <1>5, <1>6

\* And links its operand wherever a node has nothing by and.
LEMMA AndPlacesFacts ==
  ASSUME NEW t, IsTree(t), DOMAIN t # {}
  PROVE  /\ AndPlaces(t) \subseteq Places(t) /\ AndPlaces(t) # {}
         /\ \A q \in AndPlaces(t) : ~AllOr(q)
         /\ \A p \in DOMAIN t, link \in Links :
              Child(p, link) \in AndPlaces(t) <=> link = "and" /\ Child(p, link) \notin DOMAIN t
<1>1. DOMAIN t \subseteq Position /\ <<>> \in DOMAIN t /\ "or" \in Links /\ "and" \in Links
  BY TreeFacts DEF Links
<1>2. AndPlaces(t) = {Child(p, "and") : p \in {q \in DOMAIN t : Child(q, "and") \notin DOMAIN t}}
  BY DEF AndPlaces, Child, Has
<1>3. \A p \in DOMAIN t, link \in Links :
        Child(p, link) \in AndPlaces(t) <=> link = "and" /\ Child(p, link) \notin DOMAIN t
  BY <1>1, <1>2, ChildInjective
<1>4. \A q \in AndPlaces(t) : q \in Places(t) /\ ~AllOr(q)
  <2>. SUFFICES ASSUME NEW p \in DOMAIN t, Child(p, "and") \notin DOMAIN t
                PROVE  Child(p, "and") \in Places(t) /\ ~AllOr(Child(p, "and"))
    BY <1>2
  <2>1. Child(p, "and") \in Places(t)
    BY <1>1, ChildType DEF Places
  <2>2. ~AllOr(Child(p, "and"))
    BY <1>1, AllOrFacts
  <2>. QED
    BY <2>1, <2>2
<1>5. AndPlaces(t) # {}
  <2>. SUFFICES ASSUME AndPlaces(t) = {} PROVE FALSE
    OBVIOUS
  <2>1. ASSUME NEW p \in DOMAIN t, Below(t, p) \subseteq {} PROVE FALSE
    <3>1. Child(p, "and") \in DOMAIN t
      BY <1>1, <1>3
    <3>. QED
      BY <1>1, <2>1, <3>1 DEF Below
  <2>2. DOMAIN t \subseteq {}
    BY <2>1, TreeInduction
  <2>. QED
    BY <1>1, <2>2
<1>. QED
  BY <1>3, <1>4, <1>5

-----------------------------------------------------------------------------
\* What or makes of a criteria without negations on the chain of its alternatives
\* matches what one of the two operands matches.
LEMMA MatchOr ==
  ASSUME NEW t, IsTree(t), DOMAIN t # {}, NEW c, IsTree(c), DOMAIN c # {},
         Plain(t, Chain(t)), NEW d \in Outcomes, d \in Documents
  PROVE  Match(OrCriteria(t, c), d) = 1 <=> Match(t, d) = 1 \/ Match(c, d) = 1
<1>. DEFINE A == OrPlaces(t)
            u == OrCriteria(t, c)
            f == Answers(t, d)
            g == Answers(u, d)
            v == Match(c, d)
            S == DOMAIN t \ Chain(t)
            Right == {p \in DOMAIN t :
                        p \in Chain(t) => g[p] = IF f[p] = 1 \/ v = 1 THEN 1 ELSE 0}
<1>1. A \in SUBSET Places(t) /\ u = Graft(t, A, c)
  BY OrPlacesFacts DEF OrCriteria
<1>2. IsTree(u)
  BY <1>1, GraftTree
<1>3. DOMAIN t \subseteq DOMAIN u /\ \A p \in DOMAIN t : u[p] = t[p]
  <2>1. /\ DOMAIN Graft(t, A, c) = DOMAIN t \cup Copies(A, c)
        /\ \A p \in DOMAIN t : Graft(t, A, c)[p] = t[p]
    BY <1>1, GraftNodes
  <2>. QED
    BY <1>1, <2>1
<1>4. /\ DOMAIN t \subseteq Position /\ <<>> \in DOMAIN t /\ <<>> \in DOMAIN c
      /\ <<>> \in Position /\ "or" \in Links /\ "and" \in Links
      /\ \A p \in DOMAIN t : t[p].criterion \in Criterions
  BY TreeFacts, ChildType DEF Links
<1>5. /\ \A p \in DOMAIN t : f[p] = AnswerOf(t, d, f, p) /\ f[p] \in {0, 1}
      /\ \A p \in DOMAIN u : g[p] = AnswerOf(u, d, g, p)
      /\ v \in {0, 1}
  BY <1>2, <1>4, AnswersAt, AnswersType DEF Match
<1>6. /\ \A p : p \in Chain(t) <=> p \in DOMAIN t /\ AllOr(p)
      /\ \A p \in DOMAIN t : AllOr(Child(p, "or")) <=> AllOr(p)
      /\ \A p \in DOMAIN t : ~AllOr(Child(p, "and"))
      /\ \A p \in DOMAIN t : AllOr(Child(p, "and")) => AllOr(p)
      /\ AllOr(<<>>)
  BY <1>4, AllOrFacts DEF Chain, AllOr
<1>7. \A p \in DOMAIN t, link \in Links :
        Child(p, link) \in DOMAIN u
          <=> Child(p, link) \in DOMAIN t \/ (link = "or" /\ p \in Chain(t))
  <2>1. \A p \in DOMAIN t, link \in Links :
          Child(p, link) \in DOMAIN u <=> Child(p, link) \in DOMAIN t \cup A
    BY <1>1, GraftChildren
  <2>. QED
    BY <2>1, OrPlacesFacts
<1>8. \A q \in A : g[q] = v
  BY <1>1, GraftCopies
<1>9. \A p \in S : g[p] = f[p]
  <2>1. \A p \in S, link \in Links : ~AllOr(p) /\ ~AllOr(Child(p, link))
    BY <1>4, <1>6, AllOrFacts
  <2>2. \A p \in S : Below(t, p) \subseteq S
    BY <1>6, <2>1 DEF Below
  <2>3. \A p \in S : Under(<<>>, p) = p
    BY <1>4, Together
  <2>4. Embeds(t, u, <<>>, S)
    <3>. HIDE DEF u
    <3>. QED
      BY <1>3, <1>7, <2>2, <2>3 DEF Embeds
  <2>5. \A p \in S : g[Under(<<>>, p)] = f[p]
    <3>. HIDE DEF u, S
    <3>. QED
      BY <1>2, <1>4, <2>4, Transfer
  <2>. QED
    BY <2>3, <2>5
<1>. HIDE DEF u, f, g, v
<1>10. ASSUME NEW p \in DOMAIN t, Below(t, p) \subseteq Right, p \in Chain(t)
       PROVE  g[p] = IF f[p] = 1 \/ v = 1 THEN 1 ELSE 0
  <2>1. /\ f[p] = AnswerOf(t, d, f, p) /\ g[p] = AnswerOf(u, d, g, p) /\ p \in DOMAIN u
        /\ u[p] = t[p] /\ ~t[p].negated
        /\ d[t[p].criterion] \in {0, 1}
        /\ v \in {0, 1}
    BY <1>3, <1>4, <1>5, <1>10 DEF Plain, Documents
  <2>2. LET a == Child(p, "and") IN
          /\ a \in DOMAIN u <=> a \in DOMAIN t
          /\ a \in DOMAIN t => f[a] \in {0, 1} /\ g[a] = f[a]
    BY <1>4, <1>5, <1>6, <1>7, <1>9
  <2>3. LET a == Child(p, "or") IN
          /\ a \in DOMAIN u
          /\ a \in DOMAIN t => f[a] \in {0, 1} /\ g[a] = IF f[a] = 1 \/ v = 1 THEN 1 ELSE 0
          /\ a \notin DOMAIN t => g[a] = v
    <3>1. Child(p, "or") \in DOMAIN u
      BY <1>4, <1>7, <1>10
    <3>2. ASSUME Child(p, "or") \in DOMAIN t
          PROVE  Child(p, "or") \in Right /\ Child(p, "or") \in Chain(t)
      BY <1>4, <1>6, <1>10, <3>2 DEF Below
    <3>3. ASSUME Child(p, "or") \notin DOMAIN t PROVE Child(p, "or") \in A
      BY <1>4, <1>10, <3>3, OrPlacesFacts
    <3>. QED
      BY <1>5, <1>8, <3>1, <3>2, <3>3
  <2>. QED
    BY <2>1, <2>2, <2>3 DEF AnswerOf, Combined
<1>11. DOMAIN t \subseteq Right
  <2>1. \A p \in DOMAIN t : Below(t, p) \subseteq Right => p \in Right
    BY <1>10
  <2>. HIDE DEF Right
  <2>. QED
    BY <2>1, TreeInduction
<1>12. g[<<>>] = IF f[<<>>] = 1 \/ v = 1 THEN 1 ELSE 0
  BY <1>4, <1>6, <1>11
<1>. QED
  BY <1>12 DEF f, g, u, v, Match

\* What and makes of a criteria without negations, in as many places as it has come
\* to, matches no more than the left operand and no less than both; and no more than
\* both when it has come to all.
LEMMA MatchAnd ==
  ASSUME NEW t, IsTree(t), DOMAIN t # {}, NEW c, IsTree(c), DOMAIN c # {},
         NEW A \in SUBSET AndPlaces(t), Plain(t, DOMAIN t), NEW d \in Outcomes, d \in Documents
  PROVE  LET m == Match(Graft(t, A, c), d) IN
           /\ m = 1 => Match(t, d) = 1
           /\ Match(t, d) = 1 /\ Match(c, d) = 1 => m = 1
           /\ A = AndPlaces(t) /\ m = 1 => Match(c, d) = 1
<1>. DEFINE u == Graft(t, A, c)
            f == Answers(t, d)
            g == Answers(u, d)
            v == Match(c, d)
            all == A = AndPlaces(t)
            Good(x, y) == /\ y \in {0, 1} /\ (y = 1 => x = 1)
                          /\ (x = 1 /\ v = 1 => y = 1) /\ (all /\ y = 1 => v = 1)
            Right == {p \in DOMAIN t : Good(f[p], g[p])}
<1>1. A \in SUBSET Places(t)
  BY AndPlacesFacts
<1>2. IsTree(u)
  BY <1>1, GraftTree
<1>3. DOMAIN t \subseteq DOMAIN u /\ \A p \in DOMAIN t : u[p] = t[p]
  <2>1. /\ DOMAIN Graft(t, A, c) = DOMAIN t \cup Copies(A, c)
        /\ \A p \in DOMAIN t : Graft(t, A, c)[p] = t[p]
    BY <1>1, GraftNodes
  <2>. QED
    BY <1>1, <2>1
<1>4. /\ DOMAIN t \subseteq Position /\ <<>> \in DOMAIN t /\ <<>> \in DOMAIN c
      /\ "or" \in Links /\ "and" \in Links
      /\ \A p \in DOMAIN t : t[p].criterion \in Criterions
  BY TreeFacts DEF Links
<1>5. /\ \A p \in DOMAIN t : f[p] = AnswerOf(t, d, f, p) /\ f[p] \in {0, 1}
      /\ \A p \in DOMAIN u : g[p] = AnswerOf(u, d, g, p)
      /\ v \in {0, 1}
  BY <1>2, <1>4, AnswersAt, AnswersType DEF Match
<1>6. \A p \in DOMAIN t, link \in Links :
        Child(p, link) \in DOMAIN u <=> Child(p, link) \in DOMAIN t \cup A
  BY <1>1, GraftChildren
<1>7. /\ \A p \in DOMAIN t, link \in Links :
           Child(p, link) \in AndPlaces(t) <=> link = "and" /\ Child(p, link) \notin DOMAIN t
      /\ A \subseteq AndPlaces(t) /\ "or" # "and"
  BY AndPlacesFacts
<1>8. \A q \in A : g[q] = v
  BY <1>1, GraftCopies
<1>. HIDE DEF u, f, g, v
<1>9. ASSUME NEW p \in DOMAIN t, Below(t, p) \subseteq Right PROVE Good(f[p], g[p])
  <2>1. /\ f[p] = AnswerOf(t, d, f, p) /\ g[p] = AnswerOf(u, d, g, p)
        /\ u[p] = t[p] /\ ~t[p].negated
        /\ d[t[p].criterion] \in {0, 1}
        /\ v \in {0, 1}
    BY <1>3, <1>4, <1>5 DEF Plain, Documents
  <2>2. LET a == Child(p, "and") IN
          /\ a \in DOMAIN t => a \in DOMAIN u /\ f[a] \in {0, 1} /\ Good(f[a], g[a])
          /\ a \notin DOMAIN t /\ a \in DOMAIN u => g[a] = v
          /\ a \notin DOMAIN t /\ all => a \in DOMAIN u
    <3>1. ASSUME Child(p, "and") \in DOMAIN t PROVE Child(p, "and") \in Right
      BY <1>4, <1>9, <3>1 DEF Below
    <3>. QED
      BY <1>3, <1>4, <1>5, <1>6, <1>7, <1>8, <3>1
  <2>3. LET a == Child(p, "or") IN
          /\ a \in DOMAIN u <=> a \in DOMAIN t
          /\ a \in DOMAIN t => f[a] \in {0, 1} /\ Good(f[a], g[a])
    <3>1. ASSUME Child(p, "or") \in DOMAIN t PROVE Child(p, "or") \in Right
      BY <1>4, <1>9, <3>1 DEF Below
    <3>. QED
      BY <1>4, <1>5, <1>6, <1>7, <3>1
  <2>. QED
    BY <2>1, <2>2, <2>3 DEF AnswerOf, Combined
<1>10. DOMAIN t \subseteq Right
  <2>1. \A p \in DOMAIN t : Below(t, p) \subseteq Right => p \in Right
    BY <1>9
  <2>. HIDE DEF Right
  <2>. QED
    BY <2>1, TreeInduction
<1>11. Good(f[<<>>], g[<<>>])
  BY <1>4, <1>10
<1>. QED
  BY <1>11 DEF f, g, u, v, Match

-----------------------------------------------------------------------------
\* Negating a criteria, or not, keeps a tree whose other nodes answer as before.
Negating(t, b) == [t EXCEPT ![<<>>].negated = b]

\* It is a tree with the same nodes, the root apart.
LEMMA NegatingTree ==
  ASSUME NEW t, IsTree(t), DOMAIN t # {}, NEW b \in BOOLEAN
  PROVE  /\ IsTree(Negating(t, b)) /\ DOMAIN Negating(t, b) = DOMAIN t
         /\ \A p \in DOMAIN t \ {<<>>} : Negating(t, b)[p] = t[p]
         /\ Negating(t, b)[<<>>].criterion = t[<<>>].criterion
         /\ Negating(t, b)[<<>>].negated = b
<1>. DEFINE u == Negating(t, b)
            Nodes == [criterion : Criterions, negated : BOOLEAN]
<1>1. <<>> \in DOMAIN t /\ \A p \in DOMAIN t : t[p] \in Nodes
  BY TreeFacts
<1>2. t \in [DOMAIN t -> Nodes]
  BY Zenon DEF IsTree
<1>3. /\ DOMAIN u = DOMAIN t
      /\ \A p \in DOMAIN t : u[p] = IF p = <<>> THEN [t[<<>>] EXCEPT !.negated = b] ELSE t[p]
  BY <1>1, <1>2 DEF Negating
<1>4. /\ [t[<<>>] EXCEPT !.negated = b] \in Nodes
      /\ [t[<<>>] EXCEPT !.negated = b].negated = b
      /\ [t[<<>>] EXCEPT !.negated = b].criterion = t[<<>>].criterion
  BY <1>1
<1>5. u = [p \in DOMAIN u |-> u[p]]
  BY <1>2 DEF Negating
<1>6. u \in [DOMAIN u -> Nodes]
  <2>1. \A p \in DOMAIN u : u[p] \in Nodes
    BY <1>1, <1>3, <1>4
  <2>. HIDE DEF u, Nodes
  <2>. QED
    BY <1>5, <2>1
<1>. HIDE DEF u
<1>7. IsTree(u)
  BY <1>3, <1>6, Zenon DEF IsTree
<1>. QED
  BY <1>1, <1>3, <1>4, <1>7 DEF u

\* Negation complements what is matched.
LEMMA MatchNegating ==
  ASSUME NEW t, IsTree(t), DOMAIN t # {}, NEW b \in BOOLEAN,
         NEW d \in Outcomes, d \in Documents
  PROVE  Match(Negating(t, b), d) = IF t[<<>>].negated = b THEN Match(t, d) ELSE 1 - Match(t, d)
<1>. DEFINE u == Negating(t, b)
            f == Answers(t, d)
            g == Answers(u, d)
            S == DOMAIN t \ {<<>>}
<1>1. /\ IsTree(u) /\ DOMAIN u = DOMAIN t /\ \A p \in S : u[p] = t[p]
      /\ u[<<>>].criterion = t[<<>>].criterion /\ u[<<>>].negated = b
  BY NegatingTree
<1>2. /\ DOMAIN t \subseteq Position /\ <<>> \in DOMAIN t /\ <<>> \in Position
      /\ "or" \in Links /\ "and" \in Links
      /\ t[<<>>].criterion \in Criterions /\ t[<<>>].negated \in BOOLEAN
  BY TreeFacts, ChildType DEF Links
<1>3. /\ \A p \in DOMAIN t : f[p] = AnswerOf(t, d, f, p) /\ f[p] \in {0, 1}
      /\ g[<<>>] = AnswerOf(u, d, g, <<>>)
  BY <1>1, <1>2, AnswersAt, AnswersType
<1>4. \A p \in Position, link \in Links : Child(p, link) # <<>>
  BY ChildType
<1>5. \A p \in S : g[p] = f[p]
  <2>1. \A p \in S : Under(<<>>, p) = p /\ Below(t, p) \subseteq S
    BY <1>2, <1>4, Together DEF Below
  <2>2. Embeds(t, u, <<>>, S)
    <3>. HIDE DEF u
    <3>. QED
      BY <1>1, <2>1 DEF Embeds
  <2>3. \A p \in S : g[Under(<<>>, p)] = f[p]
    <3>. HIDE DEF u, S
    <3>. QED
      BY <1>1, <1>2, <2>2, Transfer
  <2>. QED
    BY <2>1, <2>3
<1>6. \A link \in Links : Child(<<>>, link) \in DOMAIN t =>
        f[Child(<<>>, link)] \in {0, 1} /\ g[Child(<<>>, link)] = f[Child(<<>>, link)]
  BY <1>2, <1>3, <1>4, <1>5
<1>. HIDE DEF u, f, g
<1>7. /\ Child(<<>>, "and") \in DOMAIN t =>
           f[Child(<<>>, "and")] \in {0, 1} /\ g[Child(<<>>, "and")] = f[Child(<<>>, "and")]
      /\ Child(<<>>, "or") \in DOMAIN t =>
           f[Child(<<>>, "or")] \in {0, 1} /\ g[Child(<<>>, "or")] = f[Child(<<>>, "or")]
  BY <1>2, <1>6
<1>8. d[t[<<>>].criterion] \in {0, 1}
  BY <1>2 DEF Documents
<1>9. g[<<>>] = IF t[<<>>].negated = b THEN f[<<>>] ELSE 1 - f[<<>>]
  BY <1>1, <1>2, <1>3, <1>7, <1>8 DEF AnswerOf, Combined
<1>. QED
  BY <1>9 DEF f, g, u, Match

\* A criteria with one criterion is a tree that matches what the criterion does.
LEMMA LeafFacts ==
  ASSUME NEW k \in Criterions
  PROVE  /\ IsTree(Leaf(k)) /\ DOMAIN Leaf(k) = {<<>>} /\ ~Leaf(k)[<<>>].negated
         /\ \A d \in Documents : Match(Leaf(k), d) = d[k]
<1>1. /\ DOMAIN Leaf(k) = {<<>>}
      /\ Leaf(k)[<<>>].criterion = k /\ Leaf(k)[<<>>].negated = FALSE
      /\ Leaf(k) \in [DOMAIN Leaf(k) -> [criterion : Criterions, negated : BOOLEAN]]
  BY DEF Leaf
<1>2. IsFiniteSet({<<>>}) /\ {<<>>} \subseteq Seq(Links)
  <2>1. IsFiniteSet({<<>>})
    BY FS_Singleton, Zenon
  <2>. QED
    BY <2>1
<1>3. \A p \in {<<>>} : \A n \in 0 .. Len(p) : SubSeq(p, 1, n) \in {<<>>}
  OBVIOUS
<1>4. IsTree(Leaf(k))
  BY <1>1, <1>2, <1>3, Zenon DEF IsTree
<1>5. ASSUME NEW d \in Documents PROVE Match(Leaf(k), d) = d[k]
  <2>1. Answers(Leaf(k), d)[<<>>] = AnswerOf(Leaf(k), d, Answers(Leaf(k), d), <<>>)
    BY <1>1, <1>4, AnswersAt
  <2>2. Child(<<>>, "and") # <<>> /\ Child(<<>>, "or") # <<>>
    BY ChildType DEF Links
  <2>3. d[k] \in {0, 1}
    BY DEF Documents
  <2>. QED
    BY <1>1, <2>1, <2>2, <2>3 DEF Match, AnswerOf, Combined
<1>. QED
  BY <1>1, <1>4, <1>5

\* No criteria is a tree without nodes.
LEMMA NoneFacts == IsTree(None) /\ DOMAIN None = {}
<1>1. DOMAIN None = {} /\ None \in [{} -> [criterion : Criterions, negated : BOOLEAN]]
  BY DEF None
<1>. QED
  BY <1>1, FS_EmptySet DEF IsTree

-----------------------------------------------------------------------------
\* No negation below the root, and none on the chain of alternatives below the root.
Clean(t)   == Plain(t, DOMAIN t \ {<<>>})
Chained(t) == Plain(t, Chain(t) \ {<<>>})

\* Where the negations of a graft are: those of the tree, and those of the copies.
LEMMA PlainGraft ==
  ASSUME NEW t, IsTree(t), DOMAIN t # {}, NEW c, IsTree(c), DOMAIN c # {},
         NEW A \in SUBSET Places(t)
  PROVE  LET u == Graft(t, A, c) IN
           /\ DOMAIN u # {} /\ u[<<>>] = t[<<>>]
           /\ Clean(u) => Clean(t)
           /\ A # {} => (Clean(u) <=> Clean(t) /\ Plain(c, DOMAIN c))
           /\ (\A q \in A : ~AllOr(q)) => (Chained(u) <=> Chained(t))
           /\ A # {} /\ (\A q \in A : AllOr(q))
                => (Chained(u) <=> Chained(t) /\ Plain(c, Chain(c)))
<1>. DEFINE u == Graft(t, A, c)
<1>1. /\ DOMAIN u = DOMAIN t \cup Copies(A, c)
      /\ \A p \in DOMAIN t : u[p] = t[p]
      /\ \A q \in A, r \in DOMAIN c : /\ Under(q, r) \in DOMAIN u
                                      /\ Under(q, r) \notin DOMAIN t
                                      /\ u[Under(q, r)] = c[r]
  BY GraftNodes
<1>2. /\ <<>> \in DOMAIN t /\ <<>> \in DOMAIN c /\ DOMAIN c \subseteq Position
      /\ \A q \in A : q \in Position
  BY TreeFacts, PlaceFacts
<1>3. /\ \A p : p \in Chain(t) <=> p \in DOMAIN t /\ AllOr(p)
      /\ \A p : p \in Chain(c) <=> p \in DOMAIN c /\ AllOr(p)
      /\ \A p : p \in Chain(u) <=> p \in DOMAIN u /\ AllOr(p)
  BY DEF Chain, AllOr
<1>4. \A q \in A, r \in DOMAIN c : AllOr(Under(q, r)) <=> AllOr(q) /\ AllOr(r)
  BY <1>2, AllOrFacts
<1>5. \A x \in DOMAIN u : x \in DOMAIN t \/ \E q \in A, r \in DOMAIN c : x = Under(q, r)
  BY <1>1, CopiesMember
<1>. HIDE DEF u
<1>6. DOMAIN u # {} /\ u[<<>>] = t[<<>>]
  BY <1>1, <1>2
<1>7. Clean(u) => Clean(t)
  BY <1>1 DEF Clean, Plain
<1>8. ASSUME A # {} PROVE Clean(u) <=> Clean(t) /\ Plain(c, DOMAIN c)
  <2>1. ASSUME Clean(u) PROVE Plain(c, DOMAIN c)
    <3>. SUFFICES ASSUME NEW r \in DOMAIN c PROVE ~c[r].negated
      BY DEF Plain
    <3>1. PICK q \in A : TRUE
      BY <1>8
    <3>2. Under(q, r) \in DOMAIN u \ {<<>>} /\ u[Under(q, r)] = c[r]
      BY <1>1, <1>2
    <3>. QED
      BY <2>1, <3>2 DEF Clean, Plain
  <2>2. ASSUME Clean(t), Plain(c, DOMAIN c) PROVE Clean(u)
    <3>. SUFFICES ASSUME NEW x \in DOMAIN u \ {<<>>} PROVE ~u[x].negated
      BY DEF Clean, Plain
    <3>. QED
      BY <1>1, <1>5, <2>2 DEF Clean, Plain
  <2>. QED
    BY <1>7, <2>1, <2>2
<1>9. ASSUME \A q \in A : ~AllOr(q) PROVE Chained(u) <=> Chained(t)
  <2>1. \A x : x \in Chain(u) <=> x \in Chain(t)
    BY <1>1, <1>3, <1>4, <1>5, <1>9
  <2>2. \A x \in Chain(t) : u[x] = t[x]
    BY <1>1, <1>3
  <2>. QED
    BY <2>1, <2>2 DEF Chained, Plain
<1>10. ASSUME A # {}, \A q \in A : AllOr(q)
       PROVE  Chained(u) <=> Chained(t) /\ Plain(c, Chain(c))
  <2>1. ASSUME Chained(u) PROVE Plain(c, Chain(c))
    <3>. SUFFICES ASSUME NEW r \in Chain(c) PROVE ~c[r].negated
      BY DEF Plain
    <3>1. PICK q \in A : TRUE
      BY <1>10
    <3>2. r \in DOMAIN c /\ AllOr(r)
      BY <1>3
    <3>3. Under(q, r) \in Chain(u) \ {<<>>} /\ u[Under(q, r)] = c[r]
      BY <1>1, <1>2, <1>3, <1>4, <1>10, <3>2
    <3>. QED
      BY <2>1, <3>3 DEF Chained, Plain
  <2>2. ASSUME Chained(u) PROVE Chained(t)
    BY <1>1, <1>3, <2>2 DEF Chained, Plain
  <2>3. ASSUME Chained(t), Plain(c, Chain(c)) PROVE Chained(u)
    <3>. SUFFICES ASSUME NEW x \in Chain(u) \ {<<>>} PROVE ~u[x].negated
      BY DEF Chained, Plain
    <3>1. CASE x \in DOMAIN t
      BY <1>1, <1>3, <2>3, <3>1 DEF Chained, Plain
    <3>2. CASE x \notin DOMAIN t
      <4>1. PICK q \in A, r \in DOMAIN c : x = Under(q, r)
        BY <1>3, <1>5, <3>2
      <4>2. r \in Chain(c) /\ u[x] = c[r]
        BY <1>1, <1>3, <1>4, <4>1
      <4>. QED
        BY <2>3, <4>2 DEF Plain
    <3>. QED
      BY <3>1, <3>2
  <2>. QED
    BY <2>1, <2>2, <2>3
<1>. QED
  BY <1>6, <1>7, <1>8, <1>9, <1>10 DEF u

-----------------------------------------------------------------------------
\* And that ends early has come to some of the places, and or and and to theirs.
LEMMA UntilPlaces ==
  ASSUME NEW t, NEW c, NEW p
  PROVE  \E A \in SUBSET AndPlaces(t) : AndUntil(t, c, p) = Graft(t, A, c)
BY DEF AndUntil

\* What is composed of two criteria is a tree.
LEMMA ComposedTrees ==
  ASSUME NEW t, IsTree(t), DOMAIN t # {}, NEW c, IsTree(c)
  PROVE  /\ IsTree(OrCriteria(t, c)) /\ IsTree(AndCriteria(t, c))
         /\ \A p : IsTree(AndUntil(t, c, p))
<1>1. OrPlaces(t) \in SUBSET Places(t) /\ AndPlaces(t) \in SUBSET Places(t)
  BY OrPlacesFacts, AndPlacesFacts
<1>2. \A A \in SUBSET Places(t) : IsTree(Graft(t, A, c))
  BY GraftTree
<1>3. IsTree(OrCriteria(t, c)) /\ IsTree(AndCriteria(t, c))
  BY <1>1, <1>2 DEF OrCriteria, AndCriteria
<1>4. ASSUME NEW p PROVE IsTree(AndUntil(t, c, p))
  BY <1>1, <1>2, UntilPlaces
<1>. QED
  BY <1>3, <1>4

\* The handles stay a function to trees when one of them is given a tree.
LEMMA ChangeTyped ==
  ASSUME NEW H, H = [x \in Handles |-> H[x]], \A x \in Handles : IsTree(H[x]),
         NEW h \in Handles, NEW t, IsTree(t)
  PROVE  LET G == [H EXCEPT ![h] = t] IN
           G = [x \in Handles |-> G[x]] /\ \A x \in Handles : IsTree(G[x])
<1>. DEFINE G == [H EXCEPT ![h] = t]
<1>1. /\ G = [x \in Handles |-> IF x = h THEN t ELSE H[x]]
      /\ \A x \in Handles : G[x] = IF x = h THEN t ELSE H[x]
  OBVIOUS
<1>. HIDE DEF G
<1>2. G = [x \in Handles |-> G[x]] /\ \A x \in Handles : IsTree(G[x])
  BY <1>1
<1>. QED
  BY <1>2 DEF G

\* Type correctness is inductive.
LEMMA TypeOKStep == TypeOK /\ [Next]_vars => TypeOK'
<1>. SUFFICES ASSUME TypeOK, [Next]_vars PROVE TypeOK'
  OBVIOUS
<1>1. held = [x \in Handles |-> held[x]] /\ \A x \in Handles : IsTree(held[x])
  BY DEF TypeOK
<1>2. ASSUME NEW h \in Handles, NEW t, IsTree(t), held' = [held EXCEPT ![h] = t]
      PROVE  TypeOK'
  BY <1>1, <1>2, ChangeTyped DEF TypeOK
<1>3. ASSUME NEW h \in Handles, NEW g \in Handles, NEW t, IsTree(t),
             held' = [held EXCEPT ![h] = t, ![g] = None]
      PROVE  TypeOK'
  <2>. DEFINE G == [held EXCEPT ![h] = t]
  <2>1. G = [x \in Handles |-> G[x]] /\ \A x \in Handles : IsTree(G[x])
    BY <1>1, <1>3, ChangeTyped
  <2>2. held' = [G EXCEPT ![g] = None]
    BY <1>3
  <2>. HIDE DEF G
  <2>. QED
    BY <2>1, <2>2, NoneFacts, ChangeTyped DEF TypeOK
<1>4. CASE UNCHANGED vars
  BY <1>4 DEF TypeOK, vars
<1>5. ASSUME NEW h \in Handles, NEW g \in Handles,
             \/ \E k \in Criterions : New(h, k)
             \/ Clone(h, g) \/ \E b \in BOOLEAN : SetNegation(h, b)
             \/ Or(h, g) \/ And(h, g) \/ AndFails(h, g) \/ Destroy(h)
      PROVE  TypeOK'
  <2>1. ASSUME NEW k \in Criterions, New(h, k) PROVE TypeOK'
    BY <1>2, <2>1, LeafFacts DEF New
  <2>2. CASE Clone(h, g)
    BY <1>1, <1>2, <2>2 DEF Clone
  <2>3. ASSUME NEW b \in BOOLEAN, SetNegation(h, b) PROVE TypeOK'
    <3>1. held' = [held EXCEPT ![h] = Negating(held[h], b)] /\ DOMAIN held[h] # {}
      BY <2>3 DEF SetNegation, Negating, Holds
    <3>. QED
      BY <1>1, <1>2, <3>1, NegatingTree
  <2>4. CASE Or(h, g)
    BY <1>1, <1>3, <2>4, ComposedTrees DEF Or, Holds
  <2>5. CASE And(h, g)
    BY <1>1, <1>3, <2>5, ComposedTrees DEF And, Holds
  <2>6. CASE AndFails(h, g)
    <3>1. PICK p \in Alternatives(held[h]) :
            held' = [held EXCEPT ![h] = AndUntil(held[h], held[g], p)]
      BY <2>6 DEF AndFails
    <3>2. DOMAIN held[h] # {}
      BY <2>6 DEF AndFails, Holds
    <3>. QED
      BY <1>1, <1>2, <3>1, <3>2, ComposedTrees
  <2>7. CASE Destroy(h)
    BY <1>2, <2>7, NoneFacts DEF Destroy
  <2>. QED
    BY <1>5, <2>1, <2>2, <2>3, <2>4, <2>5, <2>6, <2>7
<1>. QED
  BY <1>4, <1>5 DEF Next

\* Every handle holds a tree, or none: the criteria a program composes never lose a
\* node on the way to another, and never lead back to themselves.
THEOREM TypeCorrect == Spec => []TypeOK
<1>1. Init => TypeOK
  <2>. SUFFICES ASSUME Init PROVE TypeOK
    OBVIOUS
  <2>1. held = [x \in Handles |-> None] /\ \A x \in Handles : held[x] = None
    BY DEF Init
  <2>. QED
    BY <2>1, NoneFacts DEF TypeOK
<1>. QED
  BY <1>1, TypeOKStep, PTL DEF Spec

\* An error that did not keep match() from answering did not change the answer.
THEOREM ErrorsNeverLieHolds == Spec => []ErrorsNeverLie
<1>1. TypeOK => ErrorsNeverLie
  <2>. SUFFICES ASSUME TypeOK, NEW h \in Handles, Holds(h), NEW o \in Outcomes,
                       Match(held[h], o) >= 0, NEW d \in Completions(o)
                PROVE  Match(held[h], d) = Match(held[h], o)
    BY DEF ErrorsNeverLie
  <2>1. IsTree(held[h]) /\ <<>> \in DOMAIN held[h]
    BY TreeFacts DEF TypeOK, Holds
  <2>. QED
    BY <2>1, AnswersDespiteErrors DEF Match
<1>. QED
  BY <1>1, TypeCorrect, PTL

-----------------------------------------------------------------------------
\* What CriteriaAlgebra sees of a criteria, and of what the handles hold.
Value(t)    == IF DOMAIN t # {} THEN {d \in Documents : Match(t, d) = 1} ELSE {}
RootNeg(t)  == DOMAIN t # {} /\ t[<<>>].negated
UsedIn(H)     == {x \in Handles : DOMAIN H[x] # {}}
ValuesIn(H)   == [x \in Handles |-> Value(H[x])]
NegationsIn(H) == [x \in Handles |-> RootNeg(H[x])]
CleansIn(H)   == [x \in Handles |-> Clean(H[x])]
ChainsIn(H) == [x \in Handles |-> Chained(H[x])]

\* Without nodes there is nothing that matches and nothing negated.
LEMMA NoneSeen == Value(None) = {} /\ RootNeg(None) = FALSE /\ Clean(None) = TRUE
                  /\ Chained(None) = TRUE
<1>1. Value(None) = {} /\ RootNeg(None) = FALSE
  BY NoneFacts DEF Value, RootNeg
<1>2. Clean(None) = TRUE /\ Chained(None) = TRUE
  BY NoneFacts DEF Clean, Chained, Plain, Chain
<1>. QED
  BY <1>1, <1>2

\* A document is an outcome without errors, and matches or does not.
LEMMA DocumentAnswers ==
  /\ \A d \in Documents : d \in Outcomes
  /\ \A t : IsTree(t) /\ DOMAIN t # {} => \A d \in Documents : Match(t, d) \in {0, 1}
<1>1. \A d \in Documents : d \in Outcomes
  BY DEF Documents, Outcomes
<1>2. ASSUME NEW t, IsTree(t), DOMAIN t # {}, NEW d \in Documents PROVE Match(t, d) \in {0, 1}
  BY <1>1, <1>2, AnswersType, TreeFacts DEF Match
<1>. QED
  BY <1>1, <1>2

\* What is seen of a criteria with one criterion.
LEMMA LeafSeen ==
  ASSUME NEW k \in Criterions
  PROVE  /\ Value(Leaf(k)) = {d \in Documents : d[k] = 1} /\ RootNeg(Leaf(k)) = FALSE
         /\ Clean(Leaf(k)) = TRUE /\ Chained(Leaf(k)) = TRUE
<1>1. Value(Leaf(k)) = {d \in Documents : d[k] = 1}
  BY LeafFacts DEF Value
<1>2. RootNeg(Leaf(k)) = FALSE
  BY LeafFacts DEF RootNeg
<1>3. Clean(Leaf(k)) = TRUE /\ Chained(Leaf(k)) = TRUE
  BY LeafFacts DEF Clean, Chained, Plain, Chain
<1>. QED
  BY <1>1, <1>2, <1>3

\* What is seen of a criteria with another negation of its root.
LEMMA NegatingSeen ==
  ASSUME NEW t, IsTree(t), DOMAIN t # {}, NEW b \in BOOLEAN
  PROVE  /\ Value(Negating(t, b)) = IF RootNeg(t) = b THEN Value(t) ELSE Documents \ Value(t)
         /\ RootNeg(Negating(t, b)) = b
         /\ Clean(Negating(t, b)) = Clean(t) /\ Chained(Negating(t, b)) = Chained(t)
<1>. DEFINE u == Negating(t, b)
<1>1. /\ DOMAIN u = DOMAIN t /\ \A p \in DOMAIN t \ {<<>>} : u[p] = t[p]
      /\ u[<<>>].negated = b
  BY NegatingTree
<1>2. t[<<>>].negated \in BOOLEAN
  BY TreeFacts
<1>3. \A d \in Documents :
        /\ Match(u, d) = IF t[<<>>].negated = b THEN Match(t, d) ELSE 1 - Match(t, d)
        /\ Match(t, d) \in {0, 1}
  BY MatchNegating, DocumentAnswers
<1>. HIDE DEF u
<1>4. Value(u) = IF RootNeg(t) = b THEN Value(t) ELSE Documents \ Value(t)
  <2>1. CASE t[<<>>].negated = b
    BY <1>1, <1>2, <1>3, <2>1 DEF Value, RootNeg
  <2>2. CASE t[<<>>].negated # b
    <3>1. RootNeg(t) # b
      BY <1>2, <2>2 DEF RootNeg
    <3>2. \A d \in Documents : Match(u, d) = 1 <=> Match(t, d) # 1
      BY <1>3, <2>2
    <3>. QED
      BY <1>1, <3>1, <3>2 DEF Value
  <2>. QED
    BY <2>1, <2>2
<1>5. RootNeg(u) = b
  BY <1>1 DEF RootNeg
<1>6. Clean(u) = Clean(t)
  BY <1>1 DEF Clean, Plain
<1>7. Chained(u) = Chained(t)
  BY <1>1 DEF Chained, Plain, Chain
<1>. QED
  BY <1>4, <1>5, <1>6, <1>7 DEF u

\* No negation at all, and none on the chain: the root and what is below it.
LEMMA WholePlain ==
  ASSUME NEW t, IsTree(t), DOMAIN t # {}
  PROVE  /\ Plain(t, DOMAIN t) <=> ~RootNeg(t) /\ Clean(t)
         /\ Plain(t, Chain(t)) <=> ~RootNeg(t) /\ Chained(t)
<1>1. <<>> \in DOMAIN t /\ <<>> \in Chain(t) /\ Chain(t) \subseteq DOMAIN t
  BY TreeFacts DEF Chain
<1>. QED
  BY <1>1 DEF Plain, RootNeg, Clean, Chained

\* What is seen of an or.
LEMMA OrSeen ==
  ASSUME NEW t, IsTree(t), DOMAIN t # {}, NEW c, IsTree(c), DOMAIN c # {}
  PROVE  LET u == OrCriteria(t, c) IN
           /\ DOMAIN u # {}
           /\ Value(u) \subseteq Documents
           /\ ~RootNeg(t) /\ Chained(t) => Value(u) = Value(t) \cup Value(c)
           /\ RootNeg(u) = RootNeg(t)
           /\ Clean(u) <=> Clean(t) /\ ~RootNeg(c) /\ Clean(c)
           /\ Chained(u) <=> Chained(t) /\ ~RootNeg(c) /\ Chained(c)
<1>. DEFINE A == OrPlaces(t)
            u == Graft(t, A, c)
<1>1. A \in SUBSET Places(t) /\ A # {} /\ \A q \in A : AllOr(q)
  BY OrPlacesFacts
<1>2. u = OrCriteria(t, c)
  BY DEF OrCriteria
<1>. HIDE DEF A
<1>3. /\ DOMAIN u # {} /\ u[<<>>] = t[<<>>]
      /\ Clean(u) <=> Clean(t) /\ Plain(c, DOMAIN c)
      /\ Chained(u) <=> Chained(t) /\ Plain(c, Chain(c))
  BY <1>1, PlainGraft
<1>4. ASSUME ~RootNeg(t), Chained(t) PROVE Value(u) = Value(t) \cup Value(c)
  <2>1. Plain(t, Chain(t))
    BY <1>4, WholePlain
  <2>2. \A d \in Documents : Match(u, d) = 1 <=> Match(t, d) = 1 \/ Match(c, d) = 1
    BY <1>2, <2>1, MatchOr, DocumentAnswers
  <2>. HIDE DEF u
  <2>. QED
    BY <1>3, <2>2 DEF Value
<1>. HIDE DEF u
<1>5. RootNeg(u) = RootNeg(t) /\ Value(u) \subseteq Documents
  BY <1>3 DEF RootNeg, Value
<1>6. /\ Plain(c, DOMAIN c) <=> ~RootNeg(c) /\ Clean(c)
      /\ Plain(c, Chain(c)) <=> ~RootNeg(c) /\ Chained(c)
  BY WholePlain
<1>. QED
  BY <1>2, <1>3, <1>4, <1>5, <1>6

\* What is seen of an and that has come to some places.
LEMMA AndSeen ==
  ASSUME NEW t, IsTree(t), DOMAIN t # {}, NEW c, IsTree(c), DOMAIN c # {},
         NEW A \in SUBSET AndPlaces(t)
  PROVE  LET u == Graft(t, A, c) IN
           /\ DOMAIN u # {}
           /\ Value(u) \subseteq Documents
           /\ ~RootNeg(t) /\ Clean(t) =>
                Value(u) \subseteq Value(t) /\ Value(t) \cap Value(c) \subseteq Value(u)
           /\ ~RootNeg(t) /\ Clean(t) /\ A = AndPlaces(t) => Value(u) = Value(t) \cap Value(c)
           /\ RootNeg(u) = RootNeg(t)
           /\ Clean(u) => Clean(t)
           /\ A = AndPlaces(t) => (Clean(u) <=> Clean(t) /\ ~RootNeg(c) /\ Clean(c))
           /\ Chained(u) = Chained(t)
<1>. DEFINE u == Graft(t, A, c)
<1>1. A \in SUBSET Places(t) /\ AndPlaces(t) # {} /\ \A q \in A : ~AllOr(q)
  BY AndPlacesFacts
<1>2. /\ DOMAIN u # {} /\ u[<<>>] = t[<<>>]
      /\ Clean(u) => Clean(t)
      /\ A # {} => (Clean(u) <=> Clean(t) /\ Plain(c, DOMAIN c))
      /\ Chained(u) <=> Chained(t)
  BY <1>1, PlainGraft
<1>3. ASSUME ~RootNeg(t), Clean(t)
      PROVE  /\ Value(u) \subseteq Value(t) /\ Value(t) \cap Value(c) \subseteq Value(u)
             /\ A = AndPlaces(t) => Value(u) = Value(t) \cap Value(c)
  <2>1. Plain(t, DOMAIN t)
    BY <1>3, WholePlain
  <2>2. \A d \in Documents :
          /\ Match(u, d) = 1 => Match(t, d) = 1
          /\ Match(t, d) = 1 /\ Match(c, d) = 1 => Match(u, d) = 1
          /\ A = AndPlaces(t) /\ Match(u, d) = 1 => Match(c, d) = 1
    BY <2>1, MatchAnd, DocumentAnswers
  <2>. HIDE DEF u
  <2>. QED
    BY <1>2, <2>2 DEF Value
<1>. HIDE DEF u
<1>4. RootNeg(u) = RootNeg(t) /\ Value(u) \subseteq Documents
  BY <1>2 DEF RootNeg, Value
<1>5. Plain(c, DOMAIN c) <=> ~RootNeg(c) /\ Clean(c)
  BY WholePlain
<1>6. Clean(u) \in BOOLEAN /\ Chained(u) \in BOOLEAN /\ Chained(t) \in BOOLEAN
  BY DEF Clean, Chained, Plain
<1>7. Chained(u) = Chained(t)
  BY <1>2, <1>6
<1>8. A = AndPlaces(t) => (Clean(u) <=> Clean(t) /\ ~RootNeg(c) /\ Clean(c))
  BY <1>1, <1>2, <1>5
<1>. QED
  BY <1>2, <1>3, <1>4, <1>7, <1>8 DEF u

-----------------------------------------------------------------------------
\* The algebra's variables are what is seen of the handles, now and after a step.
LEMMA Bridge ==
  ASSUME NEW H, H = held, NEW G, G = held'
  PROVE  /\ Used = UsedIn(H) /\ Used' = UsedIn(G)
         /\ Values = ValuesIn(H) /\ Values' = ValuesIn(G)
         /\ Negations = NegationsIn(H) /\ Negations' = NegationsIn(G)
         /\ Cleans = CleansIn(H) /\ Cleans' = CleansIn(G)
         /\ Chains = ChainsIn(H) /\ Chains' = ChainsIn(G)
<1>1. Used = UsedIn(H) /\ Used' = UsedIn(G)
  BY DEF Used, UsedIn, Holds
<1>2. Values = ValuesIn(H)
  BY DEF Values, ValuesIn, Value, Holds
<1>3. Values' = ValuesIn(G)
  BY DEF Values, ValuesIn, Value, Holds
<1>4. Negations = NegationsIn(H) /\ Negations' = NegationsIn(G)
  BY DEF Negations, NegationsIn, RootNeg, Holds
<1>5. Cleans = CleansIn(H) /\ Cleans' = CleansIn(G)
  BY DEF Cleans, CleansIn, Clean
<1>6. Chains = ChainsIn(H) /\ Chains' = ChainsIn(G)
  BY DEF Chains, ChainsIn, Chained
<1>. QED
  BY <1>1, <1>2, <1>3, <1>4, <1>5, <1>6

\* Every new criteria is one of the algebra's.
LEMMA NewImplements ==
  ASSUME TypeOK, NEW h \in Handles, NEW k \in Criterions, New(h, k)
  PROVE  Algebra!New(h)
<1>1. PICK H, G : H = held /\ G = held'
  OBVIOUS
<1>2. H = [x \in Handles |-> H[x]] /\ G = [H EXCEPT ![h] = Leaf(k)] /\ DOMAIN H[h] = {}
  BY <1>1 DEF TypeOK, New, Free, Holds
<1>3. DOMAIN Leaf(k) # {}
  BY LeafFacts
<1>4. /\ h \notin UsedIn(H) /\ UsedIn(G) = UsedIn(H) \cup {h}
      /\ ValuesIn(G) = [ValuesIn(H) EXCEPT ![h] = {d \in Documents : d[k] = 1}]
      /\ NegationsIn(G) = [NegationsIn(H) EXCEPT ![h] = FALSE]
      /\ CleansIn(G) = [CleansIn(H) EXCEPT ![h] = TRUE]
      /\ ChainsIn(G) = [ChainsIn(H) EXCEPT ![h] = TRUE]
  BY <1>2, <1>3, LeafSeen DEF UsedIn, ValuesIn, NegationsIn, CleansIn, ChainsIn
<1>. QED
  BY <1>1, <1>4, Bridge DEF Algebra!New, Algebra!Set, Algebra!Documents, Documents

\* Every clone is a copy.
LEMMA CloneImplements ==
  ASSUME TypeOK, NEW h \in Handles, NEW g \in Handles, Clone(h, g)
  PROVE  Algebra!Copy(h, g)
<1>1. PICK H, G : H = held /\ G = held'
  OBVIOUS
<1>2. /\ H = [x \in Handles |-> H[x]] /\ G = [H EXCEPT ![g] = H[h]]
      /\ DOMAIN H[h] # {} /\ DOMAIN H[g] = {}
  BY <1>1 DEF TypeOK, Clone, Free, Holds
<1>3. /\ h \in UsedIn(H) /\ g \notin UsedIn(H) /\ UsedIn(G) = UsedIn(H) \cup {g}
      /\ ValuesIn(G) = [ValuesIn(H) EXCEPT ![g] = ValuesIn(H)[h]]
      /\ NegationsIn(G) = [NegationsIn(H) EXCEPT ![g] = NegationsIn(H)[h]]
      /\ CleansIn(G) = [CleansIn(H) EXCEPT ![g] = CleansIn(H)[h]]
      /\ ChainsIn(G) = [ChainsIn(H) EXCEPT ![g] = ChainsIn(H)[h]]
  BY <1>2 DEF UsedIn, ValuesIn, NegationsIn, CleansIn, ChainsIn
<1>. QED
  BY <1>1, <1>3, Bridge DEF Algebra!Copy, Algebra!Set

\* Every change of a negation is the algebra's.
LEMMA SetNegationImplements ==
  ASSUME TypeOK, NEW h \in Handles, NEW b \in BOOLEAN, SetNegation(h, b)
  PROVE  Algebra!SetNegation(h, b)
<1>1. PICK H, G : H = held /\ G = held'
  OBVIOUS
<1>2. /\ H = [x \in Handles |-> H[x]] /\ G = [H EXCEPT ![h] = Negating(H[h], b)]
      /\ IsTree(H[h]) /\ DOMAIN H[h] # {}
  BY <1>1 DEF TypeOK, SetNegation, Holds, Negating
<1>. DEFINE t == H[h]
            u == Negating(t, b)
            v == IF NegationsIn(H)[h] = b THEN ValuesIn(H)[h] ELSE Documents \ ValuesIn(H)[h]
<1>3. /\ DOMAIN u # {} /\ RootNeg(u) = b
      /\ Value(u) = IF RootNeg(t) = b THEN Value(t) ELSE Documents \ Value(t)
      /\ Clean(u) = Clean(t) /\ Chained(u) = Chained(t)
  BY <1>2, NegatingTree, NegatingSeen
<1>4. \A x \in Handles : G[x] = IF x = h THEN u ELSE H[x]
  BY <1>2
<1>. HIDE DEF u
<1>5. h \in UsedIn(H) /\ UsedIn(G) = UsedIn(H) \cup {h}
  BY <1>2, <1>3, <1>4 DEF UsedIn
<1>6. Value(u) = v
  BY <1>3 DEF NegationsIn, ValuesIn
<1>. HIDE DEF v
<1>7. ValuesIn(G) = [ValuesIn(H) EXCEPT ![h] = v]
  BY <1>4, <1>6 DEF ValuesIn
<1>8. NegationsIn(G) = [NegationsIn(H) EXCEPT ![h] = b]
  BY <1>3, <1>4 DEF NegationsIn
<1>9. CleansIn(G) = [CleansIn(H) EXCEPT ![h] = CleansIn(H)[h]]
  BY <1>3, <1>4 DEF CleansIn
<1>10. ChainsIn(G) = [ChainsIn(H) EXCEPT ![h] = ChainsIn(H)[h]]
  BY <1>3, <1>4 DEF ChainsIn
<1>. QED
  BY <1>1, <1>5, <1>7, <1>8, <1>9, <1>10, Bridge
     DEF Algebra!SetNegation, Algebra!Set, Algebra!Documents, Documents, v

\* Every destruction is the algebra's.
LEMMA DestroyImplements ==
  ASSUME TypeOK, NEW h \in Handles, Destroy(h)
  PROVE  Algebra!Destroy(h)
<1>1. PICK H, G : H = held /\ G = held'
  OBVIOUS
<1>2. H = [x \in Handles |-> H[x]] /\ G = [H EXCEPT ![h] = None] /\ DOMAIN H[h] # {}
  BY <1>1 DEF TypeOK, Destroy, Holds
<1>3. /\ h \in UsedIn(H) /\ UsedIn(G) = UsedIn(H) \ {h}
      /\ ValuesIn(G) = [ValuesIn(H) EXCEPT ![h] = {}]
      /\ NegationsIn(G) = [NegationsIn(H) EXCEPT ![h] = FALSE]
      /\ CleansIn(G) = [CleansIn(H) EXCEPT ![h] = TRUE]
      /\ ChainsIn(G) = [ChainsIn(H) EXCEPT ![h] = TRUE]
  BY <1>2, NoneSeen, NoneFacts DEF UsedIn, ValuesIn, NegationsIn, CleansIn, ChainsIn
<1>. QED
  BY <1>1, <1>3, Bridge DEF Algebra!Destroy, Algebra!Forget, Algebra!Nothing

\* Handle h gets t, with the root its tree had, and g gives its own up.
HandsOver(H, G, h, g, t) ==
  \A x \in Handles : G[x] = IF x = g THEN None ELSE IF x = h THEN t ELSE H[x]
SeenHandsOver(H, G, h, g, t) ==
  /\ UsedIn(G) = UsedIn(H) \ {g}
  /\ \A x \in Handles \ {h} : ValuesIn(G)[x] = [ValuesIn(H) EXCEPT ![g] = {}][x]
  /\ ValuesIn(G)[h] = Value(t)
  /\ NegationsIn(G) = [NegationsIn(H) EXCEPT ![g] = FALSE]
  /\ CleansIn(G) = [[CleansIn(H) EXCEPT ![g] = TRUE] EXCEPT ![h] = Clean(t)]
  /\ ChainsIn(G) = [[ChainsIn(H) EXCEPT ![g] = TRUE] EXCEPT ![h] = Chained(t)]

\* What is seen of this.
LEMMA HandedOver ==
  ASSUME NEW H, NEW G, NEW h \in Handles, NEW g \in Handles, h # g, NEW t,
         DOMAIN t # {}, DOMAIN H[h] # {}, RootNeg(t) = RootNeg(H[h]), HandsOver(H, G, h, g, t)
  PROVE  SeenHandsOver(H, G, h, g, t)
<1>1. \A x \in Handles : G[x] = IF x = g THEN None ELSE IF x = h THEN t ELSE H[x]
  BY DEF HandsOver
<1>2. UsedIn(G) = UsedIn(H) \ {g}
  BY <1>1, NoneFacts DEF UsedIn
<1>3. /\ \A x \in Handles \ {h} : ValuesIn(G)[x] = [ValuesIn(H) EXCEPT ![g] = {}][x]
      /\ ValuesIn(G)[h] = Value(t)
  BY <1>1, NoneSeen DEF ValuesIn
<1>4. NegationsIn(G) = [NegationsIn(H) EXCEPT ![g] = FALSE]
  BY <1>1, NoneSeen DEF NegationsIn
<1>5. CleansIn(G) = [[CleansIn(H) EXCEPT ![g] = TRUE] EXCEPT ![h] = Clean(t)]
  BY <1>1, NoneSeen DEF CleansIn
<1>6. ChainsIn(G) = [[ChainsIn(H) EXCEPT ![g] = TRUE] EXCEPT ![h] = Chained(t)]
  BY <1>1, NoneSeen DEF ChainsIn
<1>. QED
  BY <1>2, <1>3, <1>4, <1>5, <1>6 DEF SeenHandsOver

\* What is seen of a criteria is true or false where it is not a set of documents.
LEMMA SeenType ==
  /\ \A t : Clean(t) \in BOOLEAN /\ Chained(t) \in BOOLEAN
  /\ \A t : IsTree(t) => RootNeg(t) \in BOOLEAN
BY TreeFacts DEF Clean, Chained, Plain, RootNeg

\* Every or is the algebra's.
LEMMA OrImplements ==
  ASSUME TypeOK, NEW h \in Handles, NEW g \in Handles, Or(h, g)
  PROVE  Algebra!Or(h, g)
<1>1. PICK H, G : H = held /\ G = held'
  OBVIOUS
<1>. DEFINE t == H[h]
            c == H[g]
            u == OrCriteria(t, c)
<1>2. /\ H = [x \in Handles |-> H[x]] /\ G = [H EXCEPT ![h] = u, ![g] = None]
      /\ h # g /\ IsTree(t) /\ DOMAIN t # {} /\ IsTree(c) /\ DOMAIN c # {}
  BY <1>1 DEF TypeOK, Or, Holds
<1>3. /\ DOMAIN u # {} /\ Value(u) \subseteq Documents
      /\ ~RootNeg(t) /\ Chained(t) => Value(u) = Value(t) \cup Value(c)
      /\ RootNeg(u) = RootNeg(t)
      /\ Clean(u) <=> Clean(t) /\ ~RootNeg(c) /\ Clean(c)
      /\ Chained(u) <=> Chained(t) /\ ~RootNeg(c) /\ Chained(c)
  BY <1>2, OrSeen
<1>. HIDE DEF u
<1>4. /\ UsedIn(G) = UsedIn(H) \ {g}
      /\ \A x \in Handles \ {h} : ValuesIn(G)[x] = [ValuesIn(H) EXCEPT ![g] = {}][x]
      /\ ValuesIn(G)[h] = Value(u)
      /\ NegationsIn(G) = [NegationsIn(H) EXCEPT ![g] = FALSE]
      /\ CleansIn(G) = [[CleansIn(H) EXCEPT ![g] = TRUE] EXCEPT ![h] = Clean(u)]
      /\ ChainsIn(G) = [[ChainsIn(H) EXCEPT ![g] = TRUE] EXCEPT ![h] = Chained(u)]
  <2>1. HandsOver(H, G, h, g, u)
    BY <1>2 DEF HandsOver
  <2>2. SeenHandsOver(H, G, h, g, u)
    BY <1>2, <1>3, <2>1, HandedOver
  <2>. QED
    BY <2>2 DEF SeenHandsOver
<1>5. h \in UsedIn(H) /\ g \in UsedIn(H) \ {h}
  BY <1>2 DEF UsedIn
<1>6. /\ ValuesIn(H)[h] = Value(t) /\ ValuesIn(H)[g] = Value(c)
      /\ NegationsIn(H)[h] = RootNeg(t) /\ NegationsIn(H)[g] = RootNeg(c)
      /\ CleansIn(H)[h] = Clean(t) /\ CleansIn(H)[g] = Clean(c)
      /\ ChainsIn(H)[h] = Chained(t) /\ ChainsIn(H)[g] = Chained(c)
  BY DEF ValuesIn, NegationsIn, CleansIn, ChainsIn
<1>7. /\ Clean(u) = (CleansIn(H)[h] /\ (~NegationsIn(H)[g] /\ CleansIn(H)[g]))
      /\ Chained(u) = (ChainsIn(H)[h] /\ (~NegationsIn(H)[g] /\ ChainsIn(H)[g]))
  BY <1>2, <1>3, <1>6, SeenType
<1>8. ValuesIn(G)[h] \in (IF ~NegationsIn(H)[h] /\ ChainsIn(H)[h]
                            THEN {ValuesIn(H)[h] \cup ValuesIn(H)[g]} ELSE SUBSET Documents)
  BY <1>3, <1>4, <1>6
<1>. QED
  BY <1>1, <1>4, <1>5, <1>7, <1>8, Bridge
     DEF Algebra!Or, Algebra!Compose, Algebra!Forget, Algebra!Nothing, Algebra!Chain,
         Algebra!AllClean, Algebra!Documents, Documents

\* Every and is the algebra's.
LEMMA AndImplements ==
  ASSUME TypeOK, NEW h \in Handles, NEW g \in Handles, And(h, g)
  PROVE  Algebra!And(h, g)
<1>1. PICK H, G : H = held /\ G = held'
  OBVIOUS
<1>. DEFINE t == H[h]
            c == H[g]
            u == AndCriteria(t, c)
<1>2. /\ H = [x \in Handles |-> H[x]] /\ G = [H EXCEPT ![h] = u, ![g] = None]
      /\ h # g /\ IsTree(t) /\ DOMAIN t # {} /\ IsTree(c) /\ DOMAIN c # {}
  BY <1>1 DEF TypeOK, And, Holds
<1>3. /\ DOMAIN u # {} /\ Value(u) \subseteq Documents
      /\ ~RootNeg(t) /\ Clean(t) => Value(u) = Value(t) \cap Value(c)
      /\ RootNeg(u) = RootNeg(t)
      /\ Clean(u) <=> Clean(t) /\ ~RootNeg(c) /\ Clean(c)
      /\ Chained(u) = Chained(t)
  BY <1>2, AndSeen DEF AndCriteria
<1>. HIDE DEF u
<1>4. /\ UsedIn(G) = UsedIn(H) \ {g}
      /\ \A x \in Handles \ {h} : ValuesIn(G)[x] = [ValuesIn(H) EXCEPT ![g] = {}][x]
      /\ ValuesIn(G)[h] = Value(u)
      /\ NegationsIn(G) = [NegationsIn(H) EXCEPT ![g] = FALSE]
      /\ CleansIn(G) = [[CleansIn(H) EXCEPT ![g] = TRUE] EXCEPT ![h] = Clean(u)]
      /\ ChainsIn(G) = [[ChainsIn(H) EXCEPT ![g] = TRUE] EXCEPT ![h] = Chained(u)]
  <2>1. HandsOver(H, G, h, g, u)
    BY <1>2 DEF HandsOver
  <2>2. SeenHandsOver(H, G, h, g, u)
    BY <1>2, <1>3, <2>1, HandedOver
  <2>. QED
    BY <2>2 DEF SeenHandsOver
<1>5. h \in UsedIn(H) /\ g \in UsedIn(H) \ {h}
  BY <1>2 DEF UsedIn
<1>6. /\ ValuesIn(H)[h] = Value(t) /\ ValuesIn(H)[g] = Value(c)
      /\ NegationsIn(H)[h] = RootNeg(t) /\ NegationsIn(H)[g] = RootNeg(c)
      /\ CleansIn(H)[h] = Clean(t) /\ CleansIn(H)[g] = Clean(c)
      /\ ChainsIn(H)[h] = Chained(t)
  BY DEF ValuesIn, NegationsIn, CleansIn, ChainsIn
<1>7. /\ Clean(u) = (CleansIn(H)[h] /\ (~NegationsIn(H)[g] /\ CleansIn(H)[g]))
      /\ Chained(u) = ChainsIn(H)[h]
  BY <1>2, <1>3, <1>6, SeenType
<1>8. ValuesIn(G)[h] \in (IF ~NegationsIn(H)[h] /\ CleansIn(H)[h]
                            THEN {ValuesIn(H)[h] \cap ValuesIn(H)[g]} ELSE SUBSET Documents)
  BY <1>3, <1>4, <1>6
<1>. QED
  BY <1>1, <1>4, <1>5, <1>7, <1>8, Bridge
     DEF Algebra!And, Algebra!Compose, Algebra!Forget, Algebra!Nothing, Algebra!AllClean,
         Algebra!Documents, Documents

\* Every and that ends early is the algebra's.
LEMMA AndFailsImplements ==
  ASSUME TypeOK, NEW h \in Handles, NEW g \in Handles, AndFails(h, g)
  PROVE  Algebra!AndFails(h, g)
<1>1. PICK H, G : H = held /\ G = held'
  OBVIOUS
<1>. DEFINE t == H[h]
            c == H[g]
<1>2. PICK A \in SUBSET AndPlaces(t) : G = [H EXCEPT ![h] = Graft(t, A, c)]
  <2>1. PICK p : G = [H EXCEPT ![h] = AndUntil(t, c, p)]
    BY <1>1 DEF AndFails
  <2>. QED
    BY <2>1, UntilPlaces
<1>. DEFINE u == Graft(t, A, c)
<1>3. /\ H = [x \in Handles |-> H[x]]
      /\ h # g /\ IsTree(t) /\ DOMAIN t # {} /\ IsTree(c) /\ DOMAIN c # {}
  BY <1>1 DEF TypeOK, AndFails, Holds
<1>4. /\ DOMAIN u # {}
      /\ ~RootNeg(t) /\ Clean(t) =>
           Value(u) \subseteq Value(t) /\ Value(t) \cap Value(c) \subseteq Value(u)
      /\ RootNeg(u) = RootNeg(t) /\ (Clean(u) => Clean(t)) /\ Chained(u) = Chained(t)
  BY <1>3, AndSeen
<1>5. \A x \in Handles : G[x] = IF x = h THEN u ELSE H[x]
  BY <1>2, <1>3
<1>. HIDE DEF u
<1>6. /\ h \in UsedIn(H) /\ g \in UsedIn(H) \ {h} /\ UsedIn(G) = UsedIn(H)
      /\ NegationsIn(G) = NegationsIn(H) /\ ChainsIn(G) = ChainsIn(H)
  BY <1>3, <1>4, <1>5 DEF UsedIn, NegationsIn, ChainsIn
<1>7. /\ \A x \in Handles \ {h} : /\ ValuesIn(G)[x] = ValuesIn(H)[x]
                                  /\ CleansIn(G)[x] = CleansIn(H)[x]
      /\ CleansIn(G)[h] => CleansIn(H)[h]
      /\ ~NegationsIn(H)[h] /\ CleansIn(H)[h] =>
           /\ ValuesIn(G)[h] \subseteq ValuesIn(H)[h]
           /\ ValuesIn(H)[h] \cap ValuesIn(H)[g] \subseteq ValuesIn(G)[h]
  BY <1>4, <1>5 DEF ValuesIn, CleansIn, NegationsIn
<1>. QED
  BY <1>1, <1>6, <1>7, Bridge DEF Algebra!AndFails, Algebra!AllClean

\* Every step of the criteria is a step of the algebra, or changes nothing it sees.
LEMMA StepImplements == TypeOK /\ [Next]_vars => [Algebra!Next]_Algebra!vars
<1>. SUFFICES ASSUME TypeOK, [Next]_vars PROVE [Algebra!Next]_Algebra!vars
  OBVIOUS
<1>1. CASE UNCHANGED vars
  BY <1>1 DEF vars, Algebra!vars, Used, Values, Negations, Cleans, Chains, Holds
<1>2. ASSUME NEW h \in Handles, NEW g \in Handles,
             \/ \E k \in Criterions : New(h, k)
             \/ Clone(h, g) \/ \E b \in BOOLEAN : SetNegation(h, b)
             \/ Or(h, g) \/ And(h, g) \/ AndFails(h, g) \/ Destroy(h)
      PROVE  Algebra!Next
  <2>1. CASE \E k \in Criterions : New(h, k)
    BY <2>1, NewImplements DEF Algebra!Next
  <2>2. CASE Clone(h, g)
    BY <2>2, CloneImplements DEF Algebra!Next
  <2>3. CASE \E b \in BOOLEAN : SetNegation(h, b)
    BY <2>3, SetNegationImplements DEF Algebra!Next
  <2>4. CASE Or(h, g)
    BY <2>4, OrImplements DEF Algebra!Next
  <2>5. CASE And(h, g)
    BY <2>5, AndImplements DEF Algebra!Next
  <2>6. CASE AndFails(h, g)
    BY <2>6, AndFailsImplements DEF Algebra!Next
  <2>7. CASE Destroy(h)
    BY <2>7, DestroyImplements DEF Algebra!Next
  <2>. QED
    BY <1>2, <2>1, <2>2, <2>3, <2>4, <2>5, <2>6, <2>7
<1>. QED
  BY <1>1, <1>2 DEF Next

\* Composed criteria match what the algebra of sets of documents says they match.
THEOREM ImplementsAlgebraHolds == Spec => ImplementsAlgebra
<1>1. Init => Algebra!Init
  <2>. SUFFICES ASSUME Init PROVE Algebra!Init
    OBVIOUS
  <2>1. PICK H, G : H = held /\ G = held'
    OBVIOUS
  <2>2. \A x \in Handles : H[x] = None
    BY <2>1 DEF Init
  <2>3. /\ UsedIn(H) = {} /\ ValuesIn(H) = [x \in Handles |-> {}]
        /\ NegationsIn(H) = [x \in Handles |-> FALSE]
        /\ CleansIn(H) = [x \in Handles |-> TRUE] /\ ChainsIn(H) = [x \in Handles |-> TRUE]
    BY <2>2, NoneSeen, NoneFacts DEF UsedIn, ValuesIn, NegationsIn, CleansIn, ChainsIn
  <2>. QED
    BY <2>1, <2>3, Bridge DEF Algebra!Init, Algebra!Nothing
<1>2. TypeOK /\ [Next]_vars => [Algebra!Next]_Algebra!vars
  BY StepImplements
<1>. QED
  BY <1>1, <1>2, TypeCorrect, PTL DEF Spec, ImplementsAlgebra, Algebra!Spec

-----------------------------------------------------------------------------
\* What parse has read after n tokens, given what it had after fewer.
Taken(f, r, tokens, n) == IF n = 0 THEN r ELSE Take(f[n - 1], tokens[n])
Tracks(f, r, tokens, last) == f = [n \in 0 .. last |-> Taken(f, r, tokens, n)]

\* What the parser has read after each token is defined by what it had before.
LEMMA ParseDef ==
  ASSUME NEW r, NEW tokens, Len(tokens) \in Nat
  PROVE  \E f : Tracks(f, r, tokens, Len(tokens)) /\ Parse(r, tokens) = f[Len(tokens)]
<1>. DEFINE Defined == {k \in Nat : \E f : Tracks(f, r, tokens, k)}
<1>1. 0 \in Defined
  <2>. DEFINE f == [n \in 0 .. 0 |-> r]
  <2>1. Tracks(f, r, tokens, 0)
    BY DEF Tracks, Taken
  <2>. QED
    BY <2>1
<1>2. ASSUME NEW k \in Nat, k \in Defined PROVE k + 1 \in Defined
  <2>1. PICK f : Tracks(f, r, tokens, k)
    BY <1>2
  <2>. DEFINE g == [n \in 0 .. (k + 1) |-> Taken(f, r, tokens, n)]
  <2>2. \A n \in 0 .. k : g[n] = f[n]
    BY <2>1 DEF Tracks
  <2>3. \A n \in 0 .. (k + 1) : n # 0 => n - 1 \in 0 .. k
    OBVIOUS
  <2>4. \A n \in 0 .. (k + 1) : Taken(f, r, tokens, n) = Taken(g, r, tokens, n)
    <3>. HIDE DEF g
    <3>. QED
      BY <2>2, <2>3 DEF Taken
  <2>5. g = [n \in 0 .. (k + 1) |-> Taken(g, r, tokens, n)]
    BY <2>4, Zenon
  <2>6. \E h : Tracks(h, r, tokens, k + 1)
    <3>. HIDE DEF g
    <3>. QED
      BY <2>5, Zenon DEF Tracks
  <2>. QED
    BY <2>6
<1>3. Len(tokens) \in Defined
  <2>. HIDE DEF Defined
  <2>. QED
    BY <1>1, <1>2, NatSetInduction
<1>4. PICK f : Tracks(f, r, tokens, Len(tokens))
  BY <1>3
<1>. DEFINE after == CHOOSE h : Tracks(h, r, tokens, Len(tokens))
<1>5. Tracks(after, r, tokens, Len(tokens))
  BY <1>4, Zenon
<1>6. Parse(r, tokens) = after[Len(tokens)]
  BY Zenon DEF Parse, Tracks, Taken
<1>. QED
  BY <1>5, <1>6, Zenon

\* Nothing read, and one token.
LEMMA ParseOne ==
  ASSUME NEW r, NEW x
  PROVE  Parse(r, <<>>) = r /\ Parse(r, <<x>>) = Take(r, x)
<1>1. PICK f : Tracks(f, r, <<>>, 0) /\ Parse(r, <<>>) = f[0]
  BY ParseDef
<1>2. f[0] = r
  BY <1>1 DEF Tracks, Taken
<1>3. PICK g : Tracks(g, r, <<x>>, 1) /\ Parse(r, <<x>>) = g[1]
  <2>1. Len(<<x>>) = 1
    OBVIOUS
  <2>. QED
    BY <2>1, ParseDef
<1>4. g[1] = Taken(g, r, <<x>>, 1) /\ g[0] = Taken(g, r, <<x>>, 0)
  BY <1>3 DEF Tracks
<1>5. g[1] = Take(g[0], x) /\ g[0] = r
  BY <1>4 DEF Taken
<1>. QED
  BY <1>1, <1>2, <1>3, <1>5

\* A text after another is read from what the other led to.
LEMMA ParseBoth ==
  ASSUME NEW T, NEW a \in Seq(T), NEW b \in Seq(T), NEW r
  PROVE  Parse(r, a \o b) = Parse(Parse(r, a), b)
<1>. DEFINE c == a \o b
<1>1. /\ Len(a) \in Nat /\ Len(b) \in Nat /\ Len(c) = Len(a) + Len(b)
      /\ \A n \in 1 .. Len(a) : c[n] = a[n]
      /\ \A n \in 1 .. Len(b) : c[Len(a) + n] = b[n]
  OBVIOUS
<1>. HIDE DEF c
<1>2. PICK f : Tracks(f, r, c, Len(c)) /\ Parse(r, c) = f[Len(c)]
  <2>1. Len(c) \in Nat
    BY <1>1
  <2>. QED
    BY <2>1, ParseDef
<1>3. PICK g : Tracks(g, r, a, Len(a)) /\ Parse(r, a) = g[Len(a)]
  BY <1>1, ParseDef
<1>4. PICK h : Tracks(h, g[Len(a)], b, Len(b)) /\ Parse(g[Len(a)], b) = h[Len(b)]
  BY <1>1, ParseDef
<1>5. \A n \in 0 .. Len(c) : f[n] = Taken(f, r, c, n)
  BY <1>2 DEF Tracks
<1>6. \A n \in 0 .. Len(a) : g[n] = Taken(g, r, a, n)
  BY <1>3 DEF Tracks
<1>7. \A n \in 0 .. Len(b) : h[n] = Taken(h, g[Len(a)], b, n)
  BY <1>4 DEF Tracks
<1>. DEFINE InA == {n \in Nat : n <= Len(a) => f[n] = g[n]}
            InB == {n \in Nat : n <= Len(b) => f[Len(a) + n] = h[n]}
<1>8. Len(a) \in InA
  <2>1. 0 \in InA
    BY <1>1, <1>5, <1>6 DEF Taken
  <2>2. ASSUME NEW n \in Nat, n \in InA PROVE n + 1 \in InA
    <3>. SUFFICES ASSUME n + 1 <= Len(a) PROVE f[n + 1] = g[n + 1]
      OBVIOUS
    <3>1. f[n + 1] = Taken(f, r, c, n + 1) /\ g[n + 1] = Taken(g, r, a, n + 1)
      BY <1>1, <1>5, <1>6
    <3>2. f[n] = g[n] /\ c[n + 1] = a[n + 1] /\ (n + 1) - 1 = n /\ n + 1 # 0
      BY <1>1, <2>2
    <3>. QED
      BY <3>1, <3>2 DEF Taken
  <2>. HIDE DEF InA
  <2>. QED
    BY <1>1, <2>1, <2>2, NatSetInduction
<1>9. Len(b) \in InB
  <2>1. 0 \in InB
    BY <1>1, <1>7, <1>8 DEF Taken
  <2>2. ASSUME NEW n \in Nat, n \in InB PROVE n + 1 \in InB
    <3>. SUFFICES ASSUME n + 1 <= Len(b) PROVE f[Len(a) + (n + 1)] = h[n + 1]
      OBVIOUS
    <3>1. /\ f[Len(a) + (n + 1)] = Taken(f, r, c, Len(a) + (n + 1))
          /\ h[n + 1] = Taken(h, g[Len(a)], b, n + 1)
      BY <1>1, <1>5, <1>7
    <3>2. /\ f[Len(a) + n] = h[n] /\ c[Len(a) + (n + 1)] = b[n + 1]
          /\ (n + 1) - 1 = n /\ n + 1 # 0
          /\ (Len(a) + (n + 1)) - 1 = Len(a) + n /\ Len(a) + (n + 1) # 0
      BY <1>1, <2>2
    <3>. QED
      BY <3>1, <3>2 DEF Taken
  <2>. HIDE DEF InB
  <2>. QED
    BY <1>1, <2>1, <2>2, NatSetInduction
<1>10. f[Len(c)] = h[Len(b)]
  BY <1>1, <1>9
<1>. QED
  BY <1>2, <1>3, <1>4, <1>10 DEF c

\* The text of a node takes the texts of the nodes below it, and no others.
LEMMA PrintedLocal ==
  ASSUME NEW t, NEW f, NEW g, NEW p, \A q \in Below(t, p) : f[q] = g[q]
  PROVE  Printed(t, f, p) = Printed(t, g, p)
<1>1. \A link \in Links : Has(t, p, link) => f[Append(p, link)] = g[Append(p, link)]
  BY DEF Below, Has, Child
<1>2. /\ Has(t, p, "and") => f[Append(p, "and")] = g[Append(p, "and")]
      /\ Has(t, p, "or") => f[Append(p, "or")] = g[Append(p, "or")]
  BY <1>1 DEF Links
<1>3. Both(t, f, p) = Both(t, g, p)
  BY <1>2 DEF Both
<1>. QED
  BY <1>2, <1>3, Zenon DEF Printed

\* The texts of the nodes of a tree, from the deepest up.
Written(f, t, D) == f = [p \in D |-> Printed(t, f, p)]

\* to_string() prints every node with the texts of the nodes below it.
LEMMA TextsDef ==
  ASSUME NEW t, IsTree(t)
  PROVE  \A p \in DOMAIN t : Texts(t)[p] = Printed(t, Texts(t), p)
<1>1. DOMAIN t \in SUBSET Position /\ IsFiniteSet(DOMAIN t)
  BY TreeFacts
<1>2. PICK b \in Nat : \A p \in DOMAIN t : Len(p) <= b
  BY <1>1, DepthBound
<1>. DEFINE Deep(k) == {p \in DOMAIN t : Len(p) + k > b}
            Defined == {k \in Nat : \E f : Written(f, t, Deep(k))}
<1>3. 0 \in Defined
  <2>1. Deep(0) = {}
    BY <1>1, <1>2, ChildType
  <2>2. Written([p \in {} |-> Printed(t, <<>>, p)], t, {})
    BY DEF Written
  <2>. QED
    BY <2>1, <2>2
<1>4. ASSUME NEW k \in Nat, k \in Defined PROVE k + 1 \in Defined
  <2>1. PICK f : Written(f, t, Deep(k))
    BY <1>4
  <2>2. Deep(k) \subseteq Deep(k + 1)
    BY <1>1, ChildType
  <2>3. \A p \in Deep(k + 1) : Below(t, p) \subseteq Deep(k)
    BY <1>1, ChildType DEF Below
  <2>. HIDE DEF Deep
  <2>. DEFINE g == [p \in Deep(k + 1) |-> Printed(t, f, p)]
  <2>4. \A p \in Deep(k) : f[p] = g[p]
    BY <2>1, <2>2, Zenon DEF Written
  <2>5. \A p \in Deep(k + 1) : Printed(t, f, p) = Printed(t, g, p)
    <3>. HIDE DEF g
    <3>. QED
      BY <2>3, <2>4, PrintedLocal
  <2>6. g = [p \in Deep(k + 1) |-> Printed(t, g, p)]
    BY <2>5, Zenon
  <2>7. \E h : Written(h, t, Deep(k + 1))
    <3>. HIDE DEF g
    <3>. QED
      BY <2>6, Zenon DEF Written
  <2>. QED
    BY <2>7
<1>5. b + 1 \in Defined
  <2>. HIDE DEF Defined
  <2>. QED
    BY <1>3, <1>4, NatSetInduction
<1>6. Deep(b + 1) = DOMAIN t
  <2>1. \A p \in DOMAIN t : Len(p) \in Nat
    BY <1>1, ChildType
  <2>2. \A p \in DOMAIN t : Len(p) + (b + 1) > b
    BY <2>1
  <2>. QED
    BY <2>2
<1>7. \E f : Written(f, t, DOMAIN t)
  BY <1>5, <1>6
<1>8. Written(Texts(t), t, DOMAIN t)
  BY <1>7, Zenon DEF Texts, Written
<1>. DEFINE f == Texts(t)
<1>9. \A p \in DOMAIN t : f[p] = Printed(t, f, p)
  <2>. HIDE DEF f
  <2>1. Written(f, t, DOMAIN t)
    BY <1>8 DEF f
  <2>. QED
    BY <2>1 DEF Written
<1>. QED
  BY <1>9

\* It prints the wordings of criterions, and punctuation.
LEMMA TextsType ==
  ASSUME NEW t, IsTree(t)
  PROVE  \A p \in DOMAIN t : Texts(t)[p] \in Seq(Tokens)
<1>. DEFINE f == Texts(t)
            S == {p \in DOMAIN t : f[p] \in Seq(Tokens)}
<1>1. \A p \in DOMAIN t : f[p] = Printed(t, f, p) /\ Wording[t[p].criterion] \in Seq(Tokens)
  BY TextsDef, TreeFacts, WordingAssumption DEF WordingAssumption
<1>2. \A x \in Punctuation : x \in Tokens
  BY DEF Tokens
<1>. HIDE DEF f
<1>3. ASSUME NEW p \in DOMAIN t, Below(t, p) \subseteq S PROVE p \in S
  <2>1. /\ Has(t, p, "and") => f[Append(p, "and")] \in Seq(Tokens)
        /\ Has(t, p, "or") => f[Append(p, "or")] \in Seq(Tokens)
    BY <1>3 DEF Below, Has, Child, Links
  <2>2. Both(t, f, p) \in Seq(Tokens)
    BY <1>1, <1>2, <2>1 DEF Both, Punctuation
  <2>3. \A x, y \in Seq(Tokens) : Grouped(x, y) \in Seq(Tokens)
    BY <1>2 DEF Grouped, Punctuation
  <2>4. Printed(t, f, p) \in Seq(Tokens)
    BY <2>1, <2>2, <2>3, Zenon DEF Printed
  <2>. QED
    BY <1>1, <2>4
<1>4. DOMAIN t \subseteq S
  <2>. HIDE DEF S
  <2>. QED
    BY <1>3, TreeInduction
<1>. QED
  BY <1>4 DEF f

\* Texts one after the other; one token, two, or three.
LEMMA ParseTexts ==
  /\ \A a, b \in Seq(Tokens) : a \o b \in Seq(Tokens)
  /\ \A a, b \in Seq(Tokens) : \A r : Parse(r, a \o b) = Parse(Parse(r, a), b)
  /\ \A x \in Tokens : <<x>> \in Seq(Tokens)
  /\ \A x, y \in Tokens : <<x, y>> \in Seq(Tokens)
  /\ \A x, y, z \in Tokens : <<x, y, z>> \in Seq(Tokens)
  /\ \A x, y \in Tokens : \A r : Parse(r, <<x, y>>) = Take(Take(r, x), y)
  /\ \A x, y, z \in Tokens : \A r : Parse(r, <<x, y, z>>) = Take(Take(Take(r, x), y), z)
<1>1. \A a, b \in Seq(Tokens) : a \o b \in Seq(Tokens)
  OBVIOUS
<1>2. ASSUME NEW a \in Seq(Tokens), NEW b \in Seq(Tokens), NEW r
      PROVE  Parse(r, a \o b) = Parse(Parse(r, a), b)
  BY ParseBoth
<1>3. ASSUME NEW x \in Tokens, NEW y \in Tokens, NEW z \in Tokens
      PROVE  /\ <<x>> \in Seq(Tokens) /\ <<x, y>> \in Seq(Tokens) /\ <<x, y, z>> \in Seq(Tokens)
  OBVIOUS
<1>4. ASSUME NEW x \in Tokens, NEW y \in Tokens
      PROVE  <<x, y>> = <<x>> \o <<y>>
  <2>. DEFINE a == <<x>>
              b == <<y>>
              c == <<x, y>>
  <2>1. /\ a \in Seq(Tokens) /\ Len(a) = 1 /\ a[1] = x
        /\ b \in Seq(Tokens) /\ Len(b) = 1 /\ b[1] = y
        /\ c \in Seq(Tokens) /\ Len(c) = 2 /\ c[1] = x /\ c[2] = y
    OBVIOUS
  <2>. HIDE DEF a, b, c
  <2>2. a \o b \in Seq(Tokens) /\ Len(a \o b) = 2 /\ (a \o b)[1] = x /\ (a \o b)[2] = y
    BY <2>1
  <2>3. \A i \in 1 .. 2 : (a \o b)[i] = c[i]
    BY <2>1, <2>2
  <2>4. a \o b = c
    BY <2>1, <2>2, <2>3, Facts!SeqEqual
  <2>. QED
    BY <2>4 DEF a, b, c
<1>5. ASSUME NEW x \in Tokens, NEW y \in Tokens, NEW z \in Tokens
      PROVE  <<x, y, z>> = <<x, y>> \o <<z>>
  OBVIOUS
<1>6. ASSUME NEW x \in Tokens, NEW y \in Tokens, NEW r
      PROVE  Parse(r, <<x, y>>) = Take(Take(r, x), y)
  <2>. DEFINE a == <<x>>
              b == <<y>>
  <2>1. a \in Seq(Tokens) /\ b \in Seq(Tokens) /\ <<x, y>> = a \o b
    BY <1>3, <1>4
  <2>2. \A s : Parse(s, a) = Take(s, x) /\ Parse(s, b) = Take(s, y)
    BY ParseOne
  <2>. HIDE DEF a, b
  <2>3. Parse(r, a \o b) = Parse(Parse(r, a), b)
    BY <1>2, <2>1
  <2>. QED
    BY <2>1, <2>2, <2>3
<1>7. ASSUME NEW x \in Tokens, NEW y \in Tokens, NEW z \in Tokens, NEW r
      PROVE  Parse(r, <<x, y, z>>) = Take(Take(Take(r, x), y), z)
  <2>. DEFINE a == <<x, y>>
              b == <<z>>
  <2>1. a \in Seq(Tokens) /\ b \in Seq(Tokens) /\ <<x, y, z>> = a \o b
    BY <1>3, <1>5
  <2>2. \A s : Parse(s, b) = Take(s, z)
    BY ParseOne
  <2>3. Parse(r, a) = Take(Take(r, x), y)
    BY <1>6
  <2>. HIDE DEF a, b
  <2>4. Parse(r, a \o b) = Parse(Parse(r, a), b)
    BY <1>2, <2>1
  <2>. QED
    BY <2>1, <2>2, <2>3, <2>4
<1>. QED
  BY <1>1, <1>2, <1>3, <1>6, <1>7

\* What has been read, without and with a "!" after it.
Reads(tree, operator, outer)  == Reading(tree, operator, "none", outer)
Denies(tree, operator, outer) == Reading(tree, operator, "!", outer)
Negative(c) == [c EXCEPT ![<<>>].negated = TRUE]

\* What the punctuation does where it may come.
LEMMA TakeFacts ==
  /\ \A x : Expects(x) /\ x.begun \in {"none", "!"} => Take(x, "(") = Opened(x)
  /\ \A x : Complete(x) /\ DOMAIN x.outer # {} => Take(x, ")") = Closed(x)
  /\ \A tree, outer : DOMAIN tree # {} =>
       /\ Take(Reads(tree, "none", outer), "&&") = Reads(tree, "&&", outer)
       /\ Take(Reads(tree, "none", outer), "||") = Reads(tree, "||", outer)
  /\ \A outer : Take(Reads(None, "none", outer), "!") = Denies(None, "none", outer)
<1>0. \A x \in Punctuation : x \notin Fields /\ x \notin Words
  BY WordingAssumption DEF WordingAssumption
<1>1. \A x : Expects(x) /\ x.begun \in {"none", "!"} => Take(x, "(") = Opened(x)
  BY <1>0 DEF Take, Fits, Shifted, Punctuation
<1>2. \A x : Complete(x) /\ DOMAIN x.outer # {} => Take(x, ")") = Closed(x)
  BY <1>0 DEF Take, Fits, Shifted, Punctuation
<1>3. ASSUME NEW tree, NEW outer, DOMAIN tree # {}
      PROVE  /\ Take(Reads(tree, "none", outer), "&&") = Reads(tree, "&&", outer)
             /\ Take(Reads(tree, "none", outer), "||") = Reads(tree, "||", outer)
  <2>. DEFINE x == Reads(tree, "none", outer)
  <2>1. x.tree = tree /\ x.operator = "none" /\ x.outer = outer
    BY DEF Reads, Reading
  <2>. HIDE DEF x
  <2>2. Complete(x)
    BY <1>3, <2>1 DEF Complete
  <2>3. /\ Take(x, "&&") = Reading(x.tree, "&&", "none", x.outer)
        /\ Take(x, "||") = Reading(x.tree, "||", "none", x.outer)
    BY <1>0, <2>2 DEF Take, Fits, Shifted, Punctuation
  <2>. QED
    BY <2>1, <2>3 DEF x, Reads
<1>4. ASSUME NEW outer PROVE Take(Reads(None, "none", outer), "!") = Denies(None, "none", outer)
  <2>. DEFINE x == Reads(None, "none", outer)
  <2>1. x.tree = None /\ x.operator = "none" /\ x.outer = outer /\ x.begun = "none"
    BY DEF Reads, Reading
  <2>. HIDE DEF x
  <2>2. Expects(x)
    BY <2>1, NoneFacts DEF Expects
  <2>3. Take(x, "!") = Reading(x.tree, x.operator, "!", x.outer)
    BY <1>0, <2>1, <2>2 DEF Take, Fits, Shifted, Punctuation
  <2>. QED
    BY <2>1, <2>3 DEF x, Denies
<1>. QED
  BY <1>1, <1>2, <1>3, <1>4

\* The wording of one criterion is read as that criterion.
LEMMA ParseWording ==
  ASSUME NEW k \in Criterions, IsWorded(k)
  PROVE  /\ Meant(k) \in Criterions
         /\ \A r : Expects(r) /\ r.begun = "none" => Parse(r, Wording[k]) = With(r, Leaf(Meant(k)))
<1>1. PICK x : x \in DOMAIN Meaning /\ Wording[k] = Said(x) /\ Meant(k) = Meaning[x]
  BY DEF IsWorded, Meant
<1>. DEFINE b == x[1]
            w == x[2]
<1>2. /\ x = <<b, w>> /\ b \in Beginnings /\ w \in Words /\ Meaning[x] \in Criterions
  BY <1>1, WordingAssumption DEF WordingAssumption
<1>. HIDE DEF b, w
<1>3. \A r : Expects(r) /\ r.begun = b => Take(r, w) = With(r, Leaf(Meaning[x]))
  <2>1. w \notin Fields /\ w \notin {"(", ")", "!", "&&", "||"}
    BY <1>2, WordingAssumption DEF WordingAssumption, Punctuation
  <2>2. \A r : r.begun = b => <<r.begun, w>> = x
    BY <1>2
  <2>3. ASSUME NEW r, Expects(r), r.begun = b PROVE Fits(r, w)
    BY <1>1, <1>2, <2>1, <2>2, <2>3 DEF Fits
  <2>4. ASSUME NEW r, r.begun = b PROVE Shifted(r, w) = With(r, Leaf(Meaning[x]))
    BY <2>1, <2>2, <2>4 DEF Shifted
  <2>. QED
    BY <2>3, <2>4 DEF Take
<1>4. ASSUME NEW r, Expects(r), r.begun = "none"
      PROVE  Parse(r, Wording[k]) = With(r, Leaf(Meaning[x]))
  <2>1. CASE b = "none"
    <3>1. Wording[k] = <<w>>
      BY <1>1, <2>1 DEF Said, b, w
    <3>. QED
      BY <1>3, <1>4, <2>1, <3>1, ParseOne
  <2>2. CASE b # "none"
    <3>. DEFINE r1 == Reading(r.tree, r.operator, b, r.outer)
    <3>1. b \in {"!"} \cup Fields /\ b \notin {"(", ")", "&&", "||"}
      BY <1>2, <2>2, WordingAssumption DEF WordingAssumption, Punctuation, Beginnings
    <3>2. Take(r, b) = r1
      <4>1. b \notin Words
        BY <3>1, WordingAssumption DEF WordingAssumption, Punctuation
      <4>2. Fits(r, b)
        BY <1>4, <3>1, <4>1 DEF Fits
      <4>3. Shifted(r, b) = r1
        BY <3>1, <4>1 DEF Shifted
      <4>. QED
        BY <4>2, <4>3 DEF Take
    <3>3. r1.tree = r.tree /\ r1.operator = r.operator /\ r1.begun = b /\ r1.outer = r.outer
      BY DEF Reading
    <3>. HIDE DEF r1
    <3>4. Expects(r1)
      BY <1>4, <3>3 DEF Expects
    <3>5. \A c : With(r1, c) = With(r, c)
      BY <3>3 DEF With
    <3>6. Wording[k] = <<b, w>>
      BY <1>1, <1>2, <2>2 DEF Said, b
    <3>7. b \in Tokens /\ w \in Tokens
      BY <1>2, <3>1 DEF Tokens, Punctuation
    <3>8. Parse(r, <<b, w>>) = Take(Take(r, b), w)
      BY <3>7, ParseTexts
    <3>. QED
      BY <1>3, <3>2, <3>3, <3>4, <3>5, <3>6, <3>8
  <2>. QED
    BY <2>1, <2>2
<1>. QED
  BY <1>1, <1>2, <1>4

\* A criteria becomes the first of what is read, or comes after an operator; a
\* parenthesis makes one of what was read in it.
LEMMA WithFacts ==
  /\ \A outer : Opened(outer) = Reads(None, "none", outer)
  /\ \A outer, c : With(Opened(outer), c) = Reads(c, "none", outer)
  /\ \A tree, operator, outer, c : DOMAIN tree # {} =>
       With(Reads(tree, operator, outer), c) = Reads(Composed(operator, tree, c), "none", outer)
  /\ \A c, tree, operator, outer : DOMAIN c # {} =>
       Take(Reads(c, "none", Reads(tree, operator, outer)), ")")
         = With(Reads(tree, operator, outer), c)
  /\ \A outer, c : DOMAIN c # {} =>
       Take(Reads(c, "none", Denies(None, "none", outer)), ")") = Reads(Negative(c), "none", outer)
<1>1. ASSUME NEW outer PROVE Opened(outer) = Reads(None, "none", outer)
  BY DEF Opened, Reads
<1>2. ASSUME NEW tree, NEW operator, NEW outer, NEW c
      PROVE  /\ DOMAIN tree = {} => With(Reads(tree, operator, outer), c) = Reads(c, "none", outer)
             /\ DOMAIN tree = {} => With(Denies(tree, operator, outer), c) = Reads(c, "none", outer)
             /\ DOMAIN tree # {} => With(Reads(tree, operator, outer), c)
                                      = Reads(Composed(operator, tree, c), "none", outer)
  BY DEF With, Reads, Denies, Reading
<1>3. ASSUME NEW outer, NEW c
      PROVE  /\ With(Opened(outer), c) = Reads(c, "none", outer)
             /\ With(Denies(None, "none", outer), c) = Reads(c, "none", outer)
  BY <1>1, <1>2, NoneFacts
<1>4. ASSUME NEW c, DOMAIN c # {}, NEW r, DOMAIN r # {}
      PROVE  Take(Reads(c, "none", r), ")") = Closed(Reads(c, "none", r))
  <2>. DEFINE x == Reads(c, "none", r)
  <2>1. x.tree = c /\ x.operator = "none" /\ x.outer = r
    BY DEF Reads, Reading
  <2>. HIDE DEF x
  <2>2. Complete(x)
    BY <1>4, <2>1 DEF Complete
  <2>. QED
    BY <1>4, <2>1, <2>2, TakeFacts DEF x
<1>5. ASSUME NEW c, DOMAIN c # {}, NEW tree, NEW operator, NEW outer
      PROVE  Take(Reads(c, "none", Reads(tree, operator, outer)), ")")
               = With(Reads(tree, operator, outer), c)
  <2>. DEFINE r == Reads(tree, operator, outer)
  <2>1. r.begun = "none" /\ DOMAIN r # {}
    BY DEF Reads, Reading
  <2>. HIDE DEF r
  <2>2. Closed(Reads(c, "none", r)) = With(r, c)
    BY <2>1 DEF Closed, Reads, Reading
  <2>. QED
    BY <1>4, <1>5, <2>1, <2>2 DEF r
<1>7. ASSUME NEW outer, NEW c, DOMAIN c # {}
      PROVE  Take(Reads(c, "none", Denies(None, "none", outer)), ")")
               = Reads(Negative(c), "none", outer)
  <2>. DEFINE r == Denies(None, "none", outer)
  <2>1. r.begun = "!" /\ DOMAIN r # {}
    BY DEF Denies, Reading
  <2>2. With(r, Negative(c)) = Reads(Negative(c), "none", outer)
    BY <1>3
  <2>. HIDE DEF r
  <2>3. Reads(c, "none", r).tree = c /\ Reads(c, "none", r).outer = r
    BY DEF Reads, Reading
  <2>4. Closed(Reads(c, "none", r)) = With(r, Negative(c))
    BY <2>1, <2>3, Zenon DEF Closed, Negative
  <2>5. Take(Reads(c, "none", r), ")") = Closed(Reads(c, "none", r))
    BY <1>4, <1>7, <2>1
  <2>. QED
    BY <2>2, <2>4, <2>5 DEF r
<1>6. ASSUME NEW tree, NEW operator, NEW outer, NEW c, DOMAIN tree # {}
      PROVE  With(Reads(tree, operator, outer), c)
               = Reads(Composed(operator, tree, c), "none", outer)
  BY <1>2, <1>6
<1>. QED
  BY <1>1, <1>3, <1>5, <1>6, <1>7

\* What the parser has read where a criteria may come next: nothing yet in this
\* parenthesis, or something and an and.
Ready(r) ==
  \E tree, operator, outer :
    /\ r = Reads(tree, operator, outer)
    /\ \/ DOMAIN tree = {} /\ operator = "none"
       \/ DOMAIN tree # {} /\ operator = "&&" /\ IsTree(tree)

\* What follows once a criteria with only an and has been read.
LEMMA ReadyFacts ==
  /\ \A x : Ready(Opened(x)) /\ Take(Opened(x), "(") = Opened(Opened(x))
  /\ \A r : Ready(r) => /\ Expects(r) /\ r.begun = "none" /\ Take(r, "(") = Opened(r)
                        /\ \A c : DOMAIN c # {} => Take(Reads(c, "none", r), ")") = With(r, c)
<1>1. ASSUME NEW r, Ready(r)
      PROVE  /\ Expects(r) /\ r.begun = "none" /\ Take(r, "(") = Opened(r)
             /\ \A c : DOMAIN c # {} => Take(Reads(c, "none", r), ")") = With(r, c)
  <2>1. PICK tree, operator, outer :
          /\ r = Reads(tree, operator, outer)
          /\ \/ DOMAIN tree = {} /\ operator = "none"
             \/ DOMAIN tree # {} /\ operator = "&&" /\ IsTree(tree)
    BY <1>1 DEF Ready
  <2>2. r.tree = tree /\ r.operator = operator /\ r.begun = "none"
    BY <2>1 DEF Reads, Reading
  <2>3. Expects(r)
    BY <2>1, <2>2 DEF Expects
  <2>4. \A c : DOMAIN c # {} => Take(Reads(c, "none", r), ")") = With(r, c)
    BY <2>1, WithFacts
  <2>. QED
    BY <2>2, <2>3, <2>4, TakeFacts
<1>2. ASSUME NEW x PROVE Ready(Opened(x))
  <2>1. Opened(x) = Reads(None, "none", x) /\ DOMAIN None = {}
    BY WithFacts, NoneFacts
  <2>. QED
    BY <2>1 DEF Ready
<1>. QED
  BY <1>1, <1>2

\* A text in parentheses that says c2 as the alternative of c.
LEMMA ParseGrouped ==
  ASSUME NEW r, Ready(r),
         NEW a \in Seq(Tokens), NEW b \in Seq(Tokens), NEW c, NEW c2,
         DOMAIN c # {}, DOMAIN c2 # {}, DOMAIN OrCriteria(c, c2) # {},
         \A x : Parse(Opened(x), a) = With(Opened(x), c),
         \A x : Parse(Opened(x), b) = With(Opened(x), c2)
  PROVE  Parse(r, Grouped(a, b)) = With(r, OrCriteria(c, c2))
<1>. DEFINE open == <<"(", "(">>
            between == <<")", "||", "(">>
            close == <<")", ")">>
            or == Reads(c, "||", r)
            s1 == open \o a
            s2 == s1 \o between
            s3 == s2 \o b
<1>1. "(" \in Tokens /\ ")" \in Tokens /\ "||" \in Tokens
  BY DEF Tokens, Punctuation
<1>2. /\ open \in Seq(Tokens) /\ between \in Seq(Tokens) /\ close \in Seq(Tokens)
  BY <1>1, ParseTexts
<1>3. /\ \A x : Parse(x, open) = Take(Take(x, "("), "(")
      /\ \A x : Parse(x, between) = Take(Take(Take(x, ")"), "||"), "(")
      /\ \A x : Parse(x, close) = Take(Take(x, ")"), ")")
  BY <1>1, ParseTexts
<1>4. Grouped(a, b) = s3 \o close
  BY DEF Grouped
<1>. HIDE DEF open, between, close
<1>5. s1 \in Seq(Tokens) /\ s2 \in Seq(Tokens) /\ s3 \in Seq(Tokens)
  BY <1>2, ParseTexts
<1>6. Parse(r, s1) = Reads(c, "none", Opened(r))
  <2>1. Parse(Opened(Opened(r)), a) = Reads(c, "none", Opened(r))
    BY WithFacts
  <2>2. Take(r, "(") = Opened(r) /\ Take(Opened(r), "(") = Opened(Opened(r))
    BY ReadyFacts
  <2>3. Parse(r, open) = Opened(Opened(r))
    BY <1>3, <2>2
  <2>. QED
    BY <1>2, <2>1, <2>3, ParseTexts
<1>7. Parse(r, s2) = Opened(or)
  <2>1. Take(Reads(c, "none", Opened(r)), ")") = Reads(c, "none", r)
    BY WithFacts
  <2>2. Take(Reads(c, "none", r), "||") = or
    BY TakeFacts
  <2>4. Take(or, "(") = Opened(or)
    <3>1. Expects(or) /\ or.begun = "none"
      BY DEF Expects, Reads, Reading
    <3>. HIDE DEF or
    <3>. QED
      BY <3>1, TakeFacts
  <2>. HIDE DEF s1, or
  <2>3. Parse(r, s2) = Parse(Reads(c, "none", Opened(r)), between)
    BY <1>2, <1>5, <1>6, ParseTexts
  <2>. QED
    BY <1>3, <2>1, <2>2, <2>3, <2>4
<1>8. Parse(r, s3) = Reads(c2, "none", or)
  <2>1. Parse(Opened(or), b) = Reads(c2, "none", or)
    BY WithFacts
  <2>. HIDE DEF s2, or
  <2>. QED
    BY <1>5, <1>7, <2>1, ParseTexts
<1>9. Parse(r, s3 \o close) = Take(Take(Reads(c2, "none", or), ")"), ")")
  <2>. HIDE DEF s3, or
  <2>. QED
    BY <1>2, <1>3, <1>5, <1>8, ParseTexts
<1>10. Take(Reads(c2, "none", or), ")") = Reads(OrCriteria(c, c2), "none", r)
  <2>1. Take(Reads(c2, "none", or), ")") = With(or, c2)
    BY WithFacts
  <2>2. With(or, c2) = Reads(Composed("||", c, c2), "none", r)
    BY WithFacts
  <2>3. Composed("||", c, c2) = OrCriteria(c, c2)
    BY DEF Composed
  <2>. QED
    BY <2>1, <2>2, <2>3
<1>11. Parse(r, s3 \o close) = With(r, OrCriteria(c, c2))
  <2>1. Take(Reads(OrCriteria(c, c2), "none", r), ")") = With(r, OrCriteria(c, c2))
    BY ReadyFacts
  <2>. HIDE DEF s3, or
  <2>. QED
    BY <1>9, <1>10, <2>1
<1>. QED
  BY <1>4, <1>11

-----------------------------------------------------------------------------
\* A position below the root of a tree: the link taken there, and the rest.
Led(link, r) == Under(Child(<<>>, link), r)

\* Positions below the same one are apart when what follows it is.
LEMMA UnderInjective ==
  ASSUME NEW p \in Position, NEW r \in Position, NEW s \in Position, Under(p, r) = Under(p, s)
  PROVE  r = s
<1>1. Len(r) = Len(s) /\ Len(r) \in Nat
  <2>1. /\ Len(p) \in Nat /\ Len(r) \in Nat /\ Len(s) \in Nat
        /\ Len(Under(p, r)) = Len(p) + Len(r) /\ Len(Under(p, s)) = Len(p) + Len(s)
    BY Together, ChildType
  <2>2. Len(p) + Len(r) = Len(p) + Len(s)
    BY <2>1
  <2>. QED
    BY <2>1, <2>2
<1>2. \A i \in 1 .. Len(r) : r[i] = Under(p, r)[Len(p) + i] /\ s[i] = Under(p, s)[Len(p) + i]
  BY <1>1 DEF Under, Position
<1>3. \A i \in 1 .. Len(r) : r[i] = s[i]
  BY <1>2
<1>. QED
  BY <1>1, <1>3, Facts!SeqEqual DEF Position

\* A position is the root or a link and the rest, in one way, and the rest can be
\* counted from where the link leads.
LEMMA LedFacts ==
  /\ \A link \in Links, r \in Position :
       Led(link, r) \in Position /\ Led(link, r) # <<>> /\ Led(link, <<>>) = Child(<<>>, link)
  /\ \A p \in Position, link \in Links, r \in Position :
       Under(Child(p, link), r) = Under(p, Led(link, r))
  /\ \A r \in Position : r = <<>> \/ \E link \in Links, s \in Position : r = Led(link, s)
  /\ \A l, m \in Links, r, s \in Position : Led(l, r) = Led(m, s) => l = m /\ r = s
<1>1. <<>> \in Position
  BY ChildType
<1>2. ASSUME NEW link \in Links, NEW r \in Position
      PROVE  /\ Led(link, r) \in Position /\ Led(link, r) # <<>>
             /\ Led(link, <<>>) = Child(<<>>, link)
             /\ Len(Led(link, r)) = 1 + Len(r) /\ Led(link, r)[1] = link
             /\ \A i \in 1 .. Len(r) : Led(link, r)[1 + i] = r[i]
  <2>1. Child(<<>>, link) \in Position /\ Len(Child(<<>>, link)) = 1 /\ Child(<<>>, link)[1] = link
    BY DEF Child, Position
  <2>2. /\ Led(link, r) \in Position /\ Len(Led(link, r)) = 1 + Len(r)
        /\ Led(link, <<>>) = Child(<<>>, link)
    BY <1>1, <2>1, Together DEF Led
  <2>3. Led(link, r) # <<>>
    BY <2>2, ChildType
  <2>4. /\ Led(link, r)[1] = Child(<<>>, link)[1]
        /\ \A i \in 1 .. Len(r) : Led(link, r)[1 + i] = r[i]
    <3>. DEFINE a == Child(<<>>, link)
    <3>1. a \in Seq(Links) /\ Len(a) = 1 /\ r \in Seq(Links)
      BY <2>1 DEF Position
    <3>. HIDE DEF a
    <3>2. /\ Len(r) \in Nat
          /\ \A i \in 1 .. Len(a) + Len(r) :
               (a \o r)[i] = IF i <= Len(a) THEN a[i] ELSE r[i - Len(a)]
      <4>1. Len(r) \in Nat
        BY <3>1
      <4>2. \A i \in 1 .. Len(a) + Len(r) :
               (a \o r)[i] = IF i <= Len(a) THEN a[i] ELSE r[i - Len(a)]
        BY ONLY <3>1, Facts!ConcatProperties, Zenon
      <4>. QED
        BY <4>1, <4>2
    <3>3. /\ (a \o r)[1] = a[1]
          /\ \A i \in 1 .. Len(r) :
               1 + i <= Len(a) + Len(r) /\ ~(1 + i <= Len(a)) /\ (1 + i) - Len(a) = i
      BY <3>1, <3>2
    <3>4. \A i \in 1 .. Len(r) : (a \o r)[1 + i] = r[i]
      BY <3>2, <3>3
    <3>. QED
      BY <3>3, <3>4 DEF a, Led, Under
  <2>. QED
    BY <2>1, <2>2, <2>3, <2>4
<1>3. ASSUME NEW p \in Position, NEW link \in Links, NEW r \in Position
      PROVE  Under(Child(p, link), r) = Under(p, Led(link, r))
  <2>1. Child(<<>>, link) \in Position
    BY <1>1, ChildType
  <2>2. Under(p, Child(<<>>, link)) = Child(p, link)
    BY <1>1, Together
  <2>3. (p \o Child(<<>>, link)) \o r = p \o (Child(<<>>, link) \o r)
    BY <2>1, Facts!ConcatAssociative DEF Position
  <2>. QED
    BY <2>2, <2>3 DEF Under, Led
<1>4. ASSUME NEW r \in Position, r # <<>>
      PROVE  \E link \in Links, s \in Position : r = Led(link, s)
  <2>. DEFINE s == Tail(r)
  <2>1. /\ Len(r) \in Nat \ {0} /\ r[1] \in Links /\ s \in Position /\ Len(s) = Len(r) - 1
        /\ \A i \in 1 .. Len(s) : s[i] = r[i + 1]
    BY <1>4 DEF Position
  <2>. HIDE DEF s
  <2>. DEFINE q == Led(r[1], s)
  <2>2. q \in Position /\ Len(q) = Len(r) /\ q[1] = r[1]
    BY <1>2, <2>1
  <2>3. \A i \in 1 .. Len(r) : i > 1 => q[i] = r[i]
    <3>1. \A i \in 1 .. Len(s) : q[1 + i] = s[i]
      BY <1>2, <2>1
    <3>2. \A i \in 1 .. Len(r) : i > 1 => i - 1 \in 1 .. Len(s) /\ 1 + (i - 1) = i
      BY <2>1
    <3>3. \A i \in 1 .. Len(r) : i > 1 => q[i] = s[i - 1] /\ s[i - 1] = r[(i - 1) + 1]
      BY <2>1, <3>1, <3>2
    <3>. QED
      BY <3>2, <3>3
  <2>. HIDE DEF q
  <2>4. \A i \in 1 .. Len(r) : q[i] = r[i]
    BY <2>1, <2>2, <2>3
  <2>5. r = q
    BY <2>2, <2>4, Facts!SeqEqual DEF Position
  <2>. QED
    BY <2>1, <2>5 DEF q
<1>5. ASSUME NEW l \in Links, NEW m \in Links, NEW r \in Position, NEW s \in Position,
             Led(l, r) = Led(m, s)
      PROVE  l = m /\ r = s
  <2>1. l = m
    BY <1>2, <1>5
  <2>2. Child(<<>>, l) \in Position
    BY <1>1, ChildType
  <2>. QED
    BY <1>5, <2>1, <2>2, UnderInjective DEF Led
<1>. QED
  BY <1>2, <1>3, <1>4, <1>5

\* The part of a tree at and below one of its positions.
Subtree(t, p) == [r \in {r \in Position : Under(p, r) \in DOMAIN t} |-> t[Under(p, r)]]

\* The part of a tree below a node is a tree: the nodes there, each at what is left of
\* its position.
LEMMA SubtreeFacts ==
  ASSUME NEW t, IsTree(t), NEW p \in DOMAIN t
  PROVE  LET u == Subtree(t, p) IN
           /\ IsTree(u) /\ <<>> \in DOMAIN u
           /\ \A r \in Position : r \in DOMAIN u <=> Under(p, r) \in DOMAIN t
           /\ \A r \in DOMAIN u : u[r] = t[Under(p, r)]
           /\ p = <<>> => u = t
<1>. DEFINE D == {r \in Position : Under(p, r) \in DOMAIN t}
            u == [r \in D |-> t[Under(p, r)]]
<1>1. /\ DOMAIN t \in SUBSET Position /\ IsFiniteSet(DOMAIN t)
      /\ \A q \in DOMAIN t : \A n \in 0 .. Len(q) : SubSeq(q, 1, n) \in DOMAIN t
      /\ t = [q \in DOMAIN t |-> t[q]]
      /\ \A q \in DOMAIN t : t[q] \in [criterion : Criterions, negated : BOOLEAN]
  BY TreeFacts
<1>2. p \in Position /\ <<>> \in Position
  BY <1>1, ChildType
<1>3. IsFiniteSet(D)
  <2>. DEFINE f == [r \in D |-> Under(p, r)]
  <2>1. f \in Injection(D, DOMAIN t)
    <3>1. f \in [D -> DOMAIN t]
      OBVIOUS
    <3>2. \A r, s \in D : f[r] = f[s] => r = s
      BY <1>2, UnderInjective
    <3>. QED
      BY <3>1, <3>2 DEF Injection, IsInjective
  <2>. QED
    BY <1>1, <2>1, FS_Injection DEF ExistsInjection
<1>4. ASSUME NEW r \in D, NEW n \in 0 .. Len(r) PROVE SubSeq(r, 1, n) \in D
  <2>1. r \in Position /\ SubSeq(r, 1, n) \in Position /\ Len(r) \in Nat /\ Len(p) \in Nat
    BY <1>2 DEF Position
  <2>2. Len(Under(p, r)) = Len(p) + Len(r)
    BY <1>2, <2>1, Together
  <2>3. PICK m : m = Len(p) + n
    OBVIOUS
  <2>4. m \in 0 .. Len(Under(p, r)) /\ m >= Len(p) /\ m - Len(p) = n
    BY <2>1, <2>2, <2>3
  <2>5. SubSeq(Under(p, r), 1, m) = Under(p, SubSeq(r, 1, n))
    BY <1>2, <2>1, <2>4, Beginning
  <2>6. Under(p, r) \in DOMAIN t
    OBVIOUS
  <2>7. SubSeq(Under(p, r), 1, m) \in DOMAIN t
    BY <1>1, <2>4, <2>6
  <2>. QED
    BY <2>1, <2>5, <2>7
<1>5. <<>> \in D
  BY <1>2, Together
<1>6. \A r \in D : t[Under(p, r)] \in [criterion : Criterions, negated : BOOLEAN]
  BY <1>1
<1>7. D \subseteq Seq(Links)
  BY DEF Position
<1>8. IsTree(u)
  <2>1. DOMAIN u = D
    OBVIOUS
  <2>2. u \in [D -> [criterion : Criterions, negated : BOOLEAN]]
    BY <1>6
  <2>. HIDE DEF u, D
  <2>. QED
    BY <1>3, <1>4, <1>7, <2>1, <2>2, Zenon DEF IsTree
<1>9. ASSUME p = <<>> PROVE u = t
  <2>1. \A r \in Position : Under(p, r) = r
    BY <1>9, <1>2, Together
  <2>2. D = DOMAIN t /\ \A r \in D : Under(p, r) = r
    BY <1>1, <2>1
  <2>3. u = [q \in DOMAIN t |-> t[q]]
    BY <2>2
  <2>. QED
    BY <1>1, <2>3
<1>. QED
  BY <1>5, <1>8, <1>9 DEF Subtree

\* A tree is known by its nodes.
LEMMA TreesEqual ==
  ASSUME NEW t, IsTree(t), NEW u, IsTree(u), DOMAIN t = DOMAIN u, \A p \in DOMAIN t : t[p] = u[p]
  PROVE  t = u
<1>1. t = [p \in DOMAIN t |-> t[p]] /\ u = [p \in DOMAIN u |-> u[p]]
  BY TreeFacts
<1>. QED
  BY <1>1

\* Trees with the same root and the same nodes by each link are the same.
LEMMA TreesEqualByLinks ==
  ASSUME NEW t, IsTree(t), NEW u, IsTree(u), <<>> \in DOMAIN t, <<>> \in DOMAIN u,
         t[<<>>] = u[<<>>],
         \A link \in Links, s \in Position :
           /\ Led(link, s) \in DOMAIN t <=> Led(link, s) \in DOMAIN u
           /\ Led(link, s) \in DOMAIN t => t[Led(link, s)] = u[Led(link, s)]
  PROVE  t = u
<1>1. DOMAIN t \subseteq Position /\ DOMAIN u \subseteq Position
  BY TreeFacts
<1>2. ASSUME NEW p \in Position
      PROVE  (p \in DOMAIN t <=> p \in DOMAIN u) /\ (p \in DOMAIN t => t[p] = u[p])
  BY LedFacts
<1>3. DOMAIN t = DOMAIN u /\ \A p \in DOMAIN t : t[p] = u[p]
  BY <1>1, <1>2
<1>. QED
  BY <1>3, TreesEqual

\* A tree linked to the root of another.
LEMMA LinkedNodes ==
  ASSUME NEW t, IsTree(t), DOMAIN t # {}, NEW c, IsTree(c), DOMAIN c # {},
         NEW link \in Links, Child(<<>>, link) \in Places(t)
  PROVE  LET u == Graft(t, {Child(<<>>, link)}, c) IN
           /\ IsTree(u) /\ <<>> \in DOMAIN u /\ u[<<>>] = t[<<>>]
           /\ \A s \in Position :
                /\ Led(link, s) \in DOMAIN u <=> s \in DOMAIN c
                /\ s \in DOMAIN c => u[Led(link, s)] = c[s]
           /\ \A m \in Links \ {link}, s \in Position :
                /\ Led(m, s) \in DOMAIN u <=> Led(m, s) \in DOMAIN t
                /\ Led(m, s) \in DOMAIN t => u[Led(m, s)] = t[Led(m, s)]
<1>. DEFINE q == Child(<<>>, link)
            A == {q}
            u == Graft(t, A, c)
<1>1. A \in SUBSET Places(t) /\ DOMAIN c \subseteq Position
  BY TreeFacts
<1>2. /\ DOMAIN u = DOMAIN t \cup Copies(A, c)
      /\ \A p \in DOMAIN t : u[p] = t[p]
      /\ \A a \in A, r \in DOMAIN c : Under(a, r) \in DOMAIN u /\ u[Under(a, r)] = c[r]
      /\ IsTree(u)
  <2>. HIDE DEF A
  <2>1. IsTree(Graft(t, A, c))
    BY <1>1, GraftTree
  <2>2. /\ DOMAIN Graft(t, A, c) = DOMAIN t \cup Copies(A, c)
        /\ \A p \in DOMAIN t : Graft(t, A, c)[p] = t[p]
    BY <1>1, GraftNodes
  <2>3. \A a \in A, r \in DOMAIN c : /\ Under(a, r) \in DOMAIN Graft(t, A, c)
                                     /\ Under(a, r) \notin DOMAIN t
                                     /\ Graft(t, A, c)[Under(a, r)] = c[r]
    BY <1>1, GraftNodes
  <2>. QED
    BY <2>1, <2>2, <2>3
<1>3. <<>> \in DOMAIN t
  BY TreeFacts
<1>4. \A s \in Position : Led(link, s) = Under(q, s) /\ Led(link, s) \notin DOMAIN t
  BY PlacesApart DEF Led
<1>5. \A x \in Copies(A, c) : \E r \in DOMAIN c : x = Led(link, r)
  BY CopiesMember DEF Led
<1>. HIDE DEF u, q
<1>6. ASSUME NEW s \in Position
      PROVE  /\ Led(link, s) \in DOMAIN u <=> s \in DOMAIN c
             /\ s \in DOMAIN c => u[Led(link, s)] = c[s]
  <2>1. ASSUME Led(link, s) \in DOMAIN u PROVE s \in DOMAIN c
    <3>1. Led(link, s) \in Copies(A, c)
      BY <1>2, <1>4, <2>1
    <3>2. PICK r \in DOMAIN c : Led(link, s) = Led(link, r)
      BY <1>5, <3>1
    <3>3. s = r
      BY <1>1, <3>2, LedFacts
    <3>. QED
      BY <3>3
  <2>. QED
    BY <1>2, <1>4, <2>1
<1>7. ASSUME NEW m \in Links \ {link}, NEW s \in Position
      PROVE  /\ Led(m, s) \in DOMAIN u <=> Led(m, s) \in DOMAIN t
             /\ Led(m, s) \in DOMAIN t => u[Led(m, s)] = t[Led(m, s)]
  <2>1. ASSUME Led(m, s) \in Copies(A, c) PROVE FALSE
    <3>1. PICK r \in DOMAIN c : Led(m, s) = Led(link, r)
      BY <1>5, <2>1
    <3>2. m = link
      BY <1>1, <3>1, LedFacts
    <3>. QED
      BY <3>2
  <2>. QED
    BY <1>2, <2>1
<1>. QED
  BY <1>2, <1>3, <1>6, <1>7 DEF u, q

\* Where the operands of a single criterion are linked.
LEMMA LeafPlaces ==
  ASSUME NEW k \in Criterions
  PROVE  /\ Child(<<>>, "and") \in Places(Leaf(k)) /\ Child(<<>>, "or") \in Places(Leaf(k))
         /\ \A c : AndCriteria(Leaf(k), c) = Graft(Leaf(k), {Child(<<>>, "and")}, c)
         /\ \A c : OrCriteria(Leaf(k), c) = Graft(Leaf(k), {Child(<<>>, "or")}, c)
         /\ \A link \in Links, s \in Position : Led(link, s) \notin DOMAIN Leaf(k)
<1>1. DOMAIN Leaf(k) = {<<>>} /\ "and" \in Links /\ "or" \in Links
  BY LeafFacts DEF Links
<1>2. \A link \in Links : Child(<<>>, link) # <<>> /\ Child(<<>>, link) \in Position
  BY ChildType
<1>3. Child(<<>>, "and") \in Places(Leaf(k)) /\ Child(<<>>, "or") \in Places(Leaf(k))
  BY <1>1, <1>2 DEF Places
<1>4. AndPlaces(Leaf(k)) = {Child(<<>>, "and")}
  BY <1>1, <1>2 DEF AndPlaces, Has, Child
<1>5. OrPlaces(Leaf(k)) = {Child(<<>>, "or")}
  <2>1. Chain(Leaf(k)) = {<<>>}
    BY <1>1 DEF Chain
  <2>. QED
    BY <1>1, <1>2, <2>1 DEF OrPlaces, Has, Child
<1>6. \A link \in Links, s \in Position : Led(link, s) \notin DOMAIN Leaf(k)
  BY <1>1, LedFacts
<1>. QED
  BY <1>3, <1>4, <1>5, <1>6 DEF AndCriteria, OrCriteria

\* The same, of a single criterion with an operand.
LEMMA ConjunctionPlaces ==
  ASSUME NEW k \in Criterions, NEW c, IsTree(c), DOMAIN c # {}
  PROVE  LET b == AndCriteria(Leaf(k), c) IN
           /\ IsTree(b) /\ <<>> \in DOMAIN b /\ b[<<>>] = Leaf(k)[<<>>]
           /\ \A s \in Position :
                /\ Led("and", s) \in DOMAIN b <=> s \in DOMAIN c
                /\ s \in DOMAIN c => b[Led("and", s)] = c[s]
                /\ Led("or", s) \notin DOMAIN b
           /\ Child(<<>>, "or") \in Places(b)
           /\ \A c2 : OrCriteria(b, c2) = Graft(b, {Child(<<>>, "or")}, c2)
<1>. DEFINE b == AndCriteria(Leaf(k), c)
<1>1. "and" \in Links /\ "or" \in Links \ {"and"} /\ <<>> \in Position
  BY ChildType DEF Links
<1>2. /\ IsTree(b) /\ <<>> \in DOMAIN b /\ b[<<>>] = Leaf(k)[<<>>]
      /\ \A s \in Position :
           /\ Led("and", s) \in DOMAIN b <=> s \in DOMAIN c
           /\ s \in DOMAIN c => b[Led("and", s)] = c[s]
           /\ Led("or", s) \notin DOMAIN b
  BY <1>1, LeafFacts, LeafPlaces, LinkedNodes
<1>. HIDE DEF b
<1>3. Child(<<>>, "or") = Led("or", <<>>) /\ Child(<<>>, "or") \in Position
  BY <1>1, LedFacts, ChildType
<1>4. Child(<<>>, "or") \notin DOMAIN b
  BY <1>1, <1>2, <1>3
<1>5. Child(<<>>, "or") \in Places(b)
  BY <1>1, <1>2, <1>3, <1>4 DEF Places
<1>6. Chain(b) = {<<>>}
  <2>1. ASSUME NEW p \in DOMAIN b, AllOr(p), p # <<>> PROVE FALSE
    <3>1. p \in Position
      BY <1>2, TreeFacts
    <3>2. PICK link \in Links, s \in Position : p = Led(link, s)
      BY <2>1, <3>1, LedFacts
    <3>3. link = "and"
      BY <1>2, <3>2 DEF Links
    <3>4. AllOr(Child(<<>>, "and"))
      BY <1>1, <2>1, <3>2, <3>3, AllOrFacts, ChildType DEF Led
    <3>. QED
      BY <1>1, <3>4, AllOrFacts
  <2>. QED
    BY <1>2, <2>1, AllOrFacts DEF Chain, AllOr
<1>7. OrPlaces(b) = {Child(<<>>, "or")}
  BY <1>4, <1>6 DEF OrPlaces, Has, Child
<1>. QED
  BY <1>2, <1>5, <1>7 DEF OrCriteria, b

\* A node with what is below it, composed from its criterion and its children.
Conjunction(t, p) ==
  IF Child(p, "and") \in DOMAIN t
  THEN AndCriteria(Leaf(t[p].criterion), Subtree(t, Child(p, "and"))) ELSE Leaf(t[p].criterion)
Disjunction(t, p) ==
  IF Child(p, "or") \in DOMAIN t
  THEN OrCriteria(Conjunction(t, p), Subtree(t, Child(p, "or"))) ELSE Conjunction(t, p)

\* Every node without a negation is what or and and make of its criterion and of what
\* its links lead to.
LEMMA SubtreeComposed ==
  ASSUME NEW t, IsTree(t), NEW p \in DOMAIN t, ~t[p].negated
  PROVE  Subtree(t, p) = Disjunction(t, p)
<1>. DEFINE u == Subtree(t, p)
            k == t[p].criterion
            Part(link) == Subtree(t, Child(p, link))
            b == Conjunction(t, p)
            d == Disjunction(t, p)
<1>1. /\ DOMAIN t \subseteq Position /\ p \in Position /\ k \in Criterions
      /\ t[p] \in [criterion : Criterions, negated : BOOLEAN]
      /\ "and" \in Links /\ "or" \in Links
  BY TreeFacts DEF Links
<1>2. /\ IsTree(u) /\ <<>> \in DOMAIN u
      /\ \A r \in Position : r \in DOMAIN u <=> Under(p, r) \in DOMAIN t
      /\ \A r \in DOMAIN u : u[r] = t[Under(p, r)]
  BY SubtreeFacts
<1>3. u[<<>>] = Leaf(k)[<<>>]
  <2>1. u[<<>>] = t[p]
    BY <1>1, <1>2, Together
  <2>2. t[p] = [criterion |-> k, negated |-> FALSE]
    BY <1>1
  <2>. QED
    BY <2>1, <2>2 DEF Leaf
<1>4. ASSUME NEW link \in Links, Child(p, link) \in DOMAIN t
      PROVE  /\ IsTree(Part(link)) /\ DOMAIN Part(link) # {}
             /\ \A s \in Position :
                  /\ Led(link, s) \in DOMAIN u <=> s \in DOMAIN Part(link)
                  /\ s \in DOMAIN Part(link) => u[Led(link, s)] = Part(link)[s]
  <2>1. /\ IsTree(Part(link)) /\ <<>> \in DOMAIN Part(link)
        /\ \A r \in Position : r \in DOMAIN Part(link) <=> Under(Child(p, link), r) \in DOMAIN t
        /\ \A r \in DOMAIN Part(link) : Part(link)[r] = t[Under(Child(p, link), r)]
    BY <1>4, SubtreeFacts
  <2>2. \A s \in Position : /\ Led(link, s) \in Position
                            /\ Under(Child(p, link), s) = Under(p, Led(link, s))
    BY <1>1, LedFacts
  <2>. HIDE DEF u, Part
  <2>. QED
    BY <1>2, <2>1, <2>2
<1>5. ASSUME NEW link \in Links, Child(p, link) \notin DOMAIN t, NEW s \in Position
      PROVE  Led(link, s) \notin DOMAIN u
  <2>. DEFINE q == Child(p, link)
              n == Len(q)
  <2>1. /\ q \in Position /\ q \notin DOMAIN t /\ n \in Nat /\ Len(s) \in Nat
        /\ Under(q, s) = Under(p, Led(link, s)) /\ Led(link, s) \in Position
    BY <1>1, <1>5, LedFacts, ChildType
  <2>. HIDE DEF q
  <2>2. n \in 0 .. Len(Under(q, s)) /\ SubSeq(q, 1, n) = q
    BY <2>1, Together DEF Position
  <2>3. SubSeq(Under(q, s), 1, n) = q
    BY <2>1, <2>2, Beginning
  <2>4. Under(q, s) \notin DOMAIN t
    <3>1. Under(q, s) \in DOMAIN t => SubSeq(Under(q, s), 1, n) \in DOMAIN t
      BY <2>2, TreeFacts
    <3>. QED
      BY <2>1, <2>3, <3>1
  <2>. QED
    BY <1>2, <2>1, <2>4
<1>. HIDE DEF u, k, Part
<1>6. /\ IsTree(b) /\ <<>> \in DOMAIN b /\ b[<<>>] = Leaf(k)[<<>>]
      /\ Child(<<>>, "or") \in Places(b)
      /\ \A c2 : OrCriteria(b, c2) = Graft(b, {Child(<<>>, "or")}, c2)
      /\ \A s \in Position :
           /\ Led("and", s) \in DOMAIN b <=> Led("and", s) \in DOMAIN u
           /\ Led("and", s) \in DOMAIN u => b[Led("and", s)] = u[Led("and", s)]
           /\ Led("or", s) \notin DOMAIN b
  <2>1. CASE Child(p, "and") \in DOMAIN t
    <3>1. b = AndCriteria(Leaf(k), Part("and"))
      BY <2>1 DEF Conjunction, k, Part
    <3>2. IsTree(Part("and")) /\ DOMAIN Part("and") # {}
      BY <1>1, <1>4, <2>1
    <3>. HIDE DEF b
    <3>3. /\ IsTree(b) /\ <<>> \in DOMAIN b /\ b[<<>>] = Leaf(k)[<<>>]
          /\ Child(<<>>, "or") \in Places(b)
          /\ \A c2 : OrCriteria(b, c2) = Graft(b, {Child(<<>>, "or")}, c2)
          /\ \A s \in Position :
               /\ Led("and", s) \in DOMAIN b <=> s \in DOMAIN Part("and")
               /\ s \in DOMAIN Part("and") => b[Led("and", s)] = Part("and")[s]
               /\ Led("or", s) \notin DOMAIN b
      BY <1>1, <3>1, <3>2, ConjunctionPlaces
    <3>. QED
      BY <1>1, <1>4, <2>1, <3>3
  <2>2. CASE Child(p, "and") \notin DOMAIN t
    <3>1. b = Leaf(k)
      BY <2>2 DEF Conjunction, k
    <3>. HIDE DEF b
    <3>. QED
      BY <1>1, <1>5, <2>2, <3>1, LeafPlaces, LeafFacts
  <2>. QED
    BY <2>1, <2>2
<1>. HIDE DEF b
<1>7. CASE Child(p, "or") \in DOMAIN t
  <2>1. d = Graft(b, {Child(<<>>, "or")}, Part("or"))
    BY <1>6, <1>7 DEF Disjunction, Part, b
  <2>2. IsTree(Part("or")) /\ DOMAIN Part("or") # {} /\ DOMAIN b # {}
    BY <1>1, <1>4, <1>6, <1>7
  <2>. HIDE DEF d
  <2>3. "and" \in Links \ {"or"}
    BY DEF Links
  <2>4. /\ IsTree(d) /\ <<>> \in DOMAIN d /\ d[<<>>] = b[<<>>]
        /\ \A s \in Position :
             /\ Led("or", s) \in DOMAIN d <=> s \in DOMAIN Part("or")
             /\ s \in DOMAIN Part("or") => d[Led("or", s)] = Part("or")[s]
             /\ Led("and", s) \in DOMAIN d <=> Led("and", s) \in DOMAIN b
             /\ Led("and", s) \in DOMAIN b => d[Led("and", s)] = b[Led("and", s)]
    BY <1>1, <1>6, <2>1, <2>2, <2>3, LinkedNodes
  <2>5. \A s \in Position :
             /\ Led("or", s) \in DOMAIN u <=> s \in DOMAIN Part("or")
             /\ s \in DOMAIN Part("or") => u[Led("or", s)] = Part("or")[s]
    BY <1>1, <1>4, <1>7
  <2>6. \A link \in Links, s \in Position :
          /\ Led(link, s) \in DOMAIN u <=> Led(link, s) \in DOMAIN d
          /\ Led(link, s) \in DOMAIN u => u[Led(link, s)] = d[Led(link, s)]
    BY <1>6, <2>4, <2>5 DEF Links
  <2>7. u = d
    BY <1>2, <1>3, <1>6, <2>4, <2>6, TreesEqualByLinks
  <2>. QED
    BY <2>7 DEF u, d
<1>8. CASE Child(p, "or") \notin DOMAIN t
  <2>1. d = b
    BY <1>8 DEF Disjunction, b
  <2>2. \A s \in Position : Led("or", s) \notin DOMAIN u
    BY <1>1, <1>5, <1>8
  <2>3. \A link \in Links, s \in Position :
          /\ Led(link, s) \in DOMAIN u <=> Led(link, s) \in DOMAIN b
          /\ Led(link, s) \in DOMAIN u => u[Led(link, s)] = b[Led(link, s)]
    BY <1>6, <2>2 DEF Links
  <2>. HIDE DEF d
  <2>4. u = b
    BY <1>2, <1>3, <1>6, <2>3, TreesEqualByLinks
  <2>. QED
    BY <2>1, <2>4 DEF u, d
<1>. QED
  BY <1>7, <1>8

\* A criterion, and then another, added by and are added as one criteria.
LEMMA AndInTurn ==
  ASSUME NEW t, IsTree(t), DOMAIN t # {}, NEW k \in Criterions, NEW c, IsTree(c), DOMAIN c # {}
  PROVE  LET u == AndCriteria(t, Leaf(k)) IN
           /\ IsTree(u) /\ DOMAIN u # {}
           /\ AndCriteria(u, c) = AndCriteria(t, AndCriteria(Leaf(k), c))
<1>. DEFINE A == AndPlaces(t)
            u == Graft(t, A, Leaf(k))
            C == AndPlaces(u)
            w == Graft(u, C, c)
            b == AndCriteria(Leaf(k), c)
            v == Graft(t, A, b)
<1>1. /\ DOMAIN t \subseteq Position /\ DOMAIN c \subseteq Position
      /\ "and" \in Links /\ <<>> \in Position /\ A \in SUBSET Places(t)
      /\ IsTree(Leaf(k)) /\ DOMAIN Leaf(k) = {<<>>}
  BY TreeFacts, ChildType, AndPlacesFacts, LeafFacts DEF Links
<1>2. \A q \in A : /\ q \in Position /\ Under(q, <<>>) = q
                   /\ \A s \in Position : /\ Led("and", s) \in Position
                                          /\ Under(Child(q, "and"), s) = Under(q, Led("and", s))
  <2>. SUFFICES ASSUME NEW q \in A
                PROVE  /\ q \in Position /\ Under(q, <<>>) = q
                       /\ \A s \in Position :
                            /\ Led("and", s) \in Position
                            /\ Under(Child(q, "and"), s) = Under(q, Led("and", s))
    OBVIOUS
  <2>. HIDE DEF A
  <2>1. q \in Position
    BY <1>1, PlaceFacts
  <2>2. Under(q, <<>>) = q
    BY <1>1, <2>1, Together
  <2>. QED
    BY <1>1, <2>1, <2>2, LedFacts
<1>3. /\ IsTree(b) /\ <<>> \in DOMAIN b /\ b[<<>>] = Leaf(k)[<<>>]
      /\ \A s \in Position :
           /\ Led("and", s) \in DOMAIN b <=> s \in DOMAIN c
           /\ s \in DOMAIN c => b[Led("and", s)] = c[s]
           /\ Led("or", s) \notin DOMAIN b
  BY ConjunctionPlaces
<1>. HIDE DEF A, b
<1>4. /\ IsTree(u) /\ DOMAIN u = DOMAIN t \cup Copies(A, Leaf(k))
      /\ \A p \in DOMAIN t : u[p] = t[p]
  BY <1>1, GraftNodes, GraftTree
<1>5. \A q \in A : q \in DOMAIN u /\ q \notin DOMAIN t /\ u[q] = Leaf(k)[<<>>]
  <2>1. \A q \in A, r \in DOMAIN Leaf(k) : /\ Under(q, r) \in DOMAIN u
                                           /\ Under(q, r) \notin DOMAIN t
                                           /\ u[Under(q, r)] = Leaf(k)[r]
    BY <1>1, GraftNodes
  <2>. HIDE DEF u
  <2>. QED
    BY <1>1, <1>2, <2>1
<1>6. DOMAIN u = DOMAIN t \cup A
  <2>1. \A x \in Copies(A, Leaf(k)) : x \in A
    <3>. SUFFICES ASSUME NEW x \in Copies(A, Leaf(k)) PROVE x \in A
      OBVIOUS
    <3>1. PICK q \in A, r \in DOMAIN Leaf(k) : x = Under(q, r)
      BY CopiesMember
    <3>. QED
      BY <1>1, <1>2, <3>1
  <2>. QED
    BY <1>4, <1>5, <2>1
<1>. HIDE DEF u
<1>7. C \in SUBSET Places(u) /\ DOMAIN u # {}
  <2>1. DOMAIN u # {}
    BY <1>6
  <2>. QED
    BY <1>4, <2>1, AndPlacesFacts
<1>8. \A q \in A : Child(q, "and") \in C
  <2>. SUFFICES ASSUME NEW q \in A PROVE Child(q, "and") \notin DOMAIN u
    BY <1>1, <1>4, <1>5, <1>7, AndPlacesFacts
  <2>1. Child(q, "and") = Under(q, Led("and", <<>>)) /\ Led("and", <<>>) \in Position
    BY <1>1, <1>2, Together, ChildType
  <2>2. Led("and", <<>>) # <<>>
    BY <1>1, LedFacts
  <2>3. q \in Places(t)
    BY <1>1
  <2>4. Child(q, "and") \notin DOMAIN t
    BY <2>1, <2>3, PlacesApart
  <2>5. ASSUME NEW q2 \in A, Child(q, "and") = q2 PROVE FALSE
    <3>1. Under(q, Led("and", <<>>)) = Under(q2, <<>>) /\ q2 \in Places(t)
      BY <1>1, <1>2, <2>1, <2>5
    <3>2. Led("and", <<>>) = <<>>
      BY <1>1, <2>1, <2>3, <3>1, PlacesApart
    <3>. QED
      BY <2>2, <3>2
  <2>. QED
    BY <1>6, <2>4, <2>5
<1>9. \A x \in C : \E q \in A : x = Child(q, "and")
  <2>. SUFFICES ASSUME NEW x \in C PROVE \E q \in A : x = Child(q, "and")
    OBVIOUS
  <2>1. PICK p \in DOMAIN u, link \in Links : x = Child(p, link) /\ x \notin DOMAIN u
    BY <1>7 DEF Places
  <2>2. link = "and"
    BY <1>4, <1>7, <2>1, AndPlacesFacts
  <2>3. p \in DOMAIN t => FALSE
    <3>. SUFFICES ASSUME p \in DOMAIN t PROVE FALSE
      OBVIOUS
    <3>1. Child(p, "and") \notin DOMAIN t
      BY <1>6, <2>1, <2>2
    <3>2. Child(p, "and") \in A
      BY <1>1, <3>1, AndPlacesFacts DEF A
    <3>. QED
      BY <1>6, <2>1, <2>2, <3>2
  <2>. QED
    BY <1>6, <2>1, <2>2, <2>3
<1>10. /\ IsTree(w) /\ DOMAIN w = DOMAIN u \cup Copies(C, c)
       /\ \A p \in DOMAIN u : w[p] = u[p]
  BY <1>4, <1>7, GraftNodes, GraftTree
<1>11. \A q \in C, r \in DOMAIN c : /\ Under(q, r) \in DOMAIN w
                                    /\ Under(q, r) \notin DOMAIN u
                                    /\ w[Under(q, r)] = c[r]
  BY <1>4, <1>7, GraftNodes
<1>12. /\ IsTree(v) /\ DOMAIN v = DOMAIN t \cup Copies(A, b)
       /\ \A p \in DOMAIN t : v[p] = t[p]
  BY <1>1, <1>3, GraftNodes, GraftTree
<1>13. \A q \in A, r \in DOMAIN b : /\ Under(q, r) \in DOMAIN v
                                    /\ Under(q, r) \notin DOMAIN t
                                    /\ v[Under(q, r)] = b[r]
  <2>. IsTree(b) /\ A \in SUBSET Places(t)
    BY <1>1, <1>3
  <2>1. \A q \in A, r \in DOMAIN b : /\ Under(q, r) \in DOMAIN Graft(t, A, b)
                                     /\ Under(q, r) \notin DOMAIN t
                                     /\ Graft(t, A, b)[Under(q, r)] = b[r]
    BY GraftNodes
  <2>. QED
    BY <2>1
<1>. HIDE DEF w, v, C
<1>14. ASSUME NEW x \in DOMAIN v PROVE x \in DOMAIN w /\ w[x] = v[x]
  <2>1. CASE x \in DOMAIN t
    BY <1>4, <1>6, <1>10, <1>12, <2>1
  <2>2. CASE x \in Copies(A, b)
    <3>1. PICK q \in A, r \in DOMAIN b : x = Under(q, r)
      BY <2>2, CopiesMember
    <3>2. v[x] = b[r] /\ r \in Position
      BY <1>3, <1>13, <3>1, TreeFacts
    <3>3. CASE r = <<>>
      <4>1. x = q
        BY <1>2, <3>1, <3>3
      <4>. QED
        BY <1>3, <1>5, <1>10, <3>2, <3>3, <4>1
    <3>4. CASE r # <<>>
      <4>1. PICK link \in Links, s \in Position : r = Led(link, s)
        BY <3>2, <3>4, LedFacts
      <4>2. link = "and"
        BY <1>3, <4>1 DEF Links
      <4>3. s \in DOMAIN c /\ b[r] = c[s]
        BY <1>3, <4>1, <4>2
      <4>4. x = Under(Child(q, "and"), s)
        BY <1>2, <3>1, <4>1, <4>2
      <4>. QED
        BY <1>8, <1>11, <3>2, <4>3, <4>4
    <3>. QED
      BY <3>3, <3>4
  <2>. QED
    BY <1>12, <2>1, <2>2
<1>15. ASSUME NEW x \in DOMAIN w PROVE x \in DOMAIN v
  <2>1. CASE x \in DOMAIN t
    BY <1>12, <2>1
  <2>2. CASE x \in A
    <3>1. Under(x, <<>>) = x /\ Under(x, <<>>) \in DOMAIN v
      BY <1>2, <1>3, <1>13, <2>2
    <3>. QED
      BY <3>1
  <2>3. CASE x \in Copies(C, c)
    <3>1. PICK y \in C, s \in DOMAIN c : x = Under(y, s)
      BY <2>3, CopiesMember
    <3>2. PICK q \in A : y = Child(q, "and")
      BY <1>9
    <3>3. s \in Position /\ x = Under(q, Led("and", s))
      BY <1>1, <1>2, <3>1, <3>2
    <3>4. Led("and", s) \in DOMAIN b
      BY <1>3, <3>3
    <3>. QED
      BY <1>13, <3>3, <3>4
  <2>. QED
    BY <1>6, <1>10, <2>1, <2>2, <2>3
<1>16. w = v
  <2>1. DOMAIN w = DOMAIN v /\ \A x \in DOMAIN w : w[x] = v[x]
    BY <1>14, <1>15
  <2>. QED
    BY <1>10, <1>12, <2>1, TreesEqual
<1>17. /\ u = AndCriteria(t, Leaf(k)) /\ w = AndCriteria(u, c) /\ v = AndCriteria(t, b)
  BY DEF AndCriteria, A, C, u, v, w
<1>. QED
  BY <1>4, <1>7, <1>16, <1>17 DEF b

-----------------------------------------------------------------------------
\* A criteria becomes all that has been read if there was nothing before it.
LEMMA WithEmpty ==
  ASSUME NEW tree, DOMAIN tree = {}, NEW operator, NEW outer, NEW c
  PROVE  With(Reads(tree, operator, outer), c) = Reads(c, "none", outer)
BY DEF With, Reads, Reading

\* A node without its alternative has a root.
LEMMA ConjunctionNodes ==
  ASSUME NEW t, IsTree(t), NEW p \in DOMAIN t
  PROVE  DOMAIN Conjunction(t, p) # {}
<1>1. t[p].criterion \in Criterions
  BY TreeFacts
<1>2. ASSUME Child(p, "and") \in DOMAIN t
      PROVE  /\ IsTree(Subtree(t, Child(p, "and"))) /\ DOMAIN Subtree(t, Child(p, "and")) # {}
  BY <1>2, SubtreeFacts
<1>. QED
  BY <1>1, <1>2, ConjunctionPlaces, LeafFacts DEF Conjunction

\* A criterion, an and, and a criteria are read as what they compose.
LEMMA ReadInTurn ==
  ASSUME NEW r, Ready(r), NEW k \in Criterions, NEW c, IsTree(c), DOMAIN c # {}
  PROVE  LET next == Take(With(r, Leaf(k)), "&&") IN
           Ready(next) /\ With(next, c) = With(r, AndCriteria(Leaf(k), c))
<1>. DEFINE next == Take(With(r, Leaf(k)), "&&")
            b == AndCriteria(Leaf(k), c)
<1>1. PICK tree, operator, outer :
        /\ r = Reads(tree, operator, outer)
        /\ \/ DOMAIN tree = {} /\ operator = "none"
           \/ DOMAIN tree # {} /\ operator = "&&" /\ IsTree(tree)
  BY DEF Ready
<1>2. IsTree(Leaf(k)) /\ DOMAIN Leaf(k) # {}
  BY LeafFacts
<1>3. \A t, c2 : Composed("&&", t, c2) = AndCriteria(t, c2)
  BY DEF Composed
<1>4. CASE DOMAIN tree = {}
  <2>1. With(r, Leaf(k)) = Reads(Leaf(k), "none", outer) /\ With(r, b) = Reads(b, "none", outer)
    BY <1>1, <1>4, WithEmpty
  <2>2. next = Reads(Leaf(k), "&&", outer)
    BY <1>2, <2>1, TakeFacts
  <2>3. Ready(next)
    BY <1>2, <2>2 DEF Ready
  <2>4. With(next, c) = Reads(Composed("&&", Leaf(k), c), "none", outer)
    BY <1>2, <2>2, WithFacts
  <2>. QED
    BY <1>3, <2>1, <2>3, <2>4
<1>5. CASE DOMAIN tree # {}
  <2>. DEFINE u == AndCriteria(tree, Leaf(k))
  <2>1. /\ IsTree(u) /\ DOMAIN u # {} /\ AndCriteria(u, c) = AndCriteria(tree, b)
    BY <1>1, <1>5, AndInTurn
  <2>2. /\ With(r, Leaf(k)) = Reads(u, "none", outer)
        /\ With(r, b) = Reads(AndCriteria(tree, b), "none", outer)
    BY <1>1, <1>3, <1>5, WithFacts
  <2>. HIDE DEF u, b
  <2>3. next = Reads(u, "&&", outer)
    BY <2>1, <2>2, TakeFacts
  <2>4. Ready(next)
    BY <2>1, <2>3 DEF Ready
  <2>5. With(next, c) = Reads(Composed("&&", u, c), "none", outer)
    BY <2>1, <2>3, WithFacts
  <2>. QED
    BY <1>3, <2>1, <2>2, <2>4, <2>5 DEF b
<1>. QED
  BY <1>4, <1>5

\* The text of a node without its alternative is read as the node without it, of the
\* criterions that m has in the place of those of t.
LEMMA ParseConjunction ==
  ASSUME NEW t, IsTree(t), NEW m, IsTree(m), DOMAIN m = DOMAIN t, NEW p \in DOMAIN t, NEW text,
         \A r : Ready(r) => Parse(r, Wording[t[p].criterion]) = With(r, Leaf(m[p].criterion)),
         Child(p, "and") \in DOMAIN t =>
           /\ text[Child(p, "and")] \in Seq(Tokens)
           /\ \A r : Ready(r) => Parse(r, text[Child(p, "and")])
                                   = With(r, Subtree(m, Child(p, "and")))
  PROVE  /\ Both(t, text, p) \in Seq(Tokens)
         /\ \A r : Ready(r) => Parse(r, Both(t, text, p)) = With(r, Conjunction(m, p))
<1>. DEFINE k == m[p].criterion
            a == text[Child(p, "and")]
            c == Subtree(m, Child(p, "and"))
            one == Wording[t[p].criterion]
            and == <<"&&">>
<1>1. /\ k \in Criterions /\ one \in Seq(Tokens) /\ and \in Seq(Tokens)
      /\ \A r : Parse(r, and) = Take(r, "&&")
  <2>1. k \in Criterions /\ t[p].criterion \in Criterions
    BY TreeFacts
  <2>2. one \in Seq(Tokens)
    BY <2>1, WordingAssumption DEF WordingAssumption
  <2>3. "&&" \in Tokens
    BY DEF Tokens, Punctuation
  <2>. HIDE DEF k, one
  <2>. QED
    BY <2>1, <2>2, <2>3, ParseTexts, ParseOne
<1>2. \A r : Ready(r) => Parse(r, one) = With(r, Leaf(k))
  OBVIOUS
<1>3. CASE Child(p, "and") \in DOMAIN t
  <2>1. Both(t, text, p) = one \o (and \o a) /\ Conjunction(m, p) = AndCriteria(Leaf(k), c)
    BY <1>3 DEF Both, Conjunction, Has, Child
  <2>2. a \in Seq(Tokens) /\ \A r : Ready(r) => Parse(r, a) = With(r, c)
    BY <1>3
  <2>3. IsTree(c) /\ DOMAIN c # {}
    BY <1>3, SubtreeFacts
  <2>. HIDE DEF k, a, c, one, and
  <2>4. one \o (and \o a) \in Seq(Tokens) /\ and \o a \in Seq(Tokens)
    BY <1>1, <2>2, ParseTexts
  <2>5. ASSUME NEW r, Ready(r)
        PROVE  Parse(r, one \o (and \o a)) = With(r, AndCriteria(Leaf(k), c))
    <3>. DEFINE next == Take(With(r, Leaf(k)), "&&")
    <3>1. Ready(next) /\ With(next, c) = With(r, AndCriteria(Leaf(k), c))
      BY <1>1, <2>3, <2>5, ReadInTurn
    <3>2. Parse(r, one \o (and \o a)) = Parse(Parse(With(r, Leaf(k)), and), a)
      <4>. DEFINE rest == and \o a
                  w == With(r, Leaf(k))
      <4>1. Parse(w, rest) = Parse(Parse(w, and), a)
        BY <1>1, <2>2, ParseTexts
      <4>2. rest \in Seq(Tokens)
        BY <2>4
      <4>4. Parse(r, one) = w
        BY <1>2, <2>5
      <4>. HIDE DEF rest, w
      <4>3. Parse(r, one \o rest) = Parse(Parse(r, one), rest)
        BY <1>1, <4>2, ParseTexts
      <4>. QED
        BY <4>1, <4>3, <4>4 DEF rest, w
    <3>3. Parse(With(r, Leaf(k)), and) = next
      BY <1>1
    <3>. HIDE DEF next
    <3>. QED
      BY <2>2, <3>1, <3>2, <3>3
  <2>. QED
    BY <2>1, <2>4, <2>5
<1>4. CASE Child(p, "and") \notin DOMAIN t
  <2>1. Both(t, text, p) = one \o <<>> /\ Conjunction(m, p) = Leaf(k)
    BY <1>4 DEF Both, Conjunction, Has, Child
  <2>. HIDE DEF k, one, and
  <2>2. one \o <<>> = one
    BY <1>1, Facts!ConcatEmptySeq
  <2>. QED
    BY <1>1, <1>2, <2>1, <2>2
<1>. QED
  BY <1>3, <1>4

\* The text of a node of a tree without a negation is read as the node and what is
\* below it, of what the wordings mean: by induction, from the deepest nodes up.
LEMMA ParseSubtree ==
  ASSUME NEW t, IsTree(t), Plain(t, DOMAIN t), NEW m, IsTree(m), Plain(m, DOMAIN m),
         DOMAIN m = DOMAIN t,
         \A p \in DOMAIN t : \A r :
           Ready(r) => Parse(r, Wording[t[p].criterion]) = With(r, Leaf(m[p].criterion))
  PROVE  \A p \in DOMAIN t : \A r : Ready(r) => Parse(r, Texts(t)[p]) = With(r, Subtree(m, p))
<1>. DEFINE text == Texts(t)
            S == {p \in DOMAIN t : \A r : Ready(r) => Parse(r, text[p]) = With(r, Subtree(m, p))}
<1>1. \A p \in DOMAIN t : /\ text[p] = Printed(t, text, p) /\ text[p] \in Seq(Tokens)
                          /\ Subtree(m, p) = Disjunction(m, p) /\ DOMAIN Subtree(m, p) # {}
  <2>1. \A p \in DOMAIN t : text[p] = Printed(t, text, p) /\ text[p] \in Seq(Tokens)
    BY TextsDef, TextsType
  <2>2. \A p \in DOMAIN t : Subtree(m, p) = Disjunction(m, p) /\ DOMAIN Subtree(m, p) # {}
    BY SubtreeComposed, SubtreeFacts DEF Plain
  <2>. QED
    BY <2>1, <2>2
<1>. HIDE DEF text
<1>2. ASSUME NEW p \in DOMAIN t, Below(t, p) \subseteq S PROVE p \in S
  <2>. DEFINE a == Both(t, text, p)
              b == text[Child(p, "or")]
              c == Conjunction(m, p)
              c2 == Subtree(m, Child(p, "or"))
  <2>1. \A link \in Links : Child(p, link) \in DOMAIN t =>
          \A r : Ready(r) => Parse(r, text[Child(p, link)]) = With(r, Subtree(m, Child(p, link)))
    BY <1>2 DEF Below
  <2>2. "and" \in Links /\ "or" \in Links
    BY DEF Links
  <2>3. a \in Seq(Tokens) /\ \A r : Ready(r) => Parse(r, a) = With(r, c)
    BY <1>1, <2>1, <2>2, ParseConjunction
  <2>4. CASE Child(p, "or") \in DOMAIN t
    <3>1. text[p] = Grouped(a, b) /\ Subtree(m, p) = OrCriteria(c, c2)
      <4>1. Printed(t, text, p) = Grouped(a, b)
        BY <2>4 DEF Printed, Has, Child
      <4>2. Disjunction(m, p) = OrCriteria(c, c2)
        BY <2>4 DEF Disjunction
      <4>. QED
        BY <1>1, <4>1, <4>2
    <3>2. b \in Seq(Tokens) /\ \A r : Ready(r) => Parse(r, b) = With(r, c2)
      BY <1>1, <2>1, <2>2, <2>4
    <3>3. DOMAIN c # {} /\ DOMAIN c2 # {} /\ DOMAIN OrCriteria(c, c2) # {}
      <4>1. DOMAIN c # {}
        BY ConjunctionNodes
      <4>2. DOMAIN c2 # {} /\ DOMAIN Subtree(m, p) # {}
        BY <1>1, <2>4
      <4>. QED
        BY <3>1, <4>1, <4>2
    <3>. HIDE DEF a, b, c, c2
    <3>4. /\ \A x : Parse(Opened(x), a) = With(Opened(x), c)
          /\ \A x : Parse(Opened(x), b) = With(Opened(x), c2)
      BY <2>3, <3>2, ReadyFacts
    <3>5. ASSUME NEW r, Ready(r) PROVE Parse(r, Grouped(a, b)) = With(r, OrCriteria(c, c2))
      BY <2>3, <3>2, <3>3, <3>4, <3>5, ParseGrouped
    <3>. QED
      BY <3>1, <3>5
  <2>5. CASE Child(p, "or") \notin DOMAIN t
    <3>1. text[p] = a /\ Subtree(m, p) = c
      <4>1. Printed(t, text, p) = a
        BY <2>5 DEF Printed, Has, Child
      <4>2. Disjunction(m, p) = c
        BY <2>5 DEF Disjunction
      <4>. QED
        BY <1>1, <4>1, <4>2
    <3>. HIDE DEF a, c
    <3>. QED
      BY <2>3, <3>1
  <2>. QED
    BY <2>4, <2>5
<1>3. DOMAIN t \subseteq S
  <2>. HIDE DEF S
  <2>. QED
    BY <1>2, TreeInduction
<1>. QED
  BY <1>3 DEF text

\* What the wordings of a tree mean has the shape of the tree.
LEMMA RewordedFacts ==
  ASSUME NEW t, IsTree(t), DOMAIN t # {}, Plain(t, DOMAIN t), Worded(t)
  PROVE  LET m == Reworded(t) IN
           /\ IsTree(m) /\ DOMAIN m = DOMAIN t /\ Plain(m, DOMAIN m)
           /\ \A p \in DOMAIN t : \A r :
                Ready(r) => Parse(r, Wording[t[p].criterion]) = With(r, Leaf(m[p].criterion))
<1>. DEFINE m == Reworded(t)
<1>1. /\ DOMAIN m = DOMAIN t
      /\ \A p \in DOMAIN t :
           m[p] = [criterion |-> Meant(t[p].criterion), negated |-> t[p].negated]
  BY DEF Reworded
<1>2. \A p \in DOMAIN t : /\ t[p].criterion \in Criterions /\ t[p].negated \in BOOLEAN
                          /\ IsWorded(t[p].criterion)
  BY TreeFacts DEF Worded
<1>3. \A p \in DOMAIN t : Meant(t[p].criterion) \in Criterions
  BY <1>2, ParseWording
<1>4. IsTree(m)
  <2>1. m \in [DOMAIN t -> [criterion : Criterions, negated : BOOLEAN]]
    BY <1>2, <1>3 DEF Reworded
  <2>. HIDE DEF m
  <2>. QED
    BY <1>1, <2>1 DEF IsTree
<1>5. Plain(m, DOMAIN m)
  BY <1>1 DEF Plain
<1>6. ASSUME NEW p \in DOMAIN t, NEW r, Ready(r)
      PROVE  Parse(r, Wording[t[p].criterion]) = With(r, Leaf(m[p].criterion))
  <2>1. m[p].criterion = Meant(t[p].criterion)
    BY <1>1
  <2>2. Expects(r) /\ r.begun = "none"
    BY <1>6, ReadyFacts
  <2>. HIDE DEF m
  <2>. QED
    BY <1>2, <2>1, <2>2, ParseWording
<1>. QED
  BY <1>1, <1>4, <1>5, <1>6

\* A criteria without a negation is read from its text, and negated from its text
\* with a "!" before it.
LEMMA TextReadsBack ==
  ASSUME NEW t, IsTree(t), DOMAIN t # {}, Plain(t, DOMAIN t), Worded(t)
  PROVE  /\ NewFromString(TextOf(t)) = Reworded(t)
         /\ NewFromString(<<"!", "(">> \o TextOf(t) \o <<")">>) = Negative(Reworded(t))
<1>. DEFINE text == TextOf(t)
            m == Reworded(t)
            begin == <<"!", "(">>
            end == <<")">>
            open == Opened(<<>>)
            denied == Denies(None, "none", <<>>)
<1>1. <<>> \in DOMAIN t
  BY TreeFacts
<1>2. text \in Seq(Tokens)
  BY <1>1, TextsType DEF TextOf
<1>3. IsTree(m) /\ DOMAIN m = DOMAIN t
  BY RewordedFacts
<1>4. \A r : Ready(r) => Parse(r, text) = With(r, m)
  <2>1. Subtree(m, <<>>) = m
    BY <1>1, <1>3, SubtreeFacts
  <2>2. \A r : Ready(r) => Parse(r, Texts(t)[<<>>]) = With(r, Subtree(m, <<>>))
    BY <1>1, RewordedFacts, ParseSubtree
  <2>. HIDE DEF m
  <2>. QED
    BY <2>1, <2>2 DEF TextOf
<1>5. \A x : Parse(Opened(x), text) = Reads(m, "none", x)
  BY <1>4, ReadyFacts, WithFacts
<1>6. \A c, s : DOMAIN c # {} /\ Parse(open, s) = Reads(c, "none", <<>>) => NewFromString(s) = c
  <2>1. ASSUME NEW c, DOMAIN c # {}, NEW s, Parse(open, s) = Reads(c, "none", <<>>)
        PROVE  NewFromString(s) = c
    <3>. DEFINE r == Reads(c, "none", <<>>)
    <3>1. r.tree = c /\ r.operator = "none" /\ r.outer = <<>>
      BY DEF Reads, Reading
    <3>. HIDE DEF r
    <3>2. Complete(r) /\ DOMAIN r.outer = {}
      BY <2>1, <3>1 DEF Complete
    <3>. QED
      BY <2>1, <3>1, <3>2 DEF NewFromString, r
  <2>. QED
    BY <2>1
<1>7. /\ begin \in Seq(Tokens) /\ end \in Seq(Tokens)
      /\ \A r : Parse(r, begin) = Take(Take(r, "!"), "(") /\ Parse(r, end) = Take(r, ")")
  <2>1. "!" \in Tokens /\ "(" \in Tokens /\ ")" \in Tokens
    BY DEF Tokens, Punctuation
  <2>. QED
    BY <2>1, ParseTexts, ParseOne
<1>8. begin \o text \in Seq(Tokens)
  BY <1>2, <1>7, ParseTexts
<1>9. Parse(open, begin) = Opened(denied)
  <2>1. open = Reads(None, "none", <<>>)
    BY WithFacts
  <2>2. Take(open, "!") = denied
    BY <2>1, TakeFacts
  <2>3. Take(denied, "(") = Opened(denied)
    <3>1. Expects(denied) /\ denied.begun = "!"
      BY NoneFacts DEF Expects, Denies, Reading
    <3>. HIDE DEF denied
    <3>. QED
      BY <3>1, TakeFacts
  <2>. HIDE DEF open, denied
  <2>. QED
    BY <1>7, <2>2, <2>3
<1>10. Take(Reads(m, "none", denied), ")") = Reads(Negative(m), "none", <<>>)
  <2>1. DOMAIN m # {}
    BY <1>1, <1>3
  <2>. HIDE DEF m
  <2>. QED
    BY <2>1, WithFacts
<1>11. DOMAIN m # {} /\ DOMAIN Negative(m) # {}
  BY <1>1, <1>3 DEF Negative
<1>. HIDE DEF text, begin, end, open, denied, m
<1>12. Parse(open, begin \o text) = Reads(m, "none", denied)
  BY <1>2, <1>5, <1>7, <1>9, ParseTexts
<1>13. Parse(open, (begin \o text) \o end) = Reads(Negative(m), "none", <<>>)
  <2>. DEFINE s == begin \o text
  <2>. HIDE DEF s
  <2>1. s \in Seq(Tokens) /\ Parse(open, s) = Reads(m, "none", denied)
    BY <1>8, <1>12 DEF s
  <2>2. Parse(open, s \o end) = Parse(Parse(open, s), end)
    BY <1>7, <2>1, ParseTexts
  <2>. QED
    BY <1>7, <1>10, <2>1, <2>2 DEF s
<1>14. NewFromString(text) = m
  <2>1. Parse(open, text) = Reads(m, "none", <<>>)
    BY <1>5 DEF open
  <2>. QED
    BY <1>6, <1>11, <2>1
<1>15. NewFromString((begin \o text) \o end) = Negative(m)
  BY <1>6, <1>11, <1>13
<1>. QED
  BY <1>14, <1>15 DEF text, begin, end, m

\* What is composed and printed is read back, whatever the program holds, as the
\* criteria of what its wordings mean, if each is the wording of one criterion: the
\* parentheses of to_string() undo the grammar's lack of precedence.
THEOREM ReadsBackHolds == Spec => []ReadsBack
<1>1. TypeOK => ReadsBack
  <2>. SUFFICES ASSUME TypeOK, NEW h \in Handles, Holds(h), Plain(held[h], DOMAIN held[h]),
                       Worded(held[h])
                PROVE  LET c == Reworded(held[h])
                           text == TextOf(held[h])
                       IN  /\ NewFromString(text) = c
                           /\ NewFromString(<<"!", "(">> \o text \o <<")">>)
                                = [c EXCEPT ![<<>>].negated = TRUE]
    BY DEF ReadsBack
  <2>1. PICK t : t = held[h]
    OBVIOUS
  <2>2. IsTree(t) /\ DOMAIN t # {} /\ Plain(t, DOMAIN t) /\ Worded(t)
    BY <2>1 DEF TypeOK, Holds
  <2>3. /\ NewFromString(TextOf(t)) = Reworded(t)
        /\ NewFromString(<<"!", "(">> \o TextOf(t) \o <<")">>) = Negative(Reworded(t))
    BY <2>2, TextReadsBack
  <2>. QED
    BY <2>1, <2>3, Zenon DEF Negative
<1>. QED
  BY <1>1, TypeCorrect, PTL

==============================================================================
