--------------------------- MODULE CriteriaAlgebra ---------------------------
(***************************************************************************)
(* What composing criteria promises (src/iodefv2-criteria.c): a criteria   *)
(* stands for the set of documents it matches, a document being known by   *)
(* the criterions it satisfies; or, and and negation are union,            *)
(* intersection and complement of these sets.                              *)
(*                                                                         *)
(* The promise ends where the left operand carries a negation on its way:  *)
(* an operand of or must not have one on the chain of its alternatives, an *)
(* operand of and must not have one anywhere.                              *)
(***************************************************************************)
CONSTANTS Criterions, Handles

VARIABLES
  used,      \* handles that hold a criteria
  value,     \* documents each one matches
  negated,   \* the criteria itself is negated
  clean,     \* no negation inside it
  chain      \* no negation on the chain of its alternatives

vars == <<used, value, negated, clean, chain>>

Documents == [Criterions -> {0, 1}]
Nothing   == {}

Init ==
  /\ used = {}
  /\ value = [h \in Handles |-> Nothing]
  /\ negated = [h \in Handles |-> FALSE]
  /\ clean = [h \in Handles |-> TRUE] /\ chain = [h \in Handles |-> TRUE]

Set(h, v, neg, cl, ch) ==
  /\ used' = used \cup {h} /\ negated' = [negated EXCEPT ![h] = neg]
  /\ clean' = [clean EXCEPT ![h] = cl] /\ chain' = [chain EXCEPT ![h] = ch]
  /\ value' = [value EXCEPT ![h] = v]

New(h) ==
  /\ h \notin used
  /\ \E k \in Criterions : Set(h, {d \in Documents : d[k] = 1}, FALSE, TRUE, TRUE)

Copy(h, g) ==
  /\ h \in used /\ g \notin used
  /\ Set(g, value[h], negated[h], clean[h], chain[h])

SetNegation(h, b) ==
  /\ h \in used
  /\ Set(h, IF negated[h] = b THEN value[h] ELSE Documents \ value[h], b, clean[h], chain[h])

Forget(f, g, empty) == [f EXCEPT ![g] = empty]

\* Operand g becomes part of h: the criteria it was is known under h only.
Compose(h, g, allowed, cl, ch) ==
  /\ h \in used /\ g \in used \ {h}
  /\ used' = used \ {g}
  /\ negated' = Forget(negated, g, FALSE)
  /\ clean' = [Forget(clean, g, TRUE) EXCEPT ![h] = cl]
  /\ chain' = [Forget(chain, g, TRUE) EXCEPT ![h] = ch]
  /\ \A x \in Handles \ {h} : value'[x] = Forget(value, g, Nothing)[x]
  /\ value'[h] \in allowed

AllClean(h) == ~negated[h] /\ clean[h]
Chain(h)    == ~negated[h] /\ chain[h]

Or(h, g) ==
  Compose(h, g, IF Chain(h) THEN {value[h] \cup value[g]} ELSE SUBSET Documents,
          clean[h] /\ AllClean(g), chain[h] /\ Chain(g))
And(h, g) ==
  Compose(h, g, IF AllClean(h) THEN {value[h] \cap value[g]} ELSE SUBSET Documents,
          clean[h] /\ AllClean(g), chain[h])

\* And that runs out of memory half way has lost some documents of h, and none
\* that g matches too; both operands remain.
AndFails(h, g) ==
  /\ h \in used /\ g \in used \ {h}
  /\ UNCHANGED <<used, negated, chain>>
  /\ \A x \in Handles \ {h} : value'[x] = value[x] /\ clean'[x] = clean[x]
  /\ clean'[h] => clean[h]
  /\ AllClean(h) => value'[h] \subseteq value[h] /\ value[h] \cap value[g] \subseteq value'[h]

Destroy(h) ==
  /\ h \in used /\ used' = used \ {h}
  /\ negated' = Forget(negated, h, FALSE)
  /\ clean' = Forget(clean, h, TRUE) /\ chain' = Forget(chain, h, TRUE)
  /\ value' = Forget(value, h, Nothing)

Next ==
  \/ \E h, g \in Handles : Copy(h, g) \/ Or(h, g) \/ And(h, g) \/ AndFails(h, g)
  \/ \E h \in Handles : New(h) \/ (\E b \in BOOLEAN : SetNegation(h, b)) \/ Destroy(h)
Spec == Init /\ [][Next]_vars
==============================================================================
