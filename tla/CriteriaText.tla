----------------------------- MODULE CriteriaText -----------------------------
(***************************************************************************)
(* Criteria as text: iodefv2_criteria_to_string() of                       *)
(* src/src/iodefv2-criteria.c, and the scanner and grammar that read them  *)
(* (src/src/iodefv2-criteria-string.lex.l and .yac.y), which compose what  *)
(* they read with the same operations a program composes criteria with.    *)
(*                                                                         *)
(* A text is a sequence of tokens.  The name and the value of a criterion  *)
(* are printed as they are, without quotes, so that a value with a blank   *)
(* or an operator in it makes several tokens, and a word may be read as    *)
(* another criterion than the one it was printed for.                      *)
(*                                                                         *)
(* Abstracted: which characters make a word, what a word means, and a      *)
(* quotation mark that opens in one criterion and closes in another.  A    *)
(* list of values after one relation, which is never printed, is left out. *)
(***************************************************************************)
EXTENDS Criteria

CONSTANTS
  Fields,    \* a path and the relation that follows it
  Words,     \* a path alone, or a value: characters without a blank, ( ) & or |
  Wording,   \* the tokens the scanner finds in what a criterion is printed as
  Meaning    \* the criterion that the parser makes of a word, and of what it follows

\* "error" is what the scanner makes of anything else.
Punctuation == {"(", ")", "!", "&&", "||", "error"}
Tokens      == Punctuation \cup Fields \cup Words

\* What a criterion begins with: a field, the "!" of a path that is not set, or nothing.
Beginnings == {"none", "!"} \cup Fields

ASSUME WordingAssumption ==
  /\ Fields \cap Words = {} /\ (Fields \cup Words) \cap (Punctuation \cup {"none"}) = {}
  /\ Wording \in [Criterions -> Seq(Tokens)]
  /\ \A k \in Criterions : \A i \in 1 .. Len(Wording[k]) - 1 :
       Wording[k][i] \in Fields => Wording[k][i + 1] # "("
  /\ DOMAIN Meaning \subseteq Beginnings \X Words
  /\ \A x \in DOMAIN Meaning : Meaning[x] \in Criterions

-----------------------------------------------------------------------------
\* iodefv2_criteria_to_string(), given the texts of the other nodes.  The negation of a
\* node is not printed.
Both(t, text, p) ==
  Wording[t[p].criterion]
  \o IF Has(t, p, "and") THEN <<"&&">> \o text[Append(p, "and")] ELSE <<>>
Grouped_Bare(both, or) == <<"(">> \o both \o <<"||">> \o or \o <<")">>
Grouped(both, or) == <<"(", "(">> \o both \o <<")", "||", "(">> \o or \o <<")", ")">>
Printed(t, text, p) ==
  IF Has(t, p, "or") THEN Grouped(Both(t, text, p), text[Append(p, "or")]) ELSE Both(t, text, p)

Texts(t)  == LET text[p \in DOMAIN t] == Printed(t, text, p) IN text
TextOf(t) == Texts(t)[<<>>]

-----------------------------------------------------------------------------
\* What the parser has read of a criteria: a tree, without nodes at the beginning, the
\* operator after it, what the next criterion begins with, and what had been read
\* before the parenthesis the criteria is in.
Reading(tree, operator, begun, outer) ==
  [tree |-> tree, operator |-> operator, begun |-> begun, outer |-> outer]
Opened(outer) == Reading(None, "none", "none", outer)

\* A syntax error, or a path or value that is none.
Refused == Reading(None, "refused", "none", <<>>)

\* Where a criteria_base comes next, and where one has ended.
Expects(r)  == DOMAIN r.tree = {} <=> r.operator = "none"
Complete(r) == DOMAIN r.tree # {} /\ r.operator = "none"

\* criteria: criteria_base | criteria operator criteria_base.  The two operators bind
\* alike, and to the left.
Composed(operator, c, c2) ==
  IF operator = "||" THEN OrCriteria(c, c2) ELSE AndCriteria(c, c2)
With(r, base) ==
  Reading(IF DOMAIN r.tree = {} THEN base ELSE Composed(r.operator, r.tree, base),
          "none", "none", r.outer)

\* criteria_base: criterion | '(' criteria ')' | TOK_NOT '(' criteria ')'
\* criterion: path relation value | path | TOK_NOT path
Closed(r) ==
  With(r.outer, IF r.outer.begun = "!" THEN [r.tree EXCEPT ![<<>>].negated = TRUE] ELSE r.tree)
Fits(r, token) ==
  CASE token = "("                    -> Expects(r) /\ r.begun \in {"none", "!"}
    [] token = ")"                    -> Complete(r) /\ DOMAIN r.outer # {}
    [] token \in {"&&", "||"}         -> Complete(r)
    [] token \in {"!"} \cup Fields    -> Expects(r) /\ r.begun = "none"
    [] token \in Words                -> Expects(r) /\ <<r.begun, token>> \in DOMAIN Meaning
    [] OTHER                          -> FALSE
Shifted(r, token) ==
  CASE token = "("                    -> Opened(r)
    [] token = ")"                    -> Closed(r)
    [] token \in {"&&", "||"}         -> Reading(r.tree, token, "none", r.outer)
    [] token \in {"!"} \cup Fields    -> Reading(r.tree, r.operator, token, r.outer)
    [] OTHER                          -> With(r, Leaf(Meaning[<<r.begun, token>>]))
Take(r, token) == IF Fits(r, token) THEN Shifted(r, token) ELSE Refused

\* iodefv2_criteria_new_from_string(): no criteria of a text that is refused or ends early.
Parse(r, tokens) ==
  LET after[n \in 0 .. Len(tokens)] == IF n = 0 THEN r ELSE Take(after[n - 1], tokens[n])
  IN  after[Len(tokens)]
NewFromString(tokens) ==
  LET r == Parse(Opened(<<>>), tokens)
  IN  IF Complete(r) /\ DOMAIN r.outer = {} THEN r.tree ELSE None

-----------------------------------------------------------------------------
\* The criterions whose wording is that of one criterion, and which one that is.
Said(x) == IF x[1] = "none" THEN <<x[2]>> ELSE x
IsWorded(k) == \E x \in DOMAIN Meaning : Wording[k] = Said(x)
Meant(k)    == Meaning[CHOOSE x \in DOMAIN Meaning : Wording[k] = Said(x)]
Worded(t)   == \A p \in DOMAIN t : IsWorded(t[p].criterion)
Reworded(t) == [p \in DOMAIN t |-> [criterion |-> Meant(t[p].criterion), negated |-> t[p].negated]]

\* A criteria without a negation that is printed and read again is the same
\* criteria of what its wordings mean, whatever has been composed to make it: the
\* parentheses that are printed make up for a grammar in which neither operator binds
\* stronger than the other.  Negated in the text, it is the negated criteria.  This
\* takes criterions whose wording is one criterion, and no phrase.
ReadsBack ==
  \A h \in Handles : Holds(h) /\ Plain(held[h], DOMAIN held[h]) /\ Worded(held[h]) =>
    LET c    == Reworded(held[h])
        text == TextOf(held[h])
    IN  /\ NewFromString(text) = c
        /\ NewFromString(<<"!", "(">> \o text \o <<")">>) = [c EXCEPT ![<<>>].negated = TRUE]

\* What is printed would be read as what it was printed from: not so of a value that
\* is a phrase, or that is printed otherwise than it is written.
ReadsItself ==
  \A h \in Handles : Holds(h) /\ Plain(held[h], DOMAIN held[h]) =>
    NewFromString(TextOf(held[h])) = held[h]
===============================================================================
