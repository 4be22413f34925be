------------------------------ MODULE PathValues -----------------------------
(***************************************************************************)
(* What the path functions promise a program, without references, cache    *)
(* or locks: every handle has a value of its own, the name of the path it  *)
(* stands for.  Asking for a path gives the handle the name asked for, and *)
(* changing a path through one handle changes no other handle.             *)
(***************************************************************************)
CONSTANTS Handles, Names, NoName

VARIABLES value, asked

vars == <<value, asked>>

Init ==
  /\ value = [h \in Handles |-> NoName]
  /\ asked = [h \in Handles |-> NoName]

Ask(h, n) ==
  /\ value[h] = NoName /\ asked[h] = NoName
  /\ asked' = [asked EXCEPT ![h] = n]
  /\ UNCHANGED value

Answer(h) ==
  /\ asked[h] # NoName
  /\ value' = [value EXCEPT ![h] = asked[h]]
  /\ asked' = [asked EXCEPT ![h] = NoName]

Refuse(h) ==
  /\ asked[h] # NoName
  /\ asked' = [asked EXCEPT ![h] = NoName]
  /\ UNCHANGED value

Copy(h, g) ==
  /\ value[h] # NoName /\ value[g] = NoName /\ asked[g] = NoName
  /\ value' = [value EXCEPT ![g] = value[h]]
  /\ UNCHANGED asked

Change(h, n) ==
  /\ value[h] # NoName
  /\ value' = [value EXCEPT ![h] = n]
  /\ UNCHANGED asked

Drop(h) ==
  /\ value[h] # NoName
  /\ value' = [value EXCEPT ![h] = NoName]
  /\ UNCHANGED asked

Next ==
  \E h \in Handles :
    \/ \E n \in Names : Ask(h, n) \/ Change(h, n)
    \/ Answer(h) \/ Refuse(h) \/ Drop(h)
    \/ \E g \in Handles : Copy(h, g)

Spec == Init /\ [][Next]_vars
=============================================================================
