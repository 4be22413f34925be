------------------------------ MODULE MCCriteria ------------------------------
EXTENDS CriteriaText, TLC

CONSTANTS k1, k2, k3, k4, h1, h2

\* Nothing tells two handles apart.
Symmetry == Permutations(Handles)

\* A value; a path that is not set; a value in quotes of its own, which is read as the
\* value in them; and the value `a || !url`.
MCFields  == {"url ="}
MCWords   == {"a", "'a'", "url"}
MCWording ==
  [k \in Criterions |-> CASE k = k1 -> <<"url =", "a">>
                          [] k = k2 -> <<"!", "url">>
                          [] k = k3 -> <<"url =", "'a'">>
                          [] k = k4 -> <<"url =", "a", "||", "!", "url">>]
MCMeaning ==
  (<<"url =", "a">> :> k1) @@ (<<"url =", "'a'">> :> k1) @@ (<<"!", "url">> :> k2)
===============================================================================
