------------------------------ MODULE MCValues ------------------------------
(***************************************************************************)
(* Values with integer types of two, three and four bits, of which the     *)
(* middle one is an int; the numbers are at their limits and beyond.       *)
(***************************************************************************)
EXTENDS Values, TLC

MCHalf == [t \in Integral |->
             CASE t \in {"int8", "uint8", "int16", "uint16"} -> 2
               [] t \in {"int32", "uint32"} -> 4
               [] t \in {"int64", "uint64"} -> 8]

MCNumbers == {-2, 3, 15}

Symmetry == Permutations(Values)
=============================================================================
