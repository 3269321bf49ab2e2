---------------------------- MODULE MCTemplates -----------------------------
(***************************************************************************)
(* Instances of Templates for TLC.                                         *)
(***************************************************************************)
EXTENDS Templates, TLC

Symmetry == Permutations(Id) \union Permutations(Name) \union
            Permutations(Valid) \union Permutations(Request)
=============================================================================
