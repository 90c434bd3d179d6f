----------------------------- MODULE MCManager -----------------------------
(* Instances of module Manager for TLC.                                    *)
EXTENDS ManagerInv, TLC

(* Where one of the instances shares its name and the other does not.      *)
HandlersAlike == Permutations(Handler) \cup Permutations(Cfg)

Symmetry == Permutations(Uuid) \cup Permutations(Handler) \cup Permutations(Cfg)

============================================================================
