-------------------------- MODULE MCModelRegistry --------------------------
(* Small instances of ModelRegistry for TLC.                               *)
EXTENDS ModelRegistry, TLC

(* Backends are interchangeable, and so are names.                         *)
RegistrySymmetry == Permutations(Backends) \cup Permutations(Names)
=============================================================================
