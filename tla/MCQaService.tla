------------------------------ MODULE MCQaService ------------------------------
(***************************************************************************)
(* Small instances of QaService.                                           *)
(***************************************************************************)
EXTENDS QaService, TLC

Interchangeable ==
    Permutations(Lineages) \cup Permutations(Hashes)
    \cup Permutations(Generations) \cup Permutations(Reports)
================================================================================
