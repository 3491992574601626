------------------------------ MODULE MCRepository -----------------------------
(***************************************************************************)
(* Repository for TLC: who shares the repository is chosen in the .cfg.    *)
(***************************************************************************)
EXTENDS RepositoryImplements, TLC

\* Tasks of a kind are interchangeable, and so are well-formed collections.
TaskSymmetry ==
    Permutations(Schedulers) \cup Permutations(OneShots) \cup Permutations(Handlers)
        \cup Permutations(Contents \ Malformed)
=============================================================================
