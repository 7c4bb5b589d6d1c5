--------------------------- MODULE MCHumanIdentity ---------------------------
(* HumanIdentity for TLC.                                                  *)
EXTENDS HumanIdentity, TLC

HumanSymmetry ==
    Permutations(Users) \cup Permutations(Subjects) \cup Permutations(Sessions)
        \cup Permutations(Bindings) \cup Permutations(Logins) \cup Permutations(Workers)
=============================================================================
