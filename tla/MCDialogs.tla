------------------------------ MODULE MCDialogs ------------------------------
EXTENDS DialogProperties, TLC

\* Every property is symmetric in these.
Symmetry ==
    Permutations(Admins) \cup Permutations(Tasks) \cup Permutations(Policies)
        \cup Permutations(Chats)
=============================================================================
