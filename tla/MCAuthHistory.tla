--------------------------- MODULE MCAuthHistory ----------------------------
\* The auth service with its history on small sets, for TLC; every set is one
\* of values the service only compares, so they may be permuted.
EXTENDS AuthHistory, TLC

Symmetry ==
    Permutations(Client) \cup Permutations(UserId) \cup Permutations(Username)
        \cup Permutations(Email) \cup Permutations(Password)
=============================================================================
