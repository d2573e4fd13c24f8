--------------------------- MODULE MCAuthSessions ---------------------------
\* The auth service on small sets, for TLC.  Clients, users, names, addresses
\* and passwords are only compared for equality, so their values may be permuted.
EXTENDS AuthSessions, TLC

Symmetry ==
    Permutations(Client) \cup Permutations(UserId) \cup Permutations(Username)
        \cup Permutations(Email) \cup Permutations(Password)
=============================================================================
