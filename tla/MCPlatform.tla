----------------------------- MODULE MCPlatform -----------------------------
\* Both services on small sets, for TLC; ids, names and addresses are only
\* compared for equality, so their values may be permuted.
EXTENDS Platform, TLC

Symmetry ==
    Permutations(Client) \cup Permutations(User) \cup Permutations(Username)
        \cup Permutations(Email) \cup Permutations(VmName)
        \cup Permutations(Mac) \cup Permutations(Ip \ InvalidIp)
=============================================================================
