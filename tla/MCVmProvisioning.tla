-------------------------- MODULE MCVmProvisioning --------------------------
\* The vm-manager on small sets, for TLC.  Names and addresses are only
\* compared for equality, so their values may be permuted, and so may users.
EXTENDS VmProvisioning, TLC

Symmetry ==
    Permutations(Client) \cup Permutations(User) \cup Permutations(VmName)
       \cup Permutations(Mac) \cup Permutations(Ip \ InvalidIp)
=============================================================================
