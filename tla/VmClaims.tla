------------------------------ MODULE VmClaims ------------------------------
(***************************************************************************)
(* What comments, messages, tests and the API description of the           *)
(* vm-manager say of it, where the code does something else.               *)
(***************************************************************************)
EXTENDS VmProvisioning, TLC

Symmetry ==
    Permutations(Client) \cup Permutations(User) \cup Permutations(VmName)
       \cup Permutations(Mac) \cup Permutations(Ip \ InvalidIp)

\* "VM cloned successfully": the new machine is recorded.
CloneIsRecorded ==
    \A c \in Client :
        pc[c] = "reply" /\ call[c].op = "clone" /\ status[c] = 201
        => call[c].name \in Rows
=============================================================================
