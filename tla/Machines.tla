------------------------------ MODULE Machines ------------------------------
(***************************************************************************)
(* What the vm-manager promises, without its table, its libvirt host, its  *)
(* network or its requests: machines that have an owner, and addresses     *)
(* that are theirs alone from the moment they are there until they are     *)
(* removed, which takes that they are off; and names that are used once.   *)
(***************************************************************************)
CONSTANTS User, VmName, Mac, Ip,
    None            \* no machine: not yet, or no longer

VARIABLES
    machines,       \* machines[n]: the machine named n, or None
    had             \* had[u]: the names of all machines user u has had

vars == <<machines, had>>

Machine == [owner : User, mac : Mac, ip : Ip, running : BOOLEAN]

Init ==
    /\ machines = [n \in VmName |-> None]
    /\ had = [u \in User |-> {}]

\* A machine for u, with a name and addresses that nobody else has.
Create(u, n) ==
    /\ machines[n] = None
    /\ \A v \in User : n \notin had[v]
    /\ had' = [had EXCEPT ![u] = @ \cup {n}]
    /\ \E machine \in Machine :
          /\ machine.owner = u
          /\ \A m \in VmName : machines[m] # None =>
                machines[m].mac # machine.mac /\ machines[m].ip # machine.ip
          /\ machines' = [machines EXCEPT ![n] = machine]

\* It goes on or off, and stays what it is.
Switch(n) ==
    /\ machines[n] # None
    /\ machines' = [machines EXCEPT ![n].running = ~@]
    /\ UNCHANGED had

Remove(n) ==
    /\ machines[n] # None
    /\ ~machines[n].running
    /\ machines' = [machines EXCEPT ![n] = None]
    /\ UNCHANGED had

Next == \E n \in VmName : Switch(n) \/ Remove(n) \/ \E u \in User : Create(u, n)

Spec == Init /\ [][Next]_vars
=============================================================================
