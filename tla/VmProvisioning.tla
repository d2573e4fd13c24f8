--------------------------- MODULE VmProvisioning ---------------------------
(***************************************************************************)
(* The vm-manager service: the vm_instances table, and the libvirt host it *)
(* drives through shell commands: the domains that are defined, and the    *)
(* static leases of the DHCP network.  Three stores, no transaction: what  *)
(* a request has changed in one stays changed when its next step fails.    *)
(*                                                                         *)
(* A handler is a program counter with locals; a step is the code between  *)
(* two awaits with the effect of the awaited query or command.             *)
(***************************************************************************)
EXTENDS Naturals, FiniteSets

CONSTANTS
    User,
    Client,         \* a user may have several at work, all with its one session
    VmName, Mac,
    Ip,             \* what generateIp draws from, except the host's own address
    InvalidIp,      \* the draws of Ip that are no address (the octet 256)
    Op,             \* the requests sent: some of create, clone, start, shutdown, force, destroy
    Outcome,        \* how a command may end: see Exec
    Faults,         \* TRUE: queries reject and the service crashes
    None

VARIABLES
    rows,           \* rows[n]: the vm_instances row named n, or None
    domains,        \* domains[n]: the libvirt domain named n, or None
    reserved,       \* the host entries of the DHCP network
    had,            \* had[u]: the names of the machines ever recorded as user u's
    blocked,        \* the handlers that a loop without an end keeps from going on
    seen,           \* seen[c]: the addresses of the rows its loop has read, and draws against
    pc, call, who,  \* per client: next step of the request it waits for, its body, its user
    plan,           \* plan[c]: the name and the addresses of the row to save
    status          \* status[c]: the HTTP status of the answer

locals == <<pc, call, who, plan, seen, status>>
vars == <<rows, domains, reserved, had, blocked, locals>>

Instance == [mac : Mac, ip : Ip, owner : User]

\* ip is the one the kickstart file configures in the guest.
Machine == [mac : Mac, ip : Ip, running : BOOLEAN]

\* What row and domain say together.
Recording == [owner : User, mac : Mac, ip : Ip, running : BOOLEAN]

Lease == [name : VmName, mac : Mac, ip : Ip]

Plan == [name : VmName \cup {None}, mac : Mac \cup {None}, ip : Ip \cup {None}]

NoPlan == [name |-> None, mac |-> None, ip |-> None]

\* A request about a machine; a create request has no machine yet.  The
\* documented body of clone has no vmName, the field the guard looks for; one
\* that a client adds is bound to nothing else in the body.
MachineOp == {"start", "shutdown", "force", "destroy"}

Body ==
    [op : {"create"}]
    \cup [op : MachineOp, vmName : VmName]
    \cup [op : {"clone"}, original : VmName, name : VmName, vmName : VmName \cup {None}]

Rows == {n \in VmName : rows[n] # None}

Domains == {n \in VmName : domains[n] # None}

Running(n) == n \in Domains /\ domains[n].running

Off(n) == n \in Domains /\ ~domains[n].running

Init ==
    /\ rows = [n \in VmName |-> None]
    /\ domains = [n \in VmName |-> None]
    /\ reserved = {}
    /\ had = [u \in User |-> {}]
    /\ blocked = {}
    /\ pc = [c \in Client |-> "idle"]
    /\ call = [c \in Client |-> None]
    /\ who = [c \in Client |-> None]
    /\ plan = [c \in Client |-> NoPlan]
    /\ seen = [c \in Client |-> {}]
    /\ status = [c \in Client |-> None]

(***************************************************************************)
(* Control of a handler                                                    *)
(***************************************************************************)
\* Nothing keeps the event loop from running the next callback.
LoopFree == blocked = {}

\* The handler of c is at label: the query or command of the step is sent, or
\* the event loop is there to send it.
At(c, label) == pc[c] = label /\ c \notin blocked

\* Once a loop holds the event loop, what has been sent still takes effect, but
\* its handler does not go on.
Hold(c) == blocked' = IF LoopFree THEN {} ELSE blocked \cup {c}

\* The loop of c has begun: of the other handlers' next steps some are sent.
Spin(c) ==
    \E stuck \in SUBSET {d \in Client : pc[d] # "idle"} : c \in stuck /\ blocked' = stuck

Goto(c, label) ==
    /\ pc' = [pc EXCEPT ![c] = label]
    /\ Hold(c)
    /\ UNCHANGED status

Reply(c, code) ==
    /\ pc' = [pc EXCEPT ![c] = "reply"]
    /\ status' = [status EXCEPT ![c] = code]
    /\ Hold(c)

\* ExecService.run: only stderr tells its caller how the command ended.  A
\* command takes effect in silence ("ok"), fails with a message ("error"),
\* takes effect and prints a warning ("warned"), or fails without a message,
\* killed or never started ("silent").
Exec(outcome, possible) ==
    /\ outcome \in Outcome
    /\ outcome \in {"ok", "warned"} => possible

Took(outcome) == outcome \in {"ok", "warned"}

\* Broken form: nobody looks at stderr.
ContinueAlways(c, outcome, label) == Goto(c, label)

\* A non-empty stderr is thrown as a 500; else the handler goes on, or answers.
Continue(c, outcome, label) ==
    IF outcome \in {"error", "warned"} THEN Reply(c, 500) ELSE Goto(c, label)

Answer(c, outcome, code) ==
    Reply(c, IF outcome \in {"error", "warned"} THEN 500 ELSE code)

(***************************************************************************)
(* Guards.  JwtAuthGuard asks the auth service for the session's user: an  *)
(* absent token is a 401, a refused one an error of the HTTP client, 500.  *)
(* PermissionsGuard then looks the machine up in the token, not in the     *)
(* table: in the list login made, perhaps of machines that are gone, and   *)
(* without those that came since.  create is not under it.  The validation *)
(* pipe comes last.                                                        *)
(***************************************************************************)
\* Broken form: it is enough that the machine is recorded.
PermittedIfRecorded(u, body) == body.op # "create" => body.vmName \in Rows

\* The requests whose body or query the validation pipe looks into.
PipeOp == {"create", "clone", "shutdown", "force"}

\* A token of u can list the machine.
Permitted(u, body) == body.op # "create" => body.vmName \in had[u]

Receive(c) ==
    /\ LoopFree
    /\ pc[c] = "idle"
    /\ \E u \in User, body \in {b \in Body : b.op \in Op} :
          /\ call' = [call EXCEPT ![c] = body]
          /\ who' = [who EXCEPT ![c] = u]
          /\ \/ Permitted(u, body) /\ Goto(c, IF body.op = "create" THEN "findOs" ELSE body.op)
             \/ Permitted(u, body) /\ body.op \in PipeOp /\ Reply(c, 400)
             \/ body.op # "create" /\ Reply(c, 403)
             \/ \E code \in {401, 500} : Reply(c, code)
    /\ UNCHANGED <<rows, domains, reserved, had, plan, seen>>

(***************************************************************************)
(* POST virtual-machines                                                   *)
(***************************************************************************)
FindOs(c) ==
    /\ At(c, "findOs")
    /\ Goto(c, "findMacs") \/ Reply(c, 404)
    /\ UNCHANGED <<rows, domains, reserved, had, call, who, plan, seen>>

\* The SELECT of the loop's addresses, and then the loop: a random draw is
\* repeated, without an await, until it is none of them.  When there is no other
\* the loop never ends, whatever becomes of the rows; nothing else in the
\* process runs again.
FindMacs(c) ==
    /\ At(c, "findMacs")
    /\ seen' = [seen EXCEPT ![c] = {rows[n].mac : n \in Rows}]
    /\ Goto(c, "createMac")
    /\ UNCHANGED <<rows, domains, reserved, had, call, who, plan>>

\* Broken form: what other requests have drawn is taken, too.
UndrawnMac(c) == Mac \ (seen[c] \cup {plan[d].mac : d \in Client})

FreeMac(c) == Mac \ seen[c]

FreeIp(c) == Ip \ seen[c]

CreateMac(c) ==
    /\ LoopFree
    /\ pc[c] = "createMac"
    /\ IF FreeMac(c) = {}
       THEN Spin(c) /\ UNCHANGED <<pc, status, plan, seen>>
       ELSE /\ \E mac \in FreeMac(c) : plan' = [plan EXCEPT ![c].mac = mac]
            /\ seen' = [seen EXCEPT ![c] = {}]
            /\ Goto(c, "findIps")
    /\ UNCHANGED <<rows, domains, reserved, had, call, who>>

FindIps(c) ==
    /\ At(c, "findIps")
    /\ seen' = [seen EXCEPT ![c] = {rows[n].ip : n \in Rows}]
    /\ Goto(c, "createIp")
    /\ UNCHANGED <<rows, domains, reserved, had, call, who, plan>>

CreateIp(c) ==
    /\ LoopFree
    /\ pc[c] = "createIp"
    /\ IF FreeIp(c) = {}
       THEN Spin(c) /\ UNCHANGED <<pc, status, plan, seen>>
       ELSE /\ \E ip \in FreeIp(c) : plan' = [plan EXCEPT ![c].ip = ip]
            /\ seen' = [seen EXCEPT ![c] = {}]
            /\ Goto(c, "prepare")
    /\ UNCHANGED <<rows, domains, reserved, had, call, who>>

\* A name that ends in a new uuid.
Unused(n) ==
    /\ n \notin Rows \cup Domains
    /\ \A lease \in reserved : lease.name # n
    /\ \A u \in User : n \notin had[u]
    /\ \A c \in Client : plan[c].name # n
    /\ \A c \in Client : pc[c] = "clone" => n \notin {call[c].original, call[c].name}

\* Broken form: an unknown time zone does not end the request.
PrepareAnyway(c) ==
    /\ LoopFree
    /\ pc[c] = "prepare"
    /\ \E n \in VmName \cup {None} :
          (n = None \/ Unused(n)) /\ plan' = [plan EXCEPT ![c].name = n]
    /\ Goto(c, "reserve")
    /\ UNCHANGED <<rows, domains, reserved, had, call, who, seen>>

\* The time zone is resolved (404 unknown, 409 ambiguous, 500) and the
\* kickstart file written, with the address; the name is made up.
Prepare(c) ==
    /\ LoopFree
    /\ pc[c] = "prepare"
    /\ \/ /\ \E n \in VmName : Unused(n) /\ plan' = [plan EXCEPT ![c].name = n]
          /\ Goto(c, "reserve")
       \/ /\ \E code \in {404, 409, 500} : Reply(c, code)
          /\ UNCHANGED plan
    /\ UNCHANGED <<rows, domains, reserved, had, call, who, seen>>

\* libvirt refuses a host entry that repeats a name, a MAC or an IP address.
Reservable(p) ==
    /\ p.ip \notin InvalidIp
    /\ \A lease \in reserved :
          lease.name # p.name /\ lease.mac # p.mac /\ lease.ip # p.ip

Reserve(c) ==
    /\ At(c, "reserve")
    /\ \E outcome \in Outcome :
          /\ Exec(outcome, Reservable(plan[c]))
          /\ reserved' = IF Took(outcome) THEN reserved \cup {plan[c]} ELSE reserved
          /\ Continue(c, outcome, "install")
    /\ UNCHANGED <<rows, domains, had, call, who, plan, seen>>

\* virt-install refuses a name or a MAC address another domain has.
Installable(p) ==
    /\ p.name \notin Domains
    /\ \A n \in Domains : domains[n].mac # p.mac

Install(c) ==
    /\ At(c, "install")
    /\ \E outcome \in Outcome :
          /\ Exec(outcome, Installable(plan[c]))
          /\ domains' = IF Took(outcome)
                        THEN [domains EXCEPT ![plan[c].name] =
                                [mac |-> plan[c].mac, ip |-> plan[c].ip, running |-> TRUE]]
                        ELSE domains
          /\ Continue(c, outcome, "insert")
    /\ UNCHANGED <<rows, reserved, had, call, who, plan, seen>>

\* VmInstanceService.create, for create and for clone: three unique columns.
Duplicates(p) ==
    \/ p.name \in Rows
    \/ \E n \in Rows : rows[n].mac = p.mac \/ rows[n].ip = p.ip

Insert(c) ==
    /\ At(c, "insert")
    /\ IF Duplicates(plan[c])
       THEN Reply(c, 500) /\ UNCHANGED <<rows, had>>
       ELSE /\ rows' = [rows EXCEPT ![plan[c].name] =
                           [mac |-> plan[c].mac, ip |-> plan[c].ip, owner |-> who[c]]]
            /\ had' = [had EXCEPT ![who[c]] = @ \cup {plan[c].name}]
            /\ Reply(c, 201)
    /\ UNCHANGED <<domains, reserved, call, who, plan, seen>>

(***************************************************************************)
(* POST virtual-machines/clone                                             *)
(***************************************************************************)
\* virt-clone copies the disk of a domain that is shut off, and gives the copy
\* a MAC address of its own; the guest inside keeps its configuration.
Clone(c) ==
    /\ At(c, "clone")
    /\ LET original == call[c].original
           copy     == call[c].name
           free     == Mac \ {domains[n].mac : n \in Domains}
       IN  \E outcome \in Outcome :
              /\ Exec(outcome, Off(original) /\ copy \notin Domains /\ free # {})
              /\ IF Took(outcome)
                 THEN \E mac \in free :
                         domains' = [domains EXCEPT ![copy] =
                            [mac |-> mac, ip |-> domains[original].ip, running |-> FALSE]]
                 ELSE UNCHANGED domains
              /\ Continue(c, outcome, "findOriginal")
    /\ UNCHANGED <<rows, reserved, had, call, who, plan, seen>>

\* Broken form: the row to save has the new name and the original's addresses.
FindAddresses(c) ==
    /\ At(c, "findOriginal")
    /\ LET original == call[c].original
       IN  /\ original \in Rows
           /\ plan' = [plan EXCEPT ![c] = [name |-> call[c].name,
                                          mac |-> rows[original].mac, ip |-> rows[original].ip]]
           /\ Goto(c, "insert")
    /\ UNCHANGED <<rows, domains, reserved, had, call, who, seen>>

\* The row to save is the original's without its id: name and addresses too.
FindOriginal(c) ==
    /\ At(c, "findOriginal")
    /\ LET original == call[c].original
       IN  IF original \notin Rows
           THEN Reply(c, 404) /\ UNCHANGED plan
           ELSE /\ plan' = [plan EXCEPT ![c] =
                               [name |-> original, mac |-> rows[original].mac, ip |-> rows[original].ip]]
                /\ Goto(c, "insert")
    /\ UNCHANGED <<rows, domains, reserved, had, call, who, seen>>

(***************************************************************************)
(* start, shutdown, forced shutdown, DELETE                                *)
(***************************************************************************)
Start(c) ==
    /\ At(c, "start")
    /\ LET n == call[c].vmName
       IN  \E outcome \in Outcome :
              /\ Exec(outcome, Off(n))
              /\ domains' = IF Took(outcome)
                            THEN [domains EXCEPT ![n].running = TRUE] ELSE domains
              /\ Answer(c, outcome, 200)
    /\ UNCHANGED <<rows, reserved, had, call, who, plan, seen>>

\* The guest is asked to power off: it does later (GuestStops), or it does not.
ShutDown(c) ==
    /\ At(c, "shutdown")
    /\ \E outcome \in Outcome :
          Exec(outcome, Running(call[c].vmName)) /\ Answer(c, outcome, 200)
    /\ UNCHANGED <<rows, domains, reserved, had, call, who, plan, seen>>

ForceOff(c) ==
    /\ At(c, "force")
    /\ LET n == call[c].vmName
       IN  \E outcome \in Outcome :
              /\ Exec(outcome, Running(n))
              /\ domains' = IF Took(outcome)
                            THEN [domains EXCEPT ![n].running = FALSE] ELSE domains
              /\ Answer(c, outcome, 200)
    /\ UNCHANGED <<rows, reserved, had, call, who, plan, seen>>

\* Broken form: whatever virsh undefine says, the row is deleted.
UndefineUnchecked(c) ==
    /\ At(c, "destroy")
    /\ LET n == call[c].vmName
       IN  domains' = IF Off(n) THEN [domains EXCEPT ![n] = None] ELSE domains
    /\ Goto(c, "deleteRow")
    /\ UNCHANGED <<rows, reserved, had, call, who, plan, seen>>

\* Storage is removed only of a domain that is off.  The lease stays.
Undefine(c) ==
    /\ At(c, "destroy")
    /\ LET n == call[c].vmName
       IN  \E outcome \in Outcome :
              /\ Exec(outcome, Off(n))
              /\ domains' = IF Took(outcome) THEN [domains EXCEPT ![n] = None] ELSE domains
              /\ Continue(c, outcome, "deleteRow")
    /\ UNCHANGED <<rows, reserved, had, call, who, plan, seen>>

DeleteRow(c) ==
    /\ At(c, "deleteRow")
    /\ rows' = [rows EXCEPT ![call[c].vmName] = None]
    /\ Reply(c, 200)
    /\ UNCHANGED <<domains, reserved, had, call, who, plan, seen>>

(***************************************************************************)
(* Answers, faults, the environment                                        *)
(***************************************************************************)
Forget(C) ==
    /\ pc' = [c \in Client |-> IF c \in C THEN "idle" ELSE pc[c]]
    /\ call' = [c \in Client |-> IF c \in C THEN None ELSE call[c]]
    /\ who' = [c \in Client |-> IF c \in C THEN None ELSE who[c]]
    /\ plan' = [c \in Client |-> IF c \in C THEN NoPlan ELSE plan[c]]
    /\ seen' = [c \in Client |-> IF c \in C THEN {} ELSE seen[c]]
    /\ status' = [c \in Client |-> IF c \in C THEN None ELSE status[c]]

ReceiveReply(c) ==
    /\ At(c, "reply")
    /\ Forget({c})
    /\ UNCHANGED <<rows, domains, reserved, had, blocked>>

\* A query rejects, or, when the row is saved, the session user is gone.
Reject(c) ==
    /\ Faults
    /\ c \notin blocked
    /\ pc[c] \in {"findOs", "findMacs", "findIps", "insert", "findOriginal", "deleteRow"}
    /\ \/ Reply(c, 500)
       \/ pc[c] = "insert" /\ Reply(c, 404)
    /\ UNCHANGED <<rows, domains, reserved, had, call, who, plan, seen>>

\* The process stops and starts again, whatever held its event loop.
Crash ==
    /\ Faults
    /\ \E c \in Client : pc[c] # "idle"
    /\ Forget(Client)
    /\ blocked' = {}
    /\ UNCHANGED <<rows, domains, reserved, had>>

\* A guest powers off by itself, at the end of its installation or when asked.
GuestStops(n) ==
    /\ Running(n)
    /\ domains' = [domains EXCEPT ![n].running = FALSE]
    /\ UNCHANGED <<rows, reserved, had, blocked, locals>>

Handle(c) ==
    \/ FindOs(c) \/ FindMacs(c) \/ CreateMac(c) \/ FindIps(c) \/ CreateIp(c) \/ Prepare(c)
    \/ Reserve(c) \/ Install(c) \/ Insert(c)
    \/ Clone(c) \/ FindOriginal(c)
    \/ Start(c) \/ ShutDown(c) \/ ForceOff(c) \/ Undefine(c) \/ DeleteRow(c)
    \/ ReceiveReply(c)

Next ==
    \/ \E c \in Client : Receive(c) \/ Handle(c) \/ Reject(c)
    \/ Crash
    \/ \E n \in VmName : GuestStops(n)

Spec == Init /\ [][Next]_vars

\* A handler that is waiting gets its turn, unless a loop holds the event loop.
FairSpec == Spec /\ \A c \in Client : WF_vars(Handle(c))
-----------------------------------------------------------------------------
(***************************************************************************)
(* Properties                                                              *)
(***************************************************************************)
Assumption ==
    /\ InvalidIp \subseteq Ip /\ InvalidIp # {}
    /\ Op \subseteq MachineOp \cup {"create", "clone"}
    /\ Outcome \subseteq {"ok", "error", "warned", "silent"}
    /\ Faults \in BOOLEAN
    /\ None \notin User \cup VmName \cup Mac \cup Ip \cup Instance \cup Machine
          \cup Recording \cup Body

ASSUME ProvisioningAssumption == Assumption

CreateStep ==
    {"findOs", "findMacs", "createMac", "findIps", "createIp", "prepare", "reserve", "install"}

Label ==
    CreateStep \cup MachineOp
       \cup {"idle", "insert", "clone", "findOriginal", "deleteRow", "reply"}

\* The body and the plan a handler has at each of its steps.
HandlerOK(c) ==
    /\ pc[c] # "idle" => who[c] \in User
    /\ pc[c] \in CreateStep => call[c] \in [op : {"create"}]
    /\ pc[c] \in {"findIps", "createIp", "prepare"} => plan[c].mac \in Mac
    /\ pc[c] = "prepare" => plan[c].ip \in Ip
    /\ pc[c] \in {"reserve", "install", "insert"} => plan[c] \in Lease
    /\ pc[c] \in MachineOp \cup {"deleteRow"} => call[c] \in [op : MachineOp, vmName : VmName]
    /\ pc[c] \in {"clone", "findOriginal"} => call[c] \in Body /\ call[c].op = "clone"

\* Every variable has its type, and every handler the body and the plan that
\* the rest of it reads.
TypeOK ==
    /\ rows \in [VmName -> Instance \cup {None}]
    /\ domains \in [VmName -> Machine \cup {None}]
    /\ reserved \subseteq Lease
    /\ had \in [User -> SUBSET VmName]
    /\ blocked \subseteq Client
    /\ pc \in [Client -> Label]
    /\ call \in [Client -> Body \cup {None}]
    /\ who \in [Client -> User \cup {None}]
    /\ plan \in [Client -> Plan]
    /\ seen \in [Client -> SUBSET (Mac \cup Ip)]
    /\ status \in [Client -> {200, 201, 400, 401, 403, 404, 409, 500, None}]
    /\ \A c \in Client : HandlerOK(c)

\* A machine that create installed holds the lease of the addresses it was
\* installed with, before, while and after it is recorded, whatever fails:
\* "if this call fails, the VM should not be created".
ReservedBeforeInstalled ==
    \A n \in Domains :
        [name |-> n, mac |-> domains[n].mac, ip |-> domains[n].ip] \in reserved

\* Two machines never share an address, though requests draw theirs from what
\* the table had when they looked, and failed requests leave machines behind
\* that the table does not have.
AddressesNotShared ==
    \A m, n \in Domains :
        m # n => domains[m].ip # domains[n].ip /\ domains[m].mac # domains[n].mac

\* Where a failed command says so, no query rejects and nothing is cloned, a
\* domain without a row is one that create has installed and is about to record:
\* no other interleaving of create, start, shutdown and destroy leaves one behind.
EveryMachineRecorded ==
    \A n \in Domains \ Rows :
        \E c \in Client : pc[c] = "insert" /\ plan[c].name = n

\* There, a row without its machine, or with addresses other than its
\* machine's, is one whose machine destroy has removed and is about to delete.
EveryRowHasItsMachine ==
    \A n \in Rows :
        \/ n \in Domains /\ domains[n].mac = rows[n].mac /\ domains[n].ip = rows[n].ip
        \/ \E c \in Client : pc[c] = "deleteRow" /\ call[c].vmName = n

\* Every row, also one that clone saves for a machine it has not made, has its
\* lease in the network: no later create gets one of its addresses.
RowsReserved ==
    \A n \in Rows : [name |-> n, mac |-> rows[n].mac, ip |-> rows[n].ip] \in reserved

\* The machine a clone is made of is, or was, the user's: what the guard makes
\* sure of for the other requests, and leaves to the client for this one.
ClonesAreOwn ==
    \A c \in Client : pc[c] = "clone" => call[c].original \in had[who[c]]

\* No request starts, stops or removes a machine that is recorded as another
\* user's, though the guard consults a list older than the table.
OthersMachinesUntouched ==
    [][\A c \in Client, n \in Rows \cap Domains :
          pc'[c] # pc[c] /\ domains'[n] # domains[n] => rows[n].owner = who[c]]_vars

\* Every MAC address has a lease, and leases are not removed: no create request
\* gets one of its own anymore.
Exhausted == {lease.mac : lease \in reserved} = Mac

\* Every request is answered, unless all MAC addresses have a lease: what other
\* requests draw, reserve or fail to record starves nobody.
EveryCallAnswered ==
    \A c \in Client : pc[c] # "idle" ~> pc[c] = "idle" \/ Exhausted

\* No other request than one that could not succeed holds the event loop: rows
\* come and go while a loop draws against those it has read, but every address
\* it has read keeps a lease.
SpinsOnlyWhenExhausted == blocked # {} => Exhausted

\* The machine named n is there, and recorded with the addresses it has.
Recorded(n) ==
    /\ n \in Rows \cap Domains
    /\ domains[n].mac = rows[n].mac
    /\ domains[n].ip = rows[n].ip

RecordedMachines ==
    [n \in VmName |->
        IF Recorded(n)
        THEN [owner |-> rows[n].owner, mac |-> domains[n].mac, ip |-> domains[n].ip,
              running |-> domains[n].running]
        ELSE None]

Abstract == INSTANCE Machines WITH machines <- RecordedMachines

\* Where failed commands say so and nothing is cloned, table, network and libvirt
\* together are machines with an owner and with addresses of their own, that are
\* created once and as a whole, and removed only when they are off; whatever
\* rejects, is refused or crashes between the three.
MachinesSpec == Abstract!Spec
=============================================================================
