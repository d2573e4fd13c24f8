----------------------- MODULE VmProvisioning_proofs -----------------------
(***************************************************************************)
(* Proofs about the vm-manager, for any number of clients, users, machine  *)
(* names and addresses, with and without faults.  What needs commands that *)
(* say how they end, or no clones, assumes so.                             *)
(***************************************************************************)
EXTENDS VmProvisioning, TLAPS

Codes == {200, 201, 400, 401, 403, 404, 409, 500, None}

\* A handler goes on at label, or answers.
Moves(c, label) == Goto(c, label) \/ \E code \in Codes : Reply(c, code)

\* Going on and answering change only the program counter and the status of c,
\* and keep c if a loop holds the event loop.
LEMMA Controlled ==
    ASSUME TypeOK, NEW c \in Client, NEW label \in Label, Moves(c, label)
    PROVE  /\ pc' \in [Client -> Label]
           /\ pc'[c] \in {label, "reply"}
           /\ \A d \in Client \ {c} : pc'[d] = pc[d]
           /\ status' \in [Client -> Codes]
           /\ blocked' \subseteq Client
  <1>1. CASE Goto(c, label)
    BY <1>1 DEF Goto, Hold, TypeOK, Codes
  <1>2. ASSUME NEW code \in Codes, Reply(c, code)
        PROVE  /\ pc' \in [Client -> Label]
               /\ pc'[c] = "reply"
               /\ \A d \in Client \ {c} : pc'[d] = pc[d]
               /\ status' \in [Client -> Codes]
               /\ blocked' \subseteq Client
    BY <1>2 DEF Reply, Hold, TypeOK, Codes, Label
  <1>. QED  BY <1>1, <1>2 DEF Moves

\* So does what follows a command.
LEMMA ContinueMoves ==
    ASSUME NEW c \in Client, NEW outcome, NEW label, NEW code \in Codes
    PROVE  /\ Continue(c, outcome, label) => Moves(c, label)
           /\ Answer(c, outcome, code) => Moves(c, "reply")
  <1>1. 500 \in Codes
    BY DEF Codes
  <1>. QED  BY <1>1 DEF Continue, Answer, Moves

\* What a handler reads is its own: it is not disturbed by what others do.
LEMMA OthersOK ==
    ASSUME TypeOK, NEW c \in Client,
           pc'[c] = pc[c], call'[c] = call[c], who'[c] = who[c], plan'[c] = plan[c]
    PROVE  HandlerOK(c)'
  BY DEF TypeOK, HandlerOK

\* The initial state is well typed.
LEMMA TypeInit == Init => TypeOK
  <1>. SUFFICES ASSUME Init PROVE TypeOK
    OBVIOUS
  <1>1. NoPlan \in Plan
    BY DEF NoPlan, Plan
  <1>2. plan \in [Client -> Plan] /\ pc \in [Client -> Label]
    BY <1>1 DEF Init, Label
  <1>3. \A c \in Client : HandlerOK(c)
    BY DEF Init, HandlerOK, CreateStep, MachineOp
  <1>. QED  BY <1>2, <1>3 DEF Init, TypeOK

\* Where the guards let a request in to.
First(body) == IF body.op = "create" THEN "findOs" ELSE body.op

\* What a request that arrives brings, and what the guards make of it.
LEMMA Received ==
    ASSUME NEW c \in Client, Receive(c)
    PROVE  \E u \in User, body \in Body :
              /\ call' = [call EXCEPT ![c] = body]
              /\ who' = [who EXCEPT ![c] = u]
              /\ \/ Permitted(u, body) /\ Goto(c, First(body))
                 \/ \E code \in {400, 401, 403, 500} : Reply(c, code)
  <1>1. PICK u \in User, body \in {b \in Body : b.op \in Op} :
           /\ call' = [call EXCEPT ![c] = body]
           /\ who' = [who EXCEPT ![c] = u]
           /\ \/ Permitted(u, body) /\ Goto(c, First(body))
              \/ Permitted(u, body) /\ body.op \in PipeOp /\ Reply(c, 400)
              \/ body.op # "create" /\ Reply(c, 403)
              \/ \E code \in {401, 500} : Reply(c, code)
    BY DEF Receive, First
  <1>2. \/ Permitted(u, body) /\ Goto(c, First(body))
        \/ \E code \in {400, 401, 403, 500} : Reply(c, code)
    BY <1>1
  <1>. QED  BY <1>1, <1>2

\* The guards let a request in, or answer it.
LEMMA ReceiveType ==
    ASSUME TypeOK, NEW c \in Client, Receive(c)
    PROVE  TypeOK'
  <1>1. PICK u \in User, body \in Body :
           /\ call' = [call EXCEPT ![c] = body]
           /\ who' = [who EXCEPT ![c] = u]
           /\ \/ Permitted(u, body) /\ Goto(c, First(body))
              \/ \E code \in {400, 401, 403, 500} : Reply(c, code)
    BY Received
  <1>2. UNCHANGED <<rows, domains, reserved, had, plan, seen>>
    BY DEF Receive
  <1>3. /\ pc' \in [Client -> Label]
        /\ pc'[c] \in {First(body), "reply"}
        /\ \A d \in Client \ {c} : pc'[d] = pc[d]
        /\ status' \in [Client -> Codes]
        /\ blocked' \subseteq Client
    <2>1. First(body) \in Label
      BY DEF First, Body, Label, CreateStep, MachineOp
    <2>2. Moves(c, First(body))
      BY <1>1 DEF Moves, Codes
    <2>. QED  BY <2>1, <2>2, Controlled
  <1>4. \A d \in Client \ {c} : HandlerOK(d)'
    BY <1>1, <1>2, <1>3, OthersOK DEF TypeOK
  <1>5. HandlerOK(c)'
    <2>1. call'[c] = body /\ who'[c] \in User
      BY <1>1 DEF TypeOK
    <2>2. body.op = "create" => body \in [op : {"create"}]
      BY DEF Body, MachineOp
    <2>3. body.op \in MachineOp => body \in [op : MachineOp, vmName : VmName]
      BY DEF Body, MachineOp
    <2>4. body.op \in MachineOp \cup {"create", "clone"}
      BY DEF Body
    <2>. QED  BY <1>3, <2>1, <2>2, <2>3, <2>4 DEF First, HandlerOK, CreateStep, MachineOp
  <1>. QED  BY <1>1, <1>2, <1>3, <1>4, <1>5 DEF TypeOK, Codes

\* A handler that moves, keeps its body and its user, and has at label what
\* HandlerOK asks for, keeps the types.
LEMMA HandlerType ==
    ASSUME TypeOK, NEW c \in Client, NEW label \in Label, Moves(c, label),
           pc[c] # "idle", UNCHANGED <<call, who>>,
           plan' \in [Client -> Plan],
           \A d \in Client \ {c} : plan'[d] = plan[d],
           pc'[c] = label => HandlerOK(c)',
           rows' \in [VmName -> Instance \cup {None}],
           domains' \in [VmName -> Machine \cup {None}],
           reserved' \subseteq Lease,
           had' \in [User -> SUBSET VmName],
           seen' \in [Client -> SUBSET (Mac \cup Ip)]
    PROVE  TypeOK'
  <1>1. /\ pc' \in [Client -> Label]
        /\ pc'[c] \in {label, "reply"}
        /\ \A d \in Client \ {c} : pc'[d] = pc[d]
        /\ status' \in [Client -> Codes]
        /\ blocked' \subseteq Client
    BY Controlled
  <1>2. \A d \in Client \ {c} : HandlerOK(d)'
    BY <1>1, OthersOK
  <1>3. HandlerOK(c)'
    BY <1>1 DEF TypeOK, HandlerOK, CreateStep, MachineOp
  <1>. QED  BY <1>1, <1>2, <1>3 DEF TypeOK, Codes

\* What a loop reads and forgets is a set of addresses.
LEMMA SeenType ==
    ASSUME TypeOK, NEW c \in Client
    PROVE  /\ [seen EXCEPT ![c] = {rows[n].mac : n \in Rows}] \in [Client -> SUBSET (Mac \cup Ip)]
           /\ [seen EXCEPT ![c] = {rows[n].ip : n \in Rows}] \in [Client -> SUBSET (Mac \cup Ip)]
           /\ [seen EXCEPT ![c] = {}] \in [Client -> SUBSET (Mac \cup Ip)]
  <1>1. /\ {rows[n].mac : n \in Rows} \subseteq Mac
        /\ {rows[n].ip : n \in Rows} \subseteq Ip
    BY DEF TypeOK, Rows, Instance
  <1>. QED  BY <1>1 DEF TypeOK

\* The two draws, with the loops that have no end, keep the types.
LEMMA DrawType ==
    ASSUME TypeOK, NEW c \in Client, CreateMac(c) \/ CreateIp(c)
    PROVE  TypeOK'
  <1>. {"findIps", "prepare"} \subseteq Label
    BY DEF Label, CreateStep
  <1>1. ASSUME Spin(c), UNCHANGED <<rows, domains, reserved, had, locals>>
        PROVE  TypeOK'
    BY <1>1, OthersOK DEF Spin, locals, TypeOK
  <1>2. CASE CreateMac(c)
    <2>1. CASE FreeMac(c) = {}
      BY <1>1, <1>2, <2>1 DEF CreateMac, locals
    <2>2. CASE FreeMac(c) # {}
      <3>1. PICK mac \in Mac : plan' = [plan EXCEPT ![c].mac = mac]
        BY <1>2, <2>2 DEF CreateMac, FreeMac
      <3>2. /\ plan' \in [Client -> Plan]
            /\ \A d \in Client \ {c} : plan'[d] = plan[d]
            /\ plan'[c].mac \in Mac
        BY <3>1 DEF TypeOK, Plan
      <3>3. /\ Goto(c, "findIps") /\ pc[c] = "createMac"
            /\ seen' \in [Client -> SUBSET (Mac \cup Ip)]
        BY <1>2, <2>2, SeenType DEF CreateMac
      <3>4. Moves(c, "findIps") /\ (pc'[c] = "findIps" => HandlerOK(c)')
        BY <1>2, <3>2, <3>3 DEF CreateMac, Moves, TypeOK, HandlerOK, CreateStep, MachineOp
      <3>. QED  BY <1>2, <2>2, <3>2, <3>3, <3>4, HandlerType DEF CreateMac, TypeOK
    <2>. QED  BY <2>1, <2>2
  <1>3. CASE CreateIp(c)
    <2>1. CASE FreeIp(c) = {}
      BY <1>1, <1>3, <2>1 DEF CreateIp, locals
    <2>2. CASE FreeIp(c) # {}
      <3>1. PICK ip \in Ip : plan' = [plan EXCEPT ![c].ip = ip]
        BY <1>3, <2>2 DEF CreateIp, FreeIp
      <3>2. /\ plan' \in [Client -> Plan]
            /\ \A d \in Client \ {c} : plan'[d] = plan[d]
            /\ plan'[c].ip \in Ip /\ plan'[c].mac = plan[c].mac
        BY <3>1 DEF TypeOK, Plan
      <3>3. /\ Goto(c, "prepare") /\ pc[c] = "createIp"
            /\ seen' \in [Client -> SUBSET (Mac \cup Ip)]
        BY <1>3, <2>2, SeenType DEF CreateIp
      <3>4. Moves(c, "prepare") /\ (pc'[c] = "prepare" => HandlerOK(c)')
        BY <1>3, <3>2, <3>3 DEF CreateIp, Moves, TypeOK, HandlerOK, CreateStep, MachineOp
      <3>. QED  BY <1>3, <2>2, <3>2, <3>3, <3>4, HandlerType DEF CreateIp, TypeOK
    <2>. QED  BY <2>1, <2>2
  <1>. QED  BY <1>2, <1>3

\* So do the other steps of a create request up to its lease.
LEMMA PrepareType ==
    ASSUME TypeOK, NEW c \in Client,
           FindOs(c) \/ FindMacs(c) \/ FindIps(c) \/ Prepare(c)
    PROVE  TypeOK'
  <1>. /\ {404, 409, 500} \subseteq Codes
       /\ {"findMacs", "createMac", "createIp", "reserve"} \subseteq Label
    BY DEF Codes, Label, CreateStep
  <1>1. CASE FindOs(c)
    <2>1. Moves(c, "findMacs") /\ (pc'[c] = "findMacs" => HandlerOK(c)')
      BY <1>1 DEF FindOs, At, Moves, TypeOK, HandlerOK, CreateStep, MachineOp
    <2>. QED  BY <1>1, <2>1, HandlerType DEF FindOs, At, TypeOK
  <1>2. CASE FindMacs(c)
    <2>1. Moves(c, "createMac") /\ (pc'[c] = "createMac" => HandlerOK(c)')
      BY <1>2 DEF FindMacs, At, Moves, TypeOK, HandlerOK, CreateStep, MachineOp
    <2>2. pc[c] = "findMacs" /\ seen' \in [Client -> SUBSET (Mac \cup Ip)]
      BY <1>2, SeenType DEF FindMacs, At
    <2>. QED  BY <1>2, <2>1, <2>2, HandlerType DEF FindMacs, TypeOK
  <1>3. CASE FindIps(c)
    <2>1. Moves(c, "createIp") /\ (pc'[c] = "createIp" => HandlerOK(c)')
      BY <1>3 DEF FindIps, At, Moves, TypeOK, HandlerOK, CreateStep, MachineOp
    <2>2. pc[c] = "findIps" /\ seen' \in [Client -> SUBSET (Mac \cup Ip)]
      BY <1>3, SeenType DEF FindIps, At
    <2>. QED  BY <1>3, <2>1, <2>2, HandlerType DEF FindIps, TypeOK
  <1>4. CASE Prepare(c)
    <2>1. \/ \E n \in VmName : plan' = [plan EXCEPT ![c].name = n] /\ Goto(c, "reserve")
          \/ UNCHANGED plan /\ \E code \in {404, 409, 500} : Reply(c, code)
      BY <1>4 DEF Prepare
    <2>2. pc[c] = "prepare" /\ UNCHANGED <<rows, domains, reserved, had, call, who, seen>>
      BY <1>4 DEF Prepare
    <2>3. Moves(c, "reserve")
      BY <2>1 DEF Moves
    <2>4. /\ plan' \in [Client -> Plan]
          /\ \A d \in Client \ {c} : plan'[d] = plan[d]
          /\ pc'[c] = "reserve" => plan'[c] \in Lease
      BY <2>1, <2>2 DEF TypeOK, HandlerOK, Plan, Lease, Reply
    <2>5. pc'[c] = "reserve" => HandlerOK(c)'
      BY <2>2, <2>4 DEF TypeOK, HandlerOK, CreateStep, MachineOp
    <2>. QED  BY <2>2, <2>3, <2>4, <2>5, HandlerType DEF TypeOK
  <1>. QED  BY <1>1, <1>2, <1>3, <1>4

\* The commands of a create request, and its row, keep the types.
LEMMA CreateType ==
    ASSUME TypeOK, NEW c \in Client, Reserve(c) \/ Install(c) \/ Insert(c)
    PROVE  TypeOK'
  <1>. {500, 201} \subseteq Codes /\ {"install", "insert", "reply"} \subseteq Label
    BY DEF Codes, Label, CreateStep
  <1>1. CASE Reserve(c)
    <2>1. /\ pc[c] = "reserve" /\ plan[c] \in Lease /\ who[c] \in User
          /\ call[c] \in [op : {"create"}]
          /\ UNCHANGED <<rows, domains, had, call, who, plan, seen>>
      BY <1>1 DEF Reserve, At, TypeOK, HandlerOK, CreateStep
    <2>2. Moves(c, "install") /\ reserved' \subseteq Lease
      BY <1>1, <2>1, ContinueMoves DEF Reserve, TypeOK
    <2>3. pc'[c] = "install" => HandlerOK(c)'
      BY <2>1 DEF HandlerOK, CreateStep, MachineOp
    <2>. QED  BY <2>1, <2>2, <2>3, HandlerType DEF TypeOK
  <1>2. CASE Install(c)
    <2>1. /\ pc[c] = "install" /\ plan[c] \in Lease /\ who[c] \in User
          /\ UNCHANGED <<rows, reserved, had, call, who, plan, seen>>
      BY <1>2 DEF Install, At, TypeOK, HandlerOK, CreateStep
    <2>2. Moves(c, "insert")
      BY <1>2, ContinueMoves DEF Install
    <2>3. domains' \in [VmName -> Machine \cup {None}]
      BY <1>2, <2>1 DEF Install, TypeOK, Lease, Machine
    <2>4. pc'[c] = "insert" => HandlerOK(c)'
      BY <2>1 DEF HandlerOK, CreateStep, MachineOp
    <2>. QED  BY <2>1, <2>2, <2>3, <2>4, HandlerType DEF TypeOK
  <1>3. CASE Insert(c)
    <2>1. /\ pc[c] = "insert" /\ plan[c] \in Lease /\ who[c] \in User
          /\ UNCHANGED <<domains, reserved, call, who, plan, seen>>
      BY <1>3 DEF Insert, At, TypeOK, HandlerOK
    <2>2. Moves(c, "reply")
      BY <1>3 DEF Insert, Moves
    <2>3. rows' \in [VmName -> Instance \cup {None}]
      BY <1>3, <2>1 DEF Insert, TypeOK, Lease, Instance
    <2>4. had' \in [User -> SUBSET VmName]
      BY <1>3, <2>1 DEF Insert, TypeOK, Lease
    <2>5. pc'[c] = "reply" => HandlerOK(c)'
      BY <2>1 DEF HandlerOK, CreateStep, MachineOp
    <2>. QED  BY <2>1, <2>2, <2>3, <2>4, <2>5, HandlerType DEF TypeOK
  <1>. QED  BY <1>1, <1>2, <1>3

\* So do the steps of a clone request, up to the row it saves.
LEMMA CloneType ==
    ASSUME TypeOK, NEW c \in Client, Clone(c) \/ FindOriginal(c)
    PROVE  TypeOK'
  <1>. {404, 500} \subseteq Codes /\ {"findOriginal", "insert"} \subseteq Label
    BY DEF Codes, Label
  <1>1. CASE Clone(c)
    <2>1. /\ pc[c] = "clone" /\ who[c] \in User
          /\ call[c] \in Body /\ call[c].op = "clone"
          /\ UNCHANGED <<rows, reserved, had, call, who, plan, seen>>
      BY <1>1 DEF Clone, At, TypeOK, HandlerOK
    <2>2. call[c].original \in VmName /\ call[c].name \in VmName
      BY <2>1 DEF Body, MachineOp
    <2>3. PICK outcome \in Outcome :
             /\ Exec(outcome, Off(call[c].original)
                   /\ call[c].name \notin Domains /\ Mac \ {domains[n].mac : n \in Domains} # {})
             /\ IF Took(outcome)
                THEN \E mac \in Mac :
                        domains' = [domains EXCEPT ![call[c].name] =
                           [mac |-> mac, ip |-> domains[call[c].original].ip, running |-> FALSE]]
                ELSE UNCHANGED domains
             /\ Continue(c, outcome, "findOriginal")
      BY <1>1 DEF Clone
    <2>4. domains' \in [VmName -> Machine \cup {None}]
      <3>1. Took(outcome) => domains[call[c].original] \in Machine
        BY <2>2, <2>3 DEF Exec, Took, Off, Domains, TypeOK
      <3>2. CASE Took(outcome)
        <4>1. PICK mac \in Mac :
                 domains' = [domains EXCEPT ![call[c].name] =
                    [mac |-> mac, ip |-> domains[call[c].original].ip, running |-> FALSE]]
          BY <2>3, <3>2
        <4>2. [mac |-> mac, ip |-> domains[call[c].original].ip, running |-> FALSE] \in Machine
          BY <3>1, <3>2 DEF Machine
        <4>. QED  BY <2>2, <4>1, <4>2 DEF TypeOK
      <3>. QED  BY <2>3, <3>2 DEF TypeOK
    <2>5. Moves(c, "findOriginal")
      BY <2>3, ContinueMoves
    <2>6. pc'[c] = "findOriginal" => HandlerOK(c)'
      BY <2>1 DEF HandlerOK, CreateStep, MachineOp
    <2>. QED  BY <2>1, <2>4, <2>5, <2>6, HandlerType DEF TypeOK
  <1>2. CASE FindOriginal(c)
    <2>. DEFINE original == call[c].original
    <2>1. /\ pc[c] = "findOriginal" /\ who[c] \in User
          /\ call[c] \in Body /\ call[c].op = "clone"
          /\ UNCHANGED <<rows, domains, reserved, had, call, who, seen>>
      BY <1>2 DEF FindOriginal, At, TypeOK, HandlerOK
    <2>2. original \in VmName
      BY <2>1 DEF Body, MachineOp
    <2>3. CASE original \notin Rows
      <3>1. Moves(c, "insert") /\ UNCHANGED plan /\ Reply(c, 404)
        BY <1>2, <2>3 DEF FindOriginal, Moves
      <3>2. pc'[c] = "insert" => HandlerOK(c)'
        BY <3>1 DEF Reply, TypeOK
      <3>. QED  BY <2>1, <3>1, <3>2, HandlerType DEF TypeOK
    <2>4. CASE original \in Rows
      <3>1. /\ plan' = [plan EXCEPT ![c] =
                   [name |-> original, mac |-> rows[original].mac, ip |-> rows[original].ip]]
            /\ Moves(c, "insert")
        BY <1>2, <2>4 DEF FindOriginal, Moves
      <3>2. [name |-> original, mac |-> rows[original].mac, ip |-> rows[original].ip] \in Lease
        BY <2>2, <2>4 DEF Rows, TypeOK, Instance, Lease
      <3>3. /\ plan' \in [Client -> Plan] /\ plan'[c] \in Lease
            /\ \A d \in Client \ {c} : plan'[d] = plan[d]
        BY <3>1, <3>2 DEF TypeOK, Plan, Lease
      <3>4. pc'[c] = "insert" => HandlerOK(c)'
        BY <2>1, <3>3 DEF HandlerOK, CreateStep, MachineOp
      <3>. QED  BY <2>1, <3>1, <3>3, <3>4, HandlerType DEF TypeOK
    <2>. QED  BY <2>3, <2>4
  <1>. QED  BY <1>1, <1>2

\* A domain switched on or off is a domain.
LEMMA Switched ==
    ASSUME TypeOK, NEW n \in Domains, NEW on \in BOOLEAN
    PROVE  [domains EXCEPT ![n].running = on] \in [VmName -> Machine \cup {None}]
  <1>1. n \in VmName /\ domains[n] \in Machine
    BY DEF Domains, TypeOK
  <1>2. [domains[n] EXCEPT !.running = on] \in Machine
    BY <1>1 DEF Machine
  <1>. QED  BY <1>1, <1>2 DEF TypeOK

\* The steps of the requests about one machine keep the types.
LEMMA MachineType ==
    ASSUME TypeOK, NEW c \in Client,
           Start(c) \/ ShutDown(c) \/ ForceOff(c) \/ Undefine(c) \/ DeleteRow(c)
    PROVE  TypeOK'
  <1>. 200 \in Codes /\ {"deleteRow", "reply"} \subseteq Label
    BY DEF Codes, Label
  <1>. DEFINE n == call[c].vmName
  <1>1. /\ pc[c] \in {"start", "shutdown", "force", "destroy", "deleteRow"}
        /\ who[c] \in User
        /\ call[c] \in [op : MachineOp, vmName : VmName]
        /\ UNCHANGED <<reserved, had, call, who, plan, seen>>
    BY DEF Start, ShutDown, ForceOff, Undefine, DeleteRow, At, TypeOK, HandlerOK, MachineOp
  <1>2. n \in VmName
    BY <1>1
  <1>3. (pc'[c] = "reply" => HandlerOK(c)') /\ (pc'[c] = "deleteRow" => HandlerOK(c)')
    BY <1>1 DEF HandlerOK, CreateStep, MachineOp
  <1>4. CASE Start(c)
    <2>1. PICK outcome \in Outcome :
             /\ Took(outcome) => Off(n)
             /\ domains' = IF Took(outcome)
                           THEN [domains EXCEPT ![n].running = TRUE] ELSE domains
             /\ Answer(c, outcome, 200)
      BY <1>4 DEF Start, Exec, Took
    <2>2. domains' \in [VmName -> Machine \cup {None}]
      <3>1. CASE Took(outcome)
        BY <2>1, <3>1, Switched DEF Off
      <3>2. CASE ~Took(outcome)
        BY <2>1, <3>2 DEF TypeOK
      <3>. QED  BY <3>1, <3>2
    <2>3. Moves(c, "reply")
      BY <2>1, ContinueMoves
    <2>4. UNCHANGED rows
      BY <1>4 DEF Start
    <2>. QED  BY <1>1, <1>3, <2>2, <2>3, <2>4, HandlerType DEF TypeOK
  <1>5. CASE ShutDown(c)
    <2>1. Moves(c, "reply")
      BY <1>5, ContinueMoves DEF ShutDown
    <2>. QED  BY <1>1, <1>3, <1>5, <2>1, HandlerType DEF ShutDown, TypeOK
  <1>6. CASE ForceOff(c)
    <2>1. PICK outcome \in Outcome :
             /\ Took(outcome) => Running(n)
             /\ domains' = IF Took(outcome)
                           THEN [domains EXCEPT ![n].running = FALSE] ELSE domains
             /\ Answer(c, outcome, 200)
      BY <1>6 DEF ForceOff, Exec, Took
    <2>2. domains' \in [VmName -> Machine \cup {None}]
      <3>1. CASE Took(outcome)
        BY <2>1, <3>1, Switched DEF Running
      <3>2. CASE ~Took(outcome)
        BY <2>1, <3>2 DEF TypeOK
      <3>. QED  BY <3>1, <3>2
    <2>3. Moves(c, "reply")
      BY <2>1, ContinueMoves
    <2>4. UNCHANGED rows
      BY <1>6 DEF ForceOff
    <2>. QED  BY <1>1, <1>3, <2>2, <2>3, <2>4, HandlerType DEF TypeOK
  <1>7. CASE Undefine(c)
    <2>1. domains' \in [VmName -> Machine \cup {None}]
      BY <1>2, <1>7 DEF Undefine, TypeOK
    <2>2. Moves(c, "deleteRow")
      BY <1>7, ContinueMoves DEF Undefine
    <2>. QED  BY <1>1, <1>3, <1>7, <2>1, <2>2, HandlerType DEF Undefine, TypeOK
  <1>8. CASE DeleteRow(c)
    <2>1. Moves(c, "reply") /\ rows' \in [VmName -> Instance \cup {None}]
      BY <1>2, <1>8 DEF DeleteRow, Moves, TypeOK
    <2>. QED  BY <1>1, <1>3, <1>8, <2>1, HandlerType DEF DeleteRow, TypeOK
  <1>. QED  BY <1>4, <1>5, <1>6, <1>7, <1>8

\* Answers, faults and guests keep the types.
LEMMA EnvironmentType ==
    ASSUME TypeOK,
           \/ \E c \in Client : ReceiveReply(c) \/ Reject(c)
           \/ Crash \/ \E n \in VmName : GuestStops(n)
    PROVE  TypeOK'
  <1>1. ASSUME NEW C \in SUBSET Client, Forget(C), UNCHANGED <<rows, domains, reserved, had>>,
               blocked' \subseteq Client
        PROVE  TypeOK'
    <2>1. NoPlan \in Plan /\ "idle" \in Label
      BY DEF NoPlan, Plan, Label
    <2>2. /\ pc' \in [Client -> Label]
          /\ call' \in [Client -> Body \cup {None}]
          /\ who' \in [Client -> User \cup {None}]
          /\ plan' \in [Client -> Plan]
          /\ seen' \in [Client -> SUBSET (Mac \cup Ip)]
          /\ status' \in [Client -> Codes]
      BY <1>1, <2>1 DEF Forget, TypeOK, Codes
    <2>3. \A c \in Client : HandlerOK(c)'
      <3>1. ASSUME NEW c \in Client \ C
            PROVE  HandlerOK(c)'
        BY <1>1, <3>1, OthersOK DEF Forget
      <3>2. ASSUME NEW c \in C
            PROVE  HandlerOK(c)'
        BY <1>1, <3>2 DEF Forget, HandlerOK, CreateStep, MachineOp
      <3>. QED  BY <3>1, <3>2
    <2>. QED  BY <1>1, <2>2, <2>3 DEF TypeOK, Codes
  <1>2. ASSUME NEW c \in Client, ReceiveReply(c)
        PROVE  TypeOK'
    BY <1>1, <1>2 DEF ReceiveReply, TypeOK
  <1>3. CASE Crash
    BY <1>1, <1>3 DEF Crash
  <1>4. ASSUME NEW c \in Client, Reject(c)
        PROVE  TypeOK'
    <2>1. Moves(c, "reply") /\ "reply" \in Label
      BY <1>4 DEF Reject, Moves, Codes, Label
    <2>2. pc[c] # "idle" /\ (pc'[c] = "reply" => HandlerOK(c)')
      BY <1>4 DEF Reject, TypeOK, HandlerOK, CreateStep, MachineOp
    <2>. QED  BY <1>4, <2>1, <2>2, HandlerType DEF Reject, TypeOK
  <1>5. ASSUME NEW n \in VmName, GuestStops(n)
        PROVE  TypeOK'
    <2>1. domains' \in [VmName -> Machine \cup {None}]
      BY <1>5, Switched DEF GuestStops, Running
    <2>. QED  BY <1>5, <2>1, OthersOK DEF GuestStops, TypeOK, locals
  <1>. QED  BY <1>2, <1>3, <1>4, <1>5

\* Every step keeps the types.
LEMMA TypeStep == TypeOK /\ [Next]_vars => TypeOK'
  <1>. SUFFICES ASSUME TypeOK, [Next]_vars PROVE TypeOK'
    OBVIOUS
  <1>1. CASE UNCHANGED vars
    BY <1>1, OthersOK DEF vars, locals, TypeOK
  <1>2. CASE Next
    BY <1>2, ReceiveType, PrepareType, DrawType, CreateType, CloneType, MachineType, EnvironmentType
       DEF Next, Handle
  <1>. QED  BY <1>1, <1>2

\* Types, and the body, user, name and addresses each step of a handler reads:
\* no request, however it overlaps others or fails, runs into one that is not there.
THEOREM TypeCorrect == Spec => []TypeOK
  BY TypeInit, TypeStep, PTL DEF Spec
-----------------------------------------------------------------------------
(***************************************************************************)
(* Leases.  Nothing but Reserve adds one, and libvirt adds none that       *)
(* repeats a name or an address.                                           *)
(***************************************************************************)
LeasesDiffer ==
    \A k, l \in reserved :
        k # l => k.name # l.name /\ k.mac # l.mac /\ k.ip # l.ip

PlansReserved ==
    \A c \in Client : pc[c] \in {"install", "insert"} => plan[c] \in reserved

LeaseOf(n) == [name |-> n, mac |-> rows[n].mac, ip |-> rows[n].ip]

LeaseInv == TypeOK /\ PlansReserved /\ RowsReserved

\* The name a handler works with belongs to its user, or to nobody yet.
NameOwned(d) ==
    /\ pc[d] \in MachineOp \cup {"deleteRow"} => call[d].vmName \in had[who[d]]
    /\ pc[d] \in {"clone", "findOriginal"} => call[d].original \in had[who[d]]
    /\ pc[d] \in {"reserve", "install", "insert"} =>
          \A u \in User \ {who[d]} : plan[d].name \notin had[u]

NamesDiffer(c, d) ==
    /\ pc[c] \in {"reserve", "install", "insert"}
    /\ pc[d] \in {"reserve", "install", "insert"}
    /\ who[c] # who[d]
    => plan[c].name # plan[d].name

\* What a user has been recorded with is in the user's list.
RowsListed == \A n \in Rows : n \in had[rows[n].owner]

\* Names come from uuids and belong to whom they were made up for: to the
\* user in whose list they are, or to the request that has not saved its row.
NamesOwned ==
    /\ \A u, v \in User : u # v => had[u] \cap had[v] = {}
    /\ RowsListed
    /\ \A c \in Client : NameOwned(c)
    /\ \A c, d \in Client : NamesDiffer(c, d)

\* Without clones the name of a row that is not saved yet is in no list.
NamesNew ==
    \A c \in Client :
        pc[c] \in {"reserve", "install", "insert"} =>
            /\ \A u \in User : plan[c].name \notin had[u]
            /\ \A d \in Client \ {c} :
                  pc[d] \in {"reserve", "install", "insert"}
                  => plan[d].name # plan[c].name

\* Where a machine is, seen from the requests that are about to save or to
\* delete its row.
MachinesHeld ==
    \A c \in Client :
        /\ pc[c] = "insert" =>
              LET n == plan[c].name
              IN  n \in Domains /\ domains[n].mac = plan[c].mac /\ domains[n].ip = plan[c].ip
        /\ pc[c] = "deleteRow" => call[c].vmName \notin Domains

NothingCloned == \A c \in Client : pc[c] \notin {"clone", "findOriginal"}
-----------------------------------------------------------------------------
(***************************************************************************)
(* What one step does to one handler and to each of the stores.            *)
(***************************************************************************)
Undisturbed(d) ==
    pc'[d] = pc[d] /\ call'[d] = call[d] /\ who'[d] = who[d] /\ plan'[d] = plan[d]

\* How a handler gets to a step that reads a name another step has checked.
Arrives(d) ==
    \/ pc'[d] = "reserve" /\ Prepare(d)
    \/ pc'[d] = "install" /\ Reserve(d)
    \/ pc'[d] = "insert" /\ (Install(d) \/ FindOriginal(d))
    \/ pc'[d] = "findOriginal" /\ Clone(d)
    \/ pc'[d] = "deleteRow" /\ Undefine(d)
    \/ pc'[d] \in MachineOp \cup {"clone"} /\ Receive(d)

Harmless ==
    {"idle", "findOs", "findMacs", "createMac", "findIps", "createIp", "prepare", "reply"}

\* Only its own step brings a handler to the next one, always the same.
LEMMA Arrival ==
    ASSUME TypeOK, [Next]_vars, NEW d \in Client
    PROVE  Undisturbed(d) \/ pc'[d] \in Harmless \/ Arrives(d)
  <1>1. CASE UNCHANGED vars
    BY <1>1 DEF vars, locals, Undisturbed
  <1>2. ASSUME NEW C \in SUBSET Client, Forget(C)
        PROVE  Undisturbed(d) \/ pc'[d] \in Harmless
    BY <1>2 DEF Forget, Undisturbed, Harmless
  <1>3. CASE Crash \/ \E n \in VmName : GuestStops(n)
    BY <1>2, <1>3 DEF Crash, GuestStops, locals, Undisturbed
  <1>4. ASSUME NEW c \in Client, Receive(c)
        PROVE  Undisturbed(d) \/ pc'[d] \in Harmless \/ Arrives(d)
    <2>1. PICK u \in User, body \in Body :
             /\ call' = [call EXCEPT ![c] = body]
             /\ who' = [who EXCEPT ![c] = u]
             /\ \/ Permitted(u, body) /\ Goto(c, First(body))
                \/ \E code \in {400, 401, 403, 500} : Reply(c, code)
      BY <1>4, Received
    <2>2. UNCHANGED plan
      BY <1>4 DEF Receive
    <2>3. First(body) \in MachineOp \cup {"findOs", "clone"}
      BY DEF Body, First, MachineOp
    <2>. QED  BY <1>4, <2>1, <2>2, <2>3 DEF Goto, Reply, TypeOK, Undisturbed, Harmless, Arrives
  <1>5. ASSUME NEW c \in Client,
               FindOs(c) \/ FindMacs(c) \/ CreateMac(c) \/ FindIps(c) \/ CreateIp(c) \/ Prepare(c)
        PROVE  Undisturbed(d) \/ pc'[d] \in Harmless \/ Arrives(d)
    BY <1>5 DEF FindOs, FindMacs, CreateMac, FindIps, CreateIp, Prepare, Goto, Reply, TypeOK, Undisturbed, Harmless, Arrives
  <1>6. ASSUME NEW c \in Client, NEW label, NEW code, NEW outcome,
               UNCHANGED <<call, who>>,
               \A e \in Client \ {c} : plan'[e] = plan[e],
               Goto(c, label) \/ Reply(c, code) \/ Continue(c, outcome, label) \/ Answer(c, outcome, code)
        PROVE  Undisturbed(d) \/ pc'[d] \in Harmless \/ (d = c /\ pc'[d] = label)
    <2>1. Goto(c, label) \/ \E k : Reply(c, k)
      BY <1>6 DEF Continue, Answer
    <2>2. /\ d # c => pc'[d] = pc[d]
          /\ pc'[c] = label \/ pc'[c] = "reply"
      BY <2>1 DEF Goto, Reply, TypeOK
    <2>3. CASE d = c
      BY <2>2, <2>3 DEF Harmless
    <2>4. CASE d # c
      BY <1>6, <2>2, <2>4 DEF Undisturbed
    <2>. QED  BY <2>3, <2>4
  <1>7. ASSUME NEW c \in Client, Reserve(c) \/ Install(c) \/ Insert(c)
        PROVE  Undisturbed(d) \/ pc'[d] \in Harmless \/ Arrives(d)
    <2>1. CASE Reserve(c)
      BY <1>6, <2>1 DEF Reserve, Arrives
    <2>2. CASE Install(c)
      BY <1>6, <2>2 DEF Install, Arrives
    <2>3. CASE Insert(c)
      BY <2>3 DEF Insert, Reply, TypeOK, Undisturbed, Harmless
    <2>. QED  BY <1>7, <2>1, <2>2, <2>3
  <1>8. ASSUME NEW c \in Client, Clone(c) \/ FindOriginal(c)
        PROVE  Undisturbed(d) \/ pc'[d] \in Harmless \/ Arrives(d)
    <2>1. CASE Clone(c)
      BY <1>6, <2>1 DEF Clone, Arrives
    <2>2. CASE FindOriginal(c)
      BY <2>2 DEF FindOriginal, Goto, Reply, TypeOK, Undisturbed, Harmless, Arrives
    <2>. QED  BY <1>8, <2>1, <2>2
  <1>9. ASSUME NEW c \in Client,
               Start(c) \/ ShutDown(c) \/ ForceOff(c) \/ Undefine(c) \/ DeleteRow(c) \/ Reject(c)
        PROVE  Undisturbed(d) \/ pc'[d] \in Harmless \/ Arrives(d)
    <2>1. CASE Undefine(c)
      BY <1>6, <2>1 DEF Undefine, Arrives
    <2>2. CASE Start(c) \/ ShutDown(c) \/ ForceOff(c)
      BY <2>2 DEF Start, ShutDown, ForceOff, Answer, Reply, TypeOK, Undisturbed, Harmless
    <2>3. CASE DeleteRow(c) \/ Reject(c)
      BY <2>3 DEF DeleteRow, Reject, Reply, TypeOK, Undisturbed, Harmless
    <2>. QED  BY <1>9, <2>1, <2>2, <2>3
  <1>10. ASSUME NEW c \in Client, ReceiveReply(c)
         PROVE  Undisturbed(d) \/ pc'[d] \in Harmless \/ Arrives(d)
    BY <1>2, <1>10 DEF ReceiveReply
  <1>. QED  BY <1>1, <1>3, <1>4, <1>5, <1>7, <1>8, <1>9, <1>10 DEF Next, Handle

\* The steps that write the leases, and the rows.
LEMMA Writers ==
    ASSUME [Next]_vars
    PROVE  /\ UNCHANGED reserved \/ \E c \in Client : Reserve(c)
           /\ UNCHANGED <<rows, had>> \/ \E c \in Client : Insert(c) \/ DeleteRow(c)
  <1>1. CASE UNCHANGED vars
    BY <1>1 DEF vars
  <1>2. CASE Crash \/ \E n \in VmName : GuestStops(n)
    BY <1>2 DEF Crash, GuestStops
  <1>3. ASSUME NEW c \in Client, Receive(c) \/ Handle(c) \/ Reject(c)
        PROVE  /\ UNCHANGED reserved \/ Reserve(c)
               /\ UNCHANGED <<rows, had>> \/ Insert(c) \/ DeleteRow(c)
    <2>1. CASE Receive(c) \/ FindOs(c) \/ FindMacs(c) \/ CreateMac(c) \/ FindIps(c) \/ CreateIp(c) \/ Prepare(c)
      BY <2>1 DEF Receive, FindOs, FindMacs, CreateMac, FindIps, CreateIp, Prepare
    <2>2. CASE Reserve(c) \/ Install(c) \/ Insert(c) \/ Clone(c) \/ FindOriginal(c)
      BY <2>2 DEF Reserve, Install, Insert, Clone, FindOriginal
    <2>3. CASE Start(c) \/ ShutDown(c) \/ ForceOff(c) \/ Undefine(c) \/ DeleteRow(c)
      BY <2>3 DEF Start, ShutDown, ForceOff, Undefine, DeleteRow
    <2>4. CASE ReceiveReply(c) \/ Reject(c)
      BY <2>4 DEF ReceiveReply, Reject
    <2>. QED  BY <1>3, <2>1, <2>2, <2>3, <2>4 DEF Handle
  <1>. QED  BY <1>1, <1>2, <1>3 DEF Next
\* The machine named n goes on or off and keeps its addresses.
Switches(n) ==
    /\ n \in Domains /\ n \in Domains'
    /\ domains'[n].mac = domains[n].mac
    /\ domains'[n].ip = domains[n].ip

\* What can happen to the domain named n, and which handler does it.
Touches(n) ==
    \/ Switches(n) /\ GuestStops(n)
    \/ \E c \in Client :
          \/ Switches(n) /\ (Start(c) \/ ForceOff(c)) /\ n = call[c].vmName
          \/ Undefine(c) /\ n = call[c].vmName /\ n \in Domains /\ n \notin Domains'
          \/ Install(c) /\ n = plan[c].name /\ n \notin Domains /\ n \in Domains'
               /\ domains'[n].mac = plan[c].mac /\ domains'[n].ip = plan[c].ip
          \/ Clone(c) /\ n = call[c].name /\ n \notin Domains

\* Turning the domain m on or off changes no other, and of m no address.
LEMMA SwitchSwitches ==
    ASSUME TypeOK, NEW m \in Domains, NEW on \in BOOLEAN, NEW n \in VmName,
           domains' = [domains EXCEPT ![m].running = on], domains'[n] # domains[n]
    PROVE  n = m /\ Switches(n)
  <1>1. n = m /\ domains[n] \in Machine
    BY DEF TypeOK, Domains
  <1>2. domains'[n] = [domains[n] EXCEPT !.running = on]
    BY <1>1 DEF TypeOK
  <1>3. domains'[n] \in Machine /\ domains'[n].mac = domains[n].mac /\ domains'[n].ip = domains[n].ip
    BY <1>1, <1>2 DEF Machine
  <1>4. domains'[n] # None
    BY <1>3, ProvisioningAssumption DEF Assumption
  <1>. QED  BY <1>1, <1>3, <1>4 DEF Switches, Domains

\* Nothing else happens to a domain.
LEMMA DomainsStep ==
    ASSUME TypeOK, [Next]_vars, NEW n \in VmName, domains'[n] # domains[n]
    PROVE  Touches(n)
  <1>1. ASSUME NEW m \in VmName, GuestStops(m)
        PROVE  Touches(n)
    <2>1. n = m /\ Switches(n)
      BY <1>1, SwitchSwitches DEF GuestStops, Running
    <2>. QED  BY <1>1, <2>1 DEF Touches
  <1>2. ASSUME NEW c \in Client, Start(c)
        PROVE  Touches(n)
    <2>1. Off(call[c].vmName) /\ domains' = [domains EXCEPT ![call[c].vmName].running = TRUE]
      BY <1>2 DEF Start, Exec, Took
    <2>2. n = call[c].vmName /\ Switches(n)
      BY <2>1, SwitchSwitches DEF Off
    <2>. QED  BY <1>2, <2>2 DEF Touches
  <1>3. ASSUME NEW c \in Client, ForceOff(c)
        PROVE  Touches(n)
    <2>1. Running(call[c].vmName) /\ domains' = [domains EXCEPT ![call[c].vmName].running = FALSE]
      BY <1>3 DEF ForceOff, Exec, Took
    <2>2. n = call[c].vmName /\ Switches(n)
      BY <2>1, SwitchSwitches DEF Running
    <2>. QED  BY <1>3, <2>2 DEF Touches
  <1>4. ASSUME NEW c \in Client, Undefine(c)
        PROVE  Touches(n)
    <2>1. Off(call[c].vmName) /\ domains' = [domains EXCEPT ![call[c].vmName] = None]
      BY <1>4 DEF Undefine, Exec, Took
    <2>2. n = call[c].vmName /\ n \in Domains /\ n \notin Domains'
      BY <2>1 DEF Off, Domains, TypeOK
    <2>. QED  BY <1>4, <2>2 DEF Touches
  <1>5. ASSUME NEW c \in Client, Install(c)
        PROVE  Touches(n)
    <2>1. /\ plan[c].name \notin Domains
          /\ domains' = [domains EXCEPT ![plan[c].name] =
                           [mac |-> plan[c].mac, ip |-> plan[c].ip, running |-> TRUE]]
      BY <1>5 DEF Install, Exec, Took, Installable
    <2>2. n = plan[c].name /\ domains'[n] = [mac |-> plan[c].mac, ip |-> plan[c].ip, running |-> TRUE]
      BY <2>1 DEF TypeOK
    <2>3. plan[c] \in Lease
      BY <1>5 DEF Install, At, TypeOK, HandlerOK
    <2>4. domains'[n] \in Machine
      BY <2>2, <2>3 DEF Lease, Machine
    <2>5. domains'[n] # None
      BY <2>4, ProvisioningAssumption DEF Assumption
    <2>. QED  BY <1>5, <2>1, <2>2, <2>5 DEF Touches, Domains
  <1>6. ASSUME NEW c \in Client, Clone(c)
        PROVE  Touches(n)
    <2>1. /\ call[c].name \notin Domains
          /\ \E m : domains' = [domains EXCEPT ![call[c].name] = m]
      BY <1>6 DEF Clone, Exec, Took
    <2>. QED  BY <1>6, <2>1 DEF TypeOK, Touches
  <1>7. ASSUME NEW c \in Client,
               \/ Receive(c) \/ FindOs(c) \/ FindMacs(c) \/ CreateMac(c) \/ FindIps(c) \/ CreateIp(c) \/ Prepare(c)
               \/ Reserve(c) \/ Insert(c) \/ FindOriginal(c)
               \/ ShutDown(c) \/ DeleteRow(c) \/ ReceiveReply(c) \/ Reject(c)
        PROVE  UNCHANGED domains
    BY <1>7 DEF Receive, FindOs, FindMacs, CreateMac, FindIps, CreateIp, Prepare, Reserve, Insert, FindOriginal,
                ShutDown, DeleteRow, ReceiveReply, Reject
  <1>8. CASE Crash \/ UNCHANGED vars
    BY <1>8 DEF Crash, vars
  <1>. QED  BY <1>1, <1>2, <1>3, <1>4, <1>5, <1>6, <1>7, <1>8 DEF Next, Handle
-----------------------------------------------------------------------------
(***************************************************************************)
(* Leases                                                                  *)
(***************************************************************************)
\* libvirt adds no lease that repeats a name or an address of another.
LEMMA LeasesStep ==
    ASSUME TypeOK, LeasesDiffer, [Next]_vars
    PROVE  LeasesDiffer' /\ reserved \subseteq reserved'
  <1>1. CASE UNCHANGED reserved
    BY <1>1 DEF LeasesDiffer
  <1>2. ASSUME NEW c \in Client, Reserve(c)
        PROVE  LeasesDiffer' /\ reserved \subseteq reserved'
    <2>1. \/ UNCHANGED reserved
          \/ Reservable(plan[c]) /\ reserved' = reserved \cup {plan[c]}
      BY <1>2 DEF Reserve, Exec, Took
    <2>. QED  BY <2>1 DEF LeasesDiffer, Reservable
  <1>. QED  BY <1>1, <1>2, Writers

\* Where failed commands say so, a request that goes on to install or to record
\* a machine has its lease, and so has every row.
LEMMA LeaseInvStep ==
    ASSUME "silent" \notin Outcome, LeaseInv, LeasesDiffer, [Next]_vars
    PROVE  LeaseInv'
  <1>1. TypeOK /\ TypeOK' /\ reserved \subseteq reserved'
    BY TypeStep, LeasesStep DEF LeaseInv
  <1>2. ASSUME NEW d \in Client, pc'[d] \in {"install", "insert"}
        PROVE  plan'[d] \in reserved'
    <2>1. CASE Undisturbed(d)
      BY <1>1, <1>2, <2>1 DEF LeaseInv, PlansReserved, Undisturbed
    <2>2. CASE Reserve(d)
      <3>1. PICK outcome \in Outcome :
               /\ reserved' = IF Took(outcome) THEN reserved \cup {plan[d]} ELSE reserved
               /\ Continue(d, outcome, "install")
               /\ plan' = plan
        BY <2>2 DEF Reserve
      <3>2. outcome = "ok"
        <4>1. outcome \in {"error", "warned"} => pc'[d] = "reply"
          BY <3>1 DEF Continue, Reply, LeaseInv, TypeOK
        <4>. QED  BY <1>2, <4>1, ProvisioningAssumption DEF Assumption
      <3>. QED  BY <3>1, <3>2 DEF Took
    <2>3. CASE Install(d)
      BY <1>1, <2>3 DEF Install, At, LeaseInv, PlansReserved
    <2>4. CASE FindOriginal(d)
      <3>1. /\ call[d].original \in Rows
            /\ plan' = [plan EXCEPT ![d] = LeaseOf(call[d].original)]
        BY <1>1, <1>2, <2>4 DEF FindOriginal, LeaseOf, Reply, TypeOK
      <3>2. LeaseOf(call[d].original) \in reserved
        BY <3>1 DEF LeaseInv, RowsReserved, LeaseOf
      <3>. QED  BY <1>1, <3>1, <3>2 DEF TypeOK
    <2>. QED  BY <1>1, <1>2, <2>1, <2>2, <2>3, <2>4, Arrival DEF Arrives, Harmless, MachineOp
  <1>3. ASSUME NEW n \in Rows'
        PROVE  LeaseOf(n)' \in reserved'
    <2>1. CASE n \in Rows /\ rows'[n] = rows[n]
      BY <1>1, <2>1 DEF LeaseInv, RowsReserved, LeaseOf
    <2>2. ASSUME NEW c \in Client, Insert(c), rows'[n] # rows[n]
          PROVE  LeaseOf(n)' \in reserved'
      <3>1. /\ n = plan[c].name
            /\ rows'[n].mac = plan[c].mac /\ rows'[n].ip = plan[c].ip
            /\ pc[c] = "insert"
        BY <1>1, <2>2 DEF Insert, At, TypeOK, Rows
      <3>2. plan[c] \in Lease /\ plan[c] \in reserved
        BY <1>1, <3>1 DEF TypeOK, HandlerOK, LeaseInv, PlansReserved
      <3>3. LeaseOf(n)' = plan[c]
        BY <3>1, <3>2 DEF LeaseOf, Lease
      <3>. QED  BY <1>1, <3>2, <3>3
    <2>3. ASSUME NEW c \in Client, DeleteRow(c)
          PROVE  rows'[n] = rows[n]
      BY <1>1, <2>3 DEF DeleteRow, Rows, TypeOK
    <2>4. n \in VmName /\ (rows'[n] = rows[n] => n \in Rows)
      BY DEF Rows
    <2>. QED  BY <2>1, <2>2, <2>3, <2>4, Writers
  <1>. QED  BY <1>1, <1>2, <1>3 DEF LeaseInv, PlansReserved, RowsReserved, LeaseOf

\* At first there is neither a lease nor a row.
LEMMA LeaseInit == Init => LeaseInv /\ LeasesDiffer
  <1>. SUFFICES ASSUME Init PROVE LeaseInv /\ LeasesDiffer
    OBVIOUS
  <1>1. Rows = {} /\ reserved = {}
    BY DEF Init, Rows
  <1>2. PlansReserved
    BY DEF Init, PlansReserved
  <1>. QED  BY <1>1, <1>2, TypeInit DEF LeaseInv, LeasesDiffer, RowsReserved

\* Where failed commands say so, every row has its lease: no later create gets
\* an address of a recorded machine, whatever is cloned, destroyed or cut short.
THEOREM RowsKeepTheirLeases ==
    "silent" \notin Outcome => (Spec => []RowsReserved)
  <1>. SUFFICES ASSUME "silent" \notin Outcome
                PROVE  Spec => []RowsReserved
    OBVIOUS
  <1>1. Init => LeaseInv /\ LeasesDiffer
    BY LeaseInit
  <1>2. LeaseInv /\ LeasesDiffer /\ [Next]_vars => (LeaseInv /\ LeasesDiffer)'
    BY LeaseInvStep, LeasesStep DEF LeaseInv
  <1>3. LeaseInv => RowsReserved
    BY DEF LeaseInv
  <1>. QED  BY <1>1, <1>2, <1>3, PTL DEF Spec

\* No handler clones if no request asks for it.
LEMMA NothingClonedStep ==
    ASSUME "clone" \notin Op, TypeOK, NothingCloned, [Next]_vars
    PROVE  NothingCloned'
  <1>1. SUFFICES ASSUME NEW d \in Client, pc'[d] \in {"clone", "findOriginal"} PROVE FALSE
    BY DEF NothingCloned
  <1>2. ~Undisturbed(d) /\ pc'[d] \notin Harmless
    BY <1>1 DEF NothingCloned, Undisturbed, Harmless
  <1>3. ~Clone(d)
    BY DEF NothingCloned, Clone, At
  <1>4. CASE Receive(d) /\ pc'[d] = "clone"
    <2>1. PICK u \in User, body \in {b \in Body : b.op \in Op} :
             /\ \/ Permitted(u, body) /\ Goto(d, First(body))
                \/ Permitted(u, body) /\ body.op \in PipeOp /\ Reply(d, 400)
                \/ body.op # "create" /\ Reply(d, 403)
                \/ \E code \in {401, 500} : Reply(d, code)
      BY <1>4 DEF Receive, First
    <2>2. pc'[d] = First(body)
      BY <1>4, <2>1 DEF Goto, Reply, TypeOK
    <2>. QED  BY <1>4, <2>2 DEF First
  <1>. QED  BY <1>1, <1>2, <1>3, <1>4, Arrival DEF Arrives, MachineOp

InstalledInv == NothingCloned /\ ReservedBeforeInstalled

\* Without clones every machine is one that a request has reserved its addresses for.
LEMMA InstalledStep ==
    ASSUME "silent" \notin Outcome, "clone" \notin Op,
           LeaseInv, LeasesDiffer, InstalledInv, [Next]_vars
    PROVE  InstalledInv'
  <1>1. TypeOK /\ TypeOK' /\ reserved \subseteq reserved'
    BY TypeStep, LeasesStep DEF LeaseInv
  <1>2. NothingCloned'
    BY <1>1, NothingClonedStep DEF InstalledInv
  <1>3. ASSUME NEW n \in Domains'
        PROVE  [name |-> n, mac |-> domains'[n].mac, ip |-> domains'[n].ip] \in reserved'
    <2>1. n \in VmName
      BY DEF Domains
    <2>2. CASE domains'[n] = domains[n]
      BY <1>1, <2>1, <2>2 DEF InstalledInv, ReservedBeforeInstalled, Domains
    <2>3. CASE Switches(n)
      BY <1>1, <2>3 DEF InstalledInv, ReservedBeforeInstalled, Switches
    <2>4. ASSUME NEW c \in Client, Install(c), n = plan[c].name,
                 domains'[n].mac = plan[c].mac, domains'[n].ip = plan[c].ip
          PROVE  [name |-> n, mac |-> domains'[n].mac, ip |-> domains'[n].ip] \in reserved'
      <3>1. plan[c] \in Lease /\ plan[c] \in reserved
        BY <1>1, <2>4 DEF Install, At, TypeOK, HandlerOK, LeaseInv, PlansReserved
      <3>. QED  BY <1>1, <2>4, <3>1 DEF Lease
    <2>5. ASSUME NEW c \in Client
          PROVE  ~Clone(c)
      BY DEF InstalledInv, NothingCloned, Clone, At
    <2>. QED  BY <1>1, <2>1, <2>2, <2>3, <2>4, <2>5, DomainsStep DEF Touches
  <1>. QED  BY <1>2, <1>3 DEF InstalledInv, ReservedBeforeInstalled

\* Two machines with leases of their own share no address.
LEMMA LeasesKeepApart == LeasesDiffer /\ ReservedBeforeInstalled => AddressesNotShared
  BY DEF LeasesDiffer, ReservedBeforeInstalled, AddressesNotShared

\* What leases and machines satisfy together is kept by every step.
LEMMA InstalledInvariant ==
    ASSUME "silent" \notin Outcome, "clone" \notin Op
    PROVE  Spec => [](LeaseInv /\ LeasesDiffer /\ InstalledInv)
  <1>1. Init => LeaseInv /\ LeasesDiffer /\ InstalledInv
    <2>. SUFFICES ASSUME Init PROVE LeaseInv /\ LeasesDiffer /\ InstalledInv
      OBVIOUS
    <2>1. Domains = {} /\ NothingCloned
      BY DEF Init, Domains, NothingCloned
    <2>. QED  BY <2>1, LeaseInit DEF InstalledInv, ReservedBeforeInstalled
  <1>2. LeaseInv /\ LeasesDiffer /\ InstalledInv /\ [Next]_vars
        => (LeaseInv /\ LeasesDiffer /\ InstalledInv)'
    BY LeaseInvStep, LeasesStep, InstalledStep DEF LeaseInv
  <1>. QED  BY <1>1, <1>2, PTL DEF Spec

\* Where failed commands say so and nothing is cloned, a machine holds the lease
\* of the addresses it was installed with: "if this call fails, the VM should not
\* be created", whatever rejects or crashes after it.
THEOREM MachinesHoldTheirLeases ==
    "silent" \notin Outcome /\ "clone" \notin Op => (Spec => []ReservedBeforeInstalled)
  <1>. SUFFICES ASSUME "silent" \notin Outcome, "clone" \notin Op
                PROVE  Spec => []ReservedBeforeInstalled
    OBVIOUS
  <1>1. Spec => [](LeaseInv /\ LeasesDiffer /\ InstalledInv)
    BY InstalledInvariant
  <1>2. InstalledInv => ReservedBeforeInstalled
    BY DEF InstalledInv
  <1>. QED  BY <1>1, <1>2, PTL

\* There no two machines share an address, also not with one that a failed
\* request has left behind without a row.
THEOREM MachinesKeepTheirAddresses ==
    "silent" \notin Outcome /\ "clone" \notin Op => (Spec => []AddressesNotShared)
  <1>. SUFFICES ASSUME "silent" \notin Outcome, "clone" \notin Op
                PROVE  Spec => []AddressesNotShared
    OBVIOUS
  <1>1. Spec => [](LeaseInv /\ LeasesDiffer /\ InstalledInv)
    BY InstalledInvariant
  <1>2. LeasesDiffer /\ InstalledInv => AddressesNotShared
    BY LeasesKeepApart DEF InstalledInv
  <1>. QED  BY <1>1, <1>2, PTL
-----------------------------------------------------------------------------
(***************************************************************************)
(* Names and their owners                                                  *)
(***************************************************************************)
\* What Prepare makes up is a name that nothing else has or is about to have.
LEMMA Named ==
    ASSUME TypeOK, NEW d \in Client, Prepare(d), pc'[d] = "reserve"
    PROVE  /\ Unused(plan'[d].name)
           /\ \A c \in Client \ {d} : plan'[c] = plan[c]
           /\ UNCHANGED <<rows, domains, had, call, who>>
           /\ \A c \in Client \ {d} : pc'[c] = pc[c]
  <1>1. PICK n \in VmName : Unused(n) /\ plan' = [plan EXCEPT ![d].name = n] /\ Goto(d, "reserve")
    BY DEF Prepare, Reply, TypeOK
  <1>2. plan'[d].name = n
    BY <1>1 DEF TypeOK, Plan
  <1>. QED  BY <1>1, <1>2 DEF Prepare, Goto, TypeOK

\* What can happen to a list and to a row, and which handler does it.
ListsGrow ==
    /\ \A u \in User : had[u] \subseteq had'[u]
    /\ \A u \in User, n \in VmName :
          n \in had'[u] /\ n \notin had[u]
          => \E c \in Client : Insert(c) /\ u = who[c] /\ n = plan[c].name

RowChanges(n) ==
    \/ rows'[n] = rows[n]
    \/ rows'[n] = None /\ \E c \in Client : DeleteRow(c) /\ n = call[c].vmName
    \/ \E c \in Client :
          /\ Insert(c) /\ n = plan[c].name
          /\ rows'[n] = [mac |-> plan[c].mac, ip |-> plan[c].ip, owner |-> who[c]]
          /\ n \in had'[who[c]]

\* Lists only grow, by the name of a row that its own request saves.
LEMMA HadStep ==
    ASSUME TypeOK, [Next]_vars
    PROVE  ListsGrow /\ \A n \in VmName : RowChanges(n)
  <1>1. CASE UNCHANGED <<rows, had>>
    BY <1>1 DEF ListsGrow, RowChanges
  <1>2. ASSUME NEW c \in Client, DeleteRow(c)
        PROVE  ListsGrow /\ \A n \in VmName : RowChanges(n)
    <2>1. /\ UNCHANGED had
          /\ \A n \in VmName : rows'[n] = rows[n] \/ (rows'[n] = None /\ n = call[c].vmName)
      BY <1>2 DEF DeleteRow, TypeOK
    <2>. QED  BY <1>2, <2>1 DEF ListsGrow, RowChanges
  <1>3. ASSUME NEW c \in Client, Insert(c), ~UNCHANGED <<rows, had>>
        PROVE  /\ had' = [had EXCEPT ![who[c]] = @ \cup {plan[c].name}]
               /\ rows' = [rows EXCEPT ![plan[c].name] =
                              [mac |-> plan[c].mac, ip |-> plan[c].ip, owner |-> who[c]]]
               /\ who[c] \in User /\ plan[c].name \in VmName
    BY <1>3 DEF Insert, At, TypeOK, HandlerOK, Lease
  <1>4. ASSUME NEW c \in Client, Insert(c), ~UNCHANGED <<rows, had>>
        PROVE  ListsGrow /\ \A n \in VmName : RowChanges(n)
    <2>1. /\ \A u \in User : u # who[c] => had'[u] = had[u]
          /\ had'[who[c]] = had[who[c]] \cup {plan[c].name}
      <3>1. had \in [User -> SUBSET VmName]
        BY DEF TypeOK
      <3>. QED  BY <1>3, <1>4, <3>1
    <2>2. /\ \A n \in VmName : n # plan[c].name => rows'[n] = rows[n]
          /\ rows'[plan[c].name] = [mac |-> plan[c].mac, ip |-> plan[c].ip, owner |-> who[c]]
      BY <1>3, <1>4 DEF TypeOK
    <2>3. ListsGrow
      BY <1>4, <2>1 DEF ListsGrow
    <2>4. \A n \in VmName : RowChanges(n)
      BY <1>4, <2>1, <2>2 DEF RowChanges
    <2>. QED  BY <2>3, <2>4
  <1>. QED  BY <1>1, <1>2, <1>4, Writers

\* A row is saved together with its name in the list.
LEMMA RowsListedStep ==
    ASSUME TypeOK, RowsListed, [Next]_vars
    PROVE  RowsListed'
  <1>1. TypeOK' /\ ListsGrow /\ \A n \in VmName : RowChanges(n)
    BY TypeStep, HadStep
  <1>2. SUFFICES ASSUME NEW n \in Rows'
                 PROVE  n \in had'[rows'[n].owner]
    BY DEF RowsListed
  <1>3. n \in VmName /\ rows'[n] # None
    BY DEF Rows
  <1>4. CASE rows'[n] = rows[n]
    <2>1. n \in Rows /\ rows[n].owner \in User
      BY <1>3, <1>4 DEF Rows, TypeOK, Instance
    <2>. QED  BY <1>1, <1>4, <2>1 DEF RowsListed, ListsGrow
  <1>5. ASSUME NEW c \in Client, n \in had'[who[c]],
               rows'[n] = [mac |-> plan[c].mac, ip |-> plan[c].ip, owner |-> who[c]]
        PROVE  n \in had'[rows'[n].owner]
    BY <1>5
  <1>6. RowChanges(n)
    BY <1>1, <1>3
  <1>. QED  BY <1>3, <1>4, <1>5, <1>6 DEF RowChanges

\* A step leaves the name of a handler to its user, if clones are of one's own.
LEMMA NameStaysOwned ==
    ASSUME TypeOK, NamesOwned, ClonesAreOwn', [Next]_vars, NEW d \in Client
    PROVE  NameOwned(d)'
  <1>1. TypeOK' /\ ListsGrow
    BY TypeStep, HadStep
  <1>2. CASE Undisturbed(d)
    <2>1. pc[d] # "idle" => who[d] \in User
      BY DEF TypeOK, HandlerOK
    <2>2. pc[d] \in {"reserve", "install", "insert"} => plan[d].name \in VmName
      BY DEF TypeOK, HandlerOK, Lease
    <2>3. ASSUME pc[d] \in {"reserve", "install", "insert"}, NEW u \in User \ {who[d]}
          PROVE  plan[d].name \notin had'[u]
      <3>1. plan[d].name \notin had[u]
        BY <2>3 DEF NamesOwned, NameOwned
      <3>2. ASSUME NEW c \in Client, Insert(c), u = who[c]
            PROVE  plan[c].name # plan[d].name
        BY <2>3, <3>2 DEF Insert, At, NamesOwned, NamesDiffer
      <3>. QED  BY <1>1, <2>2, <2>3, <3>1, <3>2 DEF ListsGrow
    <2>4. /\ pc[d] \in MachineOp \cup {"deleteRow"} => call[d].vmName \in had'[who[d]]
          /\ pc[d] \in {"clone", "findOriginal"} => call[d].original \in had'[who[d]]
      BY <1>1, <2>1 DEF ListsGrow, NamesOwned, NameOwned, MachineOp
    <2>. QED  BY <1>2, <2>3, <2>4 DEF Undisturbed, NameOwned
  <1>3. CASE pc'[d] \in Harmless
    BY <1>3 DEF Harmless, NameOwned, MachineOp
  <1>4. CASE pc'[d] = "reserve" /\ Prepare(d)
    <2>1. \A u \in User : plan'[d].name \notin had'[u]
      BY <1>4, Named DEF Unused
    <2>. QED  BY <1>4, <2>1 DEF NameOwned, MachineOp
  <1>5. CASE (pc'[d] = "install" /\ Reserve(d)) \/ (pc'[d] = "insert" /\ Install(d))
    <2>1. pc[d] \in {"reserve", "install"} /\ UNCHANGED <<had, plan, who>> /\ pc'[d] \in {"install", "insert"}
      BY <1>5 DEF Reserve, Install, At
    <2>. QED  BY <2>1 DEF NamesOwned, NameOwned, MachineOp
  <1>6. CASE pc'[d] = "insert" /\ FindOriginal(d)
    <2>1. /\ pc[d] = "findOriginal" /\ UNCHANGED <<had, who>>
          /\ plan'[d].name = call[d].original
      BY <1>6 DEF FindOriginal, At, Reply, TypeOK
    <2>2. call[d].original \in had[who[d]] /\ who[d] \in User
      BY <2>1 DEF NamesOwned, NameOwned, TypeOK, HandlerOK
    <2>3. \A u \in User \ {who[d]} : plan'[d].name \notin had[u]
      BY <2>1, <2>2 DEF NamesOwned
    <2>. QED  BY <1>6, <2>1, <2>3 DEF NameOwned, MachineOp
  <1>7. CASE (pc'[d] = "findOriginal" /\ Clone(d)) \/ (pc'[d] = "deleteRow" /\ Undefine(d))
    <2>1. /\ UNCHANGED <<had, who, call>>
          /\ \/ pc[d] = "clone" /\ pc'[d] = "findOriginal"
             \/ pc[d] = "destroy" /\ pc'[d] = "deleteRow"
      BY <1>7 DEF Clone, Undefine, At
    <2>. QED  BY <2>1 DEF NamesOwned, NameOwned, MachineOp
  <1>8. CASE pc'[d] \in MachineOp \cup {"clone"} /\ Receive(d)
    <2>1. PICK u \in User, body \in Body :
             /\ call' = [call EXCEPT ![d] = body]
             /\ who' = [who EXCEPT ![d] = u]
             /\ \/ Permitted(u, body) /\ Goto(d, First(body))
                \/ \E code \in {400, 401, 403, 500} : Reply(d, code)
      BY <1>8, Received
    <2>2. /\ Permitted(u, body) /\ pc'[d] = First(body)
          /\ call'[d] = body /\ who'[d] = u
      BY <1>8, <2>1 DEF Goto, Reply, TypeOK, MachineOp
    <2>3. UNCHANGED had
      BY <1>8 DEF Receive
    <2>4. body.op # "create" /\ body.vmName \in had[u]
      BY <1>8, <2>2 DEF Permitted, First, MachineOp
    <2>5. pc'[d] = "clone" => call'[d].original \in had'[who'[d]]
      BY DEF ClonesAreOwn
    <2>. QED  BY <1>8, <2>2, <2>3, <2>4, <2>5 DEF NameOwned, First, MachineOp
  <1>. QED  BY <1>2, <1>3, <1>4, <1>5, <1>6, <1>7, <1>8, Arrival DEF Arrives

\* These steps move no other handler.
LEMMA OneMoves ==
    ASSUME TypeOK, NEW c \in Client, NEW d \in Client \ {c},
           Prepare(c) \/ Reserve(c) \/ Install(c) \/ FindOriginal(c)
    PROVE  Undisturbed(d)
  <1>1. UNCHANGED <<call, who>> /\ plan'[d] = plan[d]
    BY DEF Prepare, Reserve, Install, FindOriginal, TypeOK
  <1>2. \/ \E label : Goto(c, label)
        \/ \E code : Reply(c, code)
    BY DEF Prepare, Reserve, Install, FindOriginal, Continue
  <1>3. pc'[d] = pc[d]
    BY <1>2 DEF Goto, Reply, TypeOK
  <1>. QED  BY <1>1, <1>3 DEF Undisturbed

\* The name of a handler that moves stays apart from those of other users.
LEMMA MoverStaysApart ==
    ASSUME TypeOK, NamesOwned, [Next]_vars, NEW c \in Client, NEW d \in Client,
           ~Undisturbed(c)
    PROVE  NamesDiffer(c, d)'
  <1>. SUFFICES ASSUME pc'[c] \in {"reserve", "install", "insert"},
                       pc'[d] \in {"reserve", "install", "insert"},
                       who'[c] # who'[d]
                PROVE  plan'[c].name # plan'[d].name
    BY DEF NamesDiffer
  <1>1. /\ Prepare(c) \/ Reserve(c) \/ Install(c) \/ FindOriginal(c)
        /\ Prepare(c) => pc'[c] = "reserve"
        /\ FindOriginal(c) => pc'[c] = "insert"
    <2>1. Arrives(c)
      BY Arrival DEF Harmless
    <2>. QED  BY <2>1 DEF Arrives, MachineOp, FindOriginal, Prepare, At, Goto, Reply, TypeOK
  <1>2. Undisturbed(d)
    BY <1>1, OneMoves
  <1>3. pc[d] \in {"reserve", "install", "insert"} /\ who[d] = who'[d] /\ plan[d] = plan'[d]
    BY <1>2 DEF Undisturbed
  <1>4. CASE Prepare(c)
    <2>1. Unused(plan'[c].name)
      BY <1>1, <1>4, Named
    <2>. QED  BY <1>3, <2>1 DEF Unused
  <1>5. CASE Reserve(c) \/ Install(c)
    <2>1. pc[c] \in {"reserve", "install"} /\ UNCHANGED <<plan, who>>
      BY <1>5 DEF Reserve, Install, At
    <2>. QED  BY <1>3, <2>1 DEF NamesOwned, NamesDiffer
  <1>6. CASE FindOriginal(c)
    <2>1. /\ pc[c] = "findOriginal" /\ UNCHANGED who
          /\ plan'[c].name = call[c].original
      BY <1>1, <1>6 DEF FindOriginal, At, Reply, TypeOK
    <2>2. call[c].original \in had[who[c]] /\ who[c] \in User
      BY <2>1 DEF NamesOwned, NameOwned, TypeOK, HandlerOK
    <2>3. plan[d].name \notin had[who[c]]
      BY <1>3, <2>1, <2>2 DEF NamesOwned, NameOwned
    <2>. QED  BY <1>3, <2>1, <2>2, <2>3
  <1>. QED  BY <1>1, <1>4, <1>5, <1>6

\* Every step leaves every name to one owner.
LEMMA NamesOwnedStep ==
    ASSUME TypeOK, NamesOwned, ClonesAreOwn', [Next]_vars
    PROVE  NamesOwned'
  <1>1. TypeOK' /\ ListsGrow /\ \A n \in VmName : RowChanges(n)
    BY TypeStep, HadStep
  <1>2. ASSUME NEW u \in User, NEW v \in User, u # v,
               NEW n \in VmName, n \in had'[u], n \in had'[v]
        PROVE  FALSE
    <2>1. ASSUME NEW a \in User, NEW b \in User, a # b, n \in had'[a], n \notin had[a], n \in had[b]
          PROVE  FALSE
      <3>1. PICK c \in Client : Insert(c) /\ a = who[c] /\ n = plan[c].name
        BY <1>1, <2>1 DEF ListsGrow
      <3>. QED  BY <2>1, <3>1 DEF Insert, At, NamesOwned, NameOwned
    <2>2. CASE n \notin had[u] /\ n \notin had[v]
      <3>1. PICK c \in Client : Insert(c) /\ u = who[c] /\ n = plan[c].name
        BY <1>1, <1>2, <2>2 DEF ListsGrow
      <3>2. PICK d \in Client : Insert(d) /\ v = who[d] /\ n = plan[d].name
        BY <1>1, <1>2, <2>2 DEF ListsGrow
      <3>. QED  BY <1>2, <3>1, <3>2 DEF Insert, At, NamesOwned, NamesDiffer
    <2>3. CASE n \in had[u] /\ n \in had[v]
      BY <1>2, <2>3 DEF NamesOwned
    <2>. QED  BY <1>2, <2>1, <2>2, <2>3
  <1>3. RowsListed'
    BY RowsListedStep DEF NamesOwned
  <1>4. \A c \in Client : NameOwned(c)'
    BY NameStaysOwned
  <1>5. \A c, d \in Client : NamesDiffer(c, d)'
    <2>1. ASSUME NEW c \in Client, NEW d \in Client, Undisturbed(c), Undisturbed(d)
          PROVE  NamesDiffer(c, d)'
      BY <2>1 DEF NamesOwned, NamesDiffer, Undisturbed
    <2>2. ASSUME NEW c \in Client, NEW d \in Client, NamesDiffer(d, c)'
          PROVE  NamesDiffer(c, d)'
      BY <2>2 DEF NamesDiffer
    <2>. QED  BY <2>1, <2>2, MoverStaysApart
  <1>6. \A u, v \in User : u # v => (had[u] \cap had[v] = {})'
    BY <1>1, <1>2 DEF TypeOK
  <1>. QED  BY <1>3, <1>4, <1>5, <1>6 DEF NamesOwned

\* A handler changes a recorded machine only for the user it is recorded as.
LEMMA OwnersTouch ==
    ASSUME TypeOK, NamesOwned, [Next]_vars, NEW c \in Client, NEW n \in Rows \cap Domains,
           pc'[c] # pc[c], domains'[n] # domains[n]
    PROVE  rows[n].owner = who[c]
  <1>1. n \in VmName /\ n \in had[rows[n].owner] /\ rows[n].owner \in User
    BY DEF NamesOwned, RowsListed, Rows, TypeOK, Instance
  <1>2. Touches(n)
    BY <1>1, DomainsStep
  <1>3. ~GuestStops(n)
    BY DEF GuestStops, locals
  <1>4. ASSUME NEW d \in Client, Start(d) \/ ForceOff(d) \/ Undefine(d), n = call[d].vmName
        PROVE  rows[n].owner = who[c]
    <2>1. d = c
      <3>1. ASSUME d # c
            PROVE  pc'[c] = pc[c]
        BY <1>4, <3>1 DEF Start, ForceOff, Undefine, Answer, Continue, Goto, Reply, TypeOK
      <3>. QED  BY <3>1
    <2>2. pc[c] \in MachineOp
      BY <1>4, <2>1 DEF Start, ForceOff, Undefine, At, MachineOp
    <2>3. n \in had[who[c]] /\ who[c] \in User
      BY <1>4, <2>1, <2>2 DEF NamesOwned, NameOwned, TypeOK, HandlerOK, MachineOp
    <2>. QED  BY <1>1, <2>3 DEF NamesOwned
  <1>. QED  BY <1>2, <1>3, <1>4 DEF Touches

\* At first no name belongs to anybody.
LEMMA NamesInit == Init => NamesOwned
  <1>. SUFFICES ASSUME Init PROVE NamesOwned
    OBVIOUS
  <1>1. Rows = {}
    BY DEF Init, Rows
  <1>2. \A c \in Client : NameOwned(c)
    BY DEF Init, NameOwned, MachineOp
  <1>3. \A c, d \in Client : NamesDiffer(c, d)
    BY DEF Init, NamesDiffer
  <1>. QED  BY <1>1, <1>2, <1>3 DEF Init, NamesOwned, RowsListed

\* As long as no user clones a machine that never was the user's own, which the
\* guard leaves open, no request starts, stops or removes a machine recorded as
\* another user's, though the guard consults a list as old as the session: a name
\* is never used again, so an old list may have too few machines in it but nobody
\* else's.
THEOREM NobodyTouchesOthersMachines == Spec /\ []ClonesAreOwn => OthersMachinesUntouched
  <1>1. Init => TypeOK /\ NamesOwned
    BY TypeInit, NamesInit
  <1>2. TypeOK /\ NamesOwned /\ ClonesAreOwn' /\ [Next]_vars => (TypeOK /\ NamesOwned)'
    BY TypeStep, NamesOwnedStep
  <1>3. TypeOK /\ NamesOwned /\ [Next]_vars
        => [\A c \in Client, n \in Rows \cap Domains :
               pc'[c] # pc[c] /\ domains'[n] # domains[n] => rows[n].owner = who[c]]_vars
    BY OwnersTouch
  <1>. QED  BY <1>1, <1>2, <1>3, PTL DEF Spec, OthersMachinesUntouched
-----------------------------------------------------------------------------
(***************************************************************************)
(* The table and libvirt, where commands say how they end, queries do not  *)
(* reject, the service does not crash and nothing is cloned.               *)
(***************************************************************************)
Orderly ==
    /\ "clone" \notin Op
    /\ Outcome \subseteq {"ok", "error"}
    /\ ~Faults

\* What the invariants proved so far say of such a service.
KnownInv == LeaseInv /\ LeasesDiffer /\ NothingCloned /\ NamesOwned

\* A handler that is about to record a machine, or to delete its row, does.
LEMMA Stays ==
    ASSUME Orderly, TypeOK, [Next]_vars, NEW c \in Client, pc[c] \in {"insert", "deleteRow"}
    PROVE  Undisturbed(c) \/ Insert(c) \/ DeleteRow(c)
  <1>1. CASE UNCHANGED vars \/ \E n \in VmName : GuestStops(n)
    BY <1>1 DEF vars, locals, GuestStops, Undisturbed
  <1>2. ~Crash /\ \A d \in Client : ~Reject(d)
    BY DEF Orderly, Crash, Reject
  <1>3. ASSUME NEW d \in Client, Receive(d) \/ Handle(d)
        PROVE  Undisturbed(c) \/ Insert(c) \/ DeleteRow(c)
    <2>1. CASE d = c
      BY <1>3, <2>1 DEF Handle, Receive, FindOs, FindMacs, CreateMac, FindIps, CreateIp, Prepare, Reserve, Install,
            Clone, FindOriginal, Start, ShutDown, ForceOff, Undefine, ReceiveReply, At
    <2>2. CASE d # c
      <3>1. CASE ReceiveReply(d)
        BY <2>2, <3>1 DEF ReceiveReply, Forget, Undisturbed
      <3>2. CASE Receive(d)
        <4>1. PICK u \in User, body \in Body :
                 /\ call' = [call EXCEPT ![d] = body]
                 /\ who' = [who EXCEPT ![d] = u]
                 /\ \/ Permitted(u, body) /\ Goto(d, First(body))
                    \/ \E code \in {400, 401, 403, 500} : Reply(d, code)
          BY <3>2, Received
        <4>2. UNCHANGED plan
          BY <3>2 DEF Receive
        <4>. QED  BY <2>2, <4>1, <4>2 DEF Goto, Reply, TypeOK, Undisturbed
      <3>3. CASE FindOs(d) \/ FindMacs(d) \/ CreateMac(d) \/ FindIps(d) \/ CreateIp(d) \/ Prepare(d)
        BY <2>2, <3>3 DEF FindOs, FindMacs, CreateMac, FindIps, CreateIp, Prepare, Goto, Reply, TypeOK, Undisturbed
      <3>4. CASE Reserve(d) \/ Install(d) \/ FindOriginal(d)
        BY <2>2, <3>4, OneMoves
      <3>5. CASE Insert(d) \/ Clone(d) \/ DeleteRow(d)
        BY <2>2, <3>5 DEF Insert, Clone, DeleteRow, Continue, Goto, Reply, TypeOK, Undisturbed
      <3>6. CASE Start(d) \/ ShutDown(d) \/ ForceOff(d) \/ Undefine(d)
        BY <2>2, <3>6 DEF Start, ShutDown, ForceOff, Undefine, Continue, Answer, Goto, Reply, TypeOK, Undisturbed
      <3>. QED  BY <1>3, <3>1, <3>2, <3>3, <3>4, <3>5, <3>6 DEF Handle
    <2>. QED  BY <2>1, <2>2
  <1>. QED  BY <1>1, <1>2, <1>3 DEF Next

\* Without clones a name that is not recorded yet stays new, and one request's.
LEMMA NamesNewStep ==
    ASSUME KnownInv, NamesNew, [Next]_vars
    PROVE  NamesNew'
  <1>1. TypeOK /\ TypeOK' /\ ListsGrow
    BY TypeStep, HadStep DEF KnownInv, LeaseInv
  <1>2. ASSUME NEW c \in Client, pc'[c] \in {"reserve", "install", "insert"}, ~Undisturbed(c)
        PROVE  Prepare(c) \/ Reserve(c) \/ Install(c)
    <2>1. ~FindOriginal(c)
      BY DEF KnownInv, NothingCloned, FindOriginal, At
    <2>. QED  BY <1>1, <1>2, <2>1, Arrival DEF Arrives, Harmless, MachineOp
  <1>3. ASSUME NEW c \in Client, Prepare(c), pc'[c] \in {"reserve", "install", "insert"}
        PROVE  pc'[c] = "reserve"
    BY <1>1, <1>3 DEF Prepare, Goto, Reply, TypeOK
  <1>4. ASSUME NEW c \in Client, Reserve(c) \/ Install(c)
        PROVE  pc[c] \in {"reserve", "install"} /\ UNCHANGED <<had, plan>>
    BY <1>4 DEF Reserve, Install, At
  <1>5. ASSUME NEW c \in Client, pc'[c] \in {"reserve", "install", "insert"}, NEW u \in User
        PROVE  plan'[c].name \notin had'[u]
    <2>1. CASE Undisturbed(c)
      <3>1. plan[c].name \in VmName /\ plan[c].name \notin had[u]
        BY <1>1, <1>5, <2>1 DEF Undisturbed, NamesNew, TypeOK, HandlerOK, Lease
      <3>2. ASSUME NEW d \in Client, Insert(d)
            PROVE  plan[d].name # plan[c].name
        <4>1. c # d
          BY <1>1, <1>5, <2>1, <3>2 DEF Insert, At, Reply, TypeOK, Undisturbed
        <4>. QED  BY <1>5, <2>1, <3>2, <4>1 DEF Insert, At, NamesNew, Undisturbed
      <3>. QED  BY <1>1, <2>1, <3>1, <3>2 DEF ListsGrow, Undisturbed
    <2>2. CASE Prepare(c)
      BY <1>1, <1>3, <1>5, <2>2, Named DEF Unused
    <2>3. CASE Reserve(c) \/ Install(c)
      BY <1>4, <2>3 DEF NamesNew
    <2>. QED  BY <1>2, <1>5, <2>1, <2>2, <2>3
  <1>6. ASSUME NEW c \in Client, NEW d \in Client \ {c}, ~Undisturbed(c),
               pc'[c] \in {"reserve", "install", "insert"},
               pc'[d] \in {"reserve", "install", "insert"}
        PROVE  plan'[d].name # plan'[c].name
    <2>1. Prepare(c) \/ Reserve(c) \/ Install(c)
      BY <1>2, <1>6
    <2>2. Undisturbed(d)
      BY <1>1, <2>1, OneMoves
    <2>3. CASE Prepare(c)
      BY <1>1, <1>3, <1>6, <2>2, <2>3, Named DEF Unused, Undisturbed
    <2>4. CASE Reserve(c) \/ Install(c)
      BY <1>4, <1>6, <2>2, <2>4 DEF NamesNew, Undisturbed
    <2>. QED  BY <2>1, <2>3, <2>4
  <1>7. ASSUME NEW c \in Client, NEW d \in Client \ {c}, Undisturbed(c), Undisturbed(d),
               pc'[c] \in {"reserve", "install", "insert"},
               pc'[d] \in {"reserve", "install", "insert"}
        PROVE  plan'[d].name # plan'[c].name
    BY <1>7 DEF NamesNew, Undisturbed
  <1>. QED  BY <1>5, <1>6, <1>7 DEF NamesNew

\* A command that took effect lets its handler go on, and one that did not ends it.
LEMMA Outcomes ==
    ASSUME Orderly, NEW outcome \in Outcome, NEW c \in Client, NEW label, TypeOK,
           Continue(c, outcome, label)
    PROVE  /\ Took(outcome) => pc'[c] = label
           /\ ~Took(outcome) => pc'[c] = "reply"
  <1>1. outcome \in {"ok", "error"}
    BY DEF Orderly
  <1>. QED  BY <1>1 DEF Continue, Took, Goto, Reply, TypeOK

\* Where failed commands say so, a handler goes on only after one that took effect.
LEMMA GoesOn ==
    ASSUME "silent" \notin Outcome, TypeOK, NEW outcome \in Outcome, NEW c \in Client,
           NEW label, Continue(c, outcome, label), pc'[c] # "reply"
    PROVE  Took(outcome)
  <1>1. outcome \notin {"error", "warned"}
    BY DEF Continue, Reply, TypeOK
  <1>. QED  BY <1>1, ProvisioningAssumption DEF Assumption, Took

\* Where a machine is while its row is about to be saved, or to be deleted.
LEMMA MachinesHeldStep ==
    ASSUME "silent" \notin Outcome, KnownInv, NamesNew, MachinesHeld, [Next]_vars
    PROVE  MachinesHeld'
  <1>1. TypeOK
    BY DEF KnownInv, LeaseInv
  <1>2. ASSUME NEW d \in Client
        PROVE  ~Clone(d) /\ ~FindOriginal(d)
    BY DEF KnownInv, NothingCloned, Clone, FindOriginal, At
  <1>3. ASSUME NEW d \in Client, Undefine(d)
        PROVE  call[d].vmName \in had[who[d]] /\ who[d] \in User
    BY <1>1, <1>3 DEF KnownInv, NamesOwned, NameOwned, Undefine, At, TypeOK, HandlerOK, MachineOp
  <1>4. ASSUME NEW c \in Client, pc'[c] = "insert"
        PROVE  /\ plan'[c].name \in Domains'
               /\ domains'[plan'[c].name].mac = plan'[c].mac
               /\ domains'[plan'[c].name].ip = plan'[c].ip
    <2>1. CASE Undisturbed(c)
      <3>. DEFINE n == plan[c].name
      <3>1. /\ pc[c] = "insert" /\ plan'[c] = plan[c]
            /\ n \in Domains /\ domains[n].mac = plan[c].mac /\ domains[n].ip = plan[c].ip
            /\ \A u \in User : n \notin had[u]
        BY <1>4, <2>1 DEF Undisturbed, MachinesHeld, NamesNew
      <3>2. n \in VmName
        BY <3>1 DEF Domains
      <3>3. CASE domains'[n] = domains[n]
        BY <3>1, <3>2, <3>3 DEF Domains
      <3>4. CASE domains'[n] # domains[n]
        <4>1. Switches(n)
          BY <1>1, <1>2, <1>3, <3>1, <3>2, <3>4, DomainsStep DEF Touches
        <4>. QED  BY <3>1, <4>1 DEF Switches
      <3>. QED  BY <3>3, <3>4
    <2>2. CASE Install(c)
      <3>1. PICK outcome \in Outcome :
               /\ domains' = IF Took(outcome)
                             THEN [domains EXCEPT ![plan[c].name] =
                                     [mac |-> plan[c].mac, ip |-> plan[c].ip, running |-> TRUE]]
                             ELSE domains
               /\ Continue(c, outcome, "insert")
        BY <2>2 DEF Install
      <3>2. Took(outcome)
        BY <1>1, <1>4, <3>1, GoesOn
      <3>3. plan' = plan /\ plan[c] \in Lease
        BY <1>1, <2>2 DEF Install, At, TypeOK, HandlerOK
      <3>4. domains'[plan[c].name] = [mac |-> plan[c].mac, ip |-> plan[c].ip, running |-> TRUE]
        BY <1>1, <3>1, <3>2, <3>3 DEF TypeOK, Lease
      <3>5. [mac |-> plan[c].mac, ip |-> plan[c].ip, running |-> TRUE] \in Machine
        BY <3>3 DEF Lease, Machine
      <3>6. domains'[plan[c].name] # None
        BY <3>4, <3>5, ProvisioningAssumption DEF Assumption
      <3>. QED  BY <3>3, <3>4, <3>6 DEF Lease, Domains
    <2>. QED  BY <1>1, <1>2, <1>4, <2>1, <2>2, Arrival DEF Arrives, Harmless, MachineOp
  <1>5. ASSUME NEW c \in Client, pc'[c] = "deleteRow"
        PROVE  call'[c].vmName \notin Domains'
    <2>1. CASE Undisturbed(c)
      <3>. DEFINE n == call[c].vmName
      <3>1. /\ pc[c] = "deleteRow" /\ call'[c] = call[c] /\ n \notin Domains
            /\ n \in had[who[c]] /\ who[c] \in User
        BY <1>1, <1>5, <2>1
           DEF Undisturbed, MachinesHeld, KnownInv, NamesOwned, NameOwned, TypeOK, HandlerOK
      <3>2. ASSUME n \in Domains'
            PROVE  FALSE
        <4>1. n \in VmName /\ domains'[n] # domains[n]
          BY <3>1, <3>2 DEF Domains
        <4>2. PICK d \in Client : Install(d) /\ n = plan[d].name
          BY <1>1, <1>2, <3>1, <3>2, <4>1, DomainsStep DEF Touches, Switches
        <4>. QED  BY <3>1, <4>2 DEF Install, At, NamesNew
      <3>. QED  BY <3>1, <3>2
    <2>2. CASE Undefine(c)
      <3>1. PICK outcome \in Outcome :
               /\ domains' = IF Took(outcome)
                             THEN [domains EXCEPT ![call[c].vmName] = None] ELSE domains
               /\ Continue(c, outcome, "deleteRow")
        BY <2>2 DEF Undefine
      <3>2. Took(outcome) /\ call' = call
        BY <1>1, <1>5, <2>2, <3>1, GoesOn DEF Undefine
      <3>. QED  BY <1>1, <3>1, <3>2 DEF TypeOK, Domains
    <2>. QED  BY <1>1, <1>5, <2>1, <2>2, Arrival DEF Arrives, Harmless, MachineOp
  <1>. QED  BY <1>4, <1>5 DEF MachinesHeld

\* The row a create request saves is refused by no unique column.
LEMMA NoDuplicates ==
    ASSUME KnownInv, NamesNew, NEW c \in Client, pc[c] = "insert"
    PROVE  ~Duplicates(plan[c])
  <1>1. plan[c] \in reserved
    BY DEF KnownInv, LeaseInv, PlansReserved
  <1>2. ASSUME NEW n \in Rows
        PROVE  n # plan[c].name /\ rows[n].mac # plan[c].mac /\ rows[n].ip # plan[c].ip
    <2>1. LeaseOf(n) \in reserved
      BY DEF KnownInv, LeaseInv, RowsReserved, LeaseOf
    <2>2. n \in had[rows[n].owner] /\ rows[n].owner \in User
      BY DEF KnownInv, LeaseInv, NamesOwned, RowsListed, Rows, TypeOK, Instance
    <2>3. n # plan[c].name
      BY <2>2 DEF NamesNew
    <2>4. LeaseOf(n) # plan[c]
      BY <2>3 DEF LeaseOf
    <2>5. LeaseOf(n).mac # plan[c].mac /\ LeaseOf(n).ip # plan[c].ip
      BY <1>1, <2>1, <2>4 DEF KnownInv, LeasesDiffer
    <2>. QED  BY <2>3, <2>5 DEF LeaseOf
  <1>. QED  BY <1>2 DEF Duplicates

\* A machine without a row is about to get it.
LEMMA RecordedStep ==
    ASSUME Orderly, KnownInv, NamesNew, MachinesHeld, EveryMachineRecorded, [Next]_vars
    PROVE  EveryMachineRecorded'
  <1>1. TypeOK /\ \A n \in VmName : RowChanges(n)
    BY HadStep DEF KnownInv, LeaseInv
  <1>2. SUFFICES ASSUME NEW n \in Domains', n \notin Rows'
                 PROVE  \E c \in Client : pc'[c] = "insert" /\ plan'[c].name = n
    BY DEF EveryMachineRecorded
  <1>3. n \in VmName
    BY DEF Domains
  <1>4. CASE n \in Domains /\ n \notin Rows
    <2>1. PICK c \in Client : pc[c] = "insert" /\ plan[c].name = n
      BY <1>4 DEF EveryMachineRecorded
    <2>2. CASE Undisturbed(c)
      BY <2>1, <2>2 DEF Undisturbed
    <2>3. CASE Insert(c)
      <3>1. ~Duplicates(plan[c])
        BY <2>1, NoDuplicates
      <3>2. rows'[n] = [mac |-> plan[c].mac, ip |-> plan[c].ip, owner |-> who[c]]
        BY <1>1, <1>3, <2>1, <2>3, <3>1 DEF Insert, TypeOK
      <3>3. plan[c] \in Lease /\ who[c] \in User
        BY <1>1, <2>1 DEF TypeOK, HandlerOK
      <3>4. rows'[n] \in Instance
        BY <3>2, <3>3 DEF Lease, Instance
      <3>5. rows'[n] # None
        BY <3>4, ProvisioningAssumption DEF Assumption
      <3>. QED  BY <1>2, <1>3, <3>5 DEF Rows
    <2>4. ~DeleteRow(c)
      BY <2>1 DEF DeleteRow, At
    <2>. QED  BY <1>1, <2>1, <2>2, <2>3, <2>4, Stays
  <1>5. CASE n \in Domains /\ n \in Rows
    <2>1. rows'[n] = None /\ rows[n] # None
      BY <1>2, <1>3, <1>5 DEF Rows
    <2>2. PICK c \in Client : (DeleteRow(c) /\ n = call[c].vmName) \/ (Insert(c) /\ n = plan[c].name)
      BY <1>1, <1>3, <2>1 DEF RowChanges
    <2>3. ~(DeleteRow(c) /\ n = call[c].vmName)
      BY <1>5 DEF DeleteRow, At, MachinesHeld
    <2>4. ~(Insert(c) /\ n = plan[c].name)
      <3>1. n \in had[rows[n].owner] /\ rows[n].owner \in User
        BY <1>1, <1>5 DEF KnownInv, NamesOwned, RowsListed, Rows, TypeOK, Instance
      <3>. QED  BY <3>1 DEF Insert, At, NamesNew
    <2>. QED  BY <2>2, <2>3, <2>4
  <1>6. CASE n \notin Domains
    <2>1. domains'[n] # domains[n]
      BY <1>2, <1>3, <1>6 DEF Domains
    <2>2. ~Switches(n) /\ \A c \in Client : ~Clone(c)
      BY <1>6 DEF Switches, KnownInv, NothingCloned, Clone, At
    <2>3. PICK c \in Client : Install(c) /\ n = plan[c].name
      BY <1>1, <1>2, <1>3, <1>6, <2>1, <2>2, DomainsStep DEF Touches
    <2>4. PICK outcome \in Outcome :
             /\ ~Took(outcome) => UNCHANGED domains
             /\ Continue(c, outcome, "insert")
             /\ UNCHANGED plan
      BY <2>3 DEF Install
    <2>5. pc'[c] = "insert"
      BY <1>1, <2>1, <2>4, Outcomes
    <2>. QED  BY <2>3, <2>4, <2>5
  <1>. QED  BY <1>4, <1>5, <1>6

\* A row without its machine is about to go.
LEMMA HasMachineStep ==
    ASSUME Orderly, KnownInv, NamesNew, MachinesHeld, EveryRowHasItsMachine, [Next]_vars
    PROVE  EveryRowHasItsMachine'
  <1>1. TypeOK /\ \A n \in VmName : RowChanges(n)
    BY HadStep DEF KnownInv, LeaseInv
  <1>2. SUFFICES ASSUME NEW n \in Rows'
                 PROVE  \/ /\ n \in Domains'
                           /\ domains'[n].mac = rows'[n].mac /\ domains'[n].ip = rows'[n].ip
                        \/ \E c \in Client : pc'[c] = "deleteRow" /\ call'[c].vmName = n
    BY DEF EveryRowHasItsMachine
  <1>3. n \in VmName /\ rows'[n] # None
    BY DEF Rows
  <1>4. CASE rows'[n] = rows[n] /\ n \in Domains /\ domains[n].mac = rows[n].mac /\ domains[n].ip = rows[n].ip
    <2>1. CASE domains'[n] = domains[n]
      BY <1>3, <1>4, <2>1 DEF Domains
    <2>2. CASE Switches(n)
      BY <1>4, <2>2 DEF Switches
    <2>3. ASSUME NEW c \in Client, Undefine(c), n = call[c].vmName, n \notin Domains'
          PROVE  pc'[c] = "deleteRow" /\ call'[c].vmName = n
      <3>1. PICK outcome \in Outcome :
               /\ ~Took(outcome) => UNCHANGED domains
               /\ Continue(c, outcome, "deleteRow")
               /\ UNCHANGED call
        BY <2>3 DEF Undefine
      <3>2. Took(outcome)
        BY <1>4, <2>3, <3>1 DEF Domains
      <3>. QED  BY <1>1, <2>3, <3>1, <3>2, Outcomes
    <2>. QED  BY <1>1, <1>3, <1>4, <2>1, <2>2, <2>3, DomainsStep DEF Touches
  <1>5. ASSUME rows'[n] = rows[n],
               NEW c \in Client, pc[c] = "deleteRow", call[c].vmName = n
        PROVE  pc'[c] = "deleteRow" /\ call'[c].vmName = n
    <2>1. ~Insert(c)
      BY <1>5 DEF Insert, At
    <2>2. ~DeleteRow(c)
      BY <1>1, <1>3, <1>5 DEF DeleteRow, TypeOK
    <2>. QED  BY <1>1, <1>5, <2>1, <2>2, Stays DEF Undisturbed
  <1>6. ASSUME NEW c \in Client, Insert(c), n = plan[c].name,
               rows'[n] = [mac |-> plan[c].mac, ip |-> plan[c].ip, owner |-> who[c]]
        PROVE  /\ n \in Domains'
               /\ domains'[n].mac = rows'[n].mac /\ domains'[n].ip = rows'[n].ip
    <2>1. pc[c] = "insert" /\ UNCHANGED domains
      BY <1>6 DEF Insert, At
    <2>. QED  BY <1>6, <2>1 DEF MachinesHeld, Domains
  <1>7. CASE rows'[n] = rows[n]
    <2>1. n \in Rows
      BY <1>3, <1>7 DEF Rows
    <2>. QED  BY <1>4, <1>5, <1>7, <2>1 DEF EveryRowHasItsMachine
  <1>8. RowChanges(n)
    BY <1>1, <1>3
  <1>. QED  BY <1>3, <1>6, <1>7, <1>8 DEF RowChanges

\* What the table and libvirt satisfy together in such a service.
OrderlyInv ==
    KnownInv /\ NamesNew /\ MachinesHeld /\ EveryMachineRecorded /\ EveryRowHasItsMachine

\* It is there at first, and every step keeps it.
LEMMA OrderlyInvariant ==
    ASSUME Orderly
    PROVE  Spec => []OrderlyInv
  <1>1. Init => OrderlyInv
    <2>. SUFFICES ASSUME Init PROVE OrderlyInv
      OBVIOUS
    <2>1. /\ \A c \in Client : pc[c] = "idle"
          /\ Rows = {} /\ Domains = {}
      BY DEF Init, Rows, Domains
    <2>2. NothingCloned /\ NamesNew /\ MachinesHeld
      BY <2>1 DEF NothingCloned, NamesNew, MachinesHeld
    <2>3. EveryMachineRecorded /\ EveryRowHasItsMachine
      BY <2>1 DEF EveryMachineRecorded, EveryRowHasItsMachine
    <2>. QED  BY <2>2, <2>3, LeaseInit, NamesInit DEF KnownInv, OrderlyInv
  <1>2. OrderlyInv /\ [Next]_vars => OrderlyInv'
    <2>. SUFFICES ASSUME OrderlyInv, [Next]_vars PROVE OrderlyInv'
      OBVIOUS
    <2>1. "silent" \notin Outcome /\ "clone" \notin Op
      BY DEF Orderly
    <2>2. KnownInv'
      <3>1. NothingCloned' /\ ClonesAreOwn'
        BY <2>1, NothingClonedStep DEF OrderlyInv, KnownInv, LeaseInv, NothingCloned, ClonesAreOwn
      <3>. QED  BY <2>1, <3>1, LeaseInvStep, LeasesStep, NamesOwnedStep
                DEF OrderlyInv, KnownInv, LeaseInv
    <2>3. NamesNew' /\ MachinesHeld'
      BY <2>1, NamesNewStep, MachinesHeldStep DEF OrderlyInv
    <2>. QED  BY <2>2, <2>3, RecordedStep, HasMachineStep DEF OrderlyInv
  <1>. QED  BY <1>1, <1>2, PTL DEF Spec

\* Where commands say how they end and nothing else fails, no machine is left
\* without a row, but for a request that is about to record it, whatever creates,
\* starts, shutdowns and destroys overlap.
THEOREM MachinesAreRecorded == Orderly => (Spec => []EveryMachineRecorded)
  <1>. SUFFICES ASSUME Orderly PROVE Spec => []EveryMachineRecorded
    OBVIOUS
  <1>1. Spec => []OrderlyInv
    BY OrderlyInvariant
  <1>2. OrderlyInv => EveryMachineRecorded
    BY DEF OrderlyInv
  <1>. QED  BY <1>1, <1>2, PTL

\* Nor a row without its machine, or with other addresses than the machine's,
\* but for a request that is about to delete it.
THEOREM RowsHaveTheirMachines == Orderly => (Spec => []EveryRowHasItsMachine)
  <1>. SUFFICES ASSUME Orderly PROVE Spec => []EveryRowHasItsMachine
    OBVIOUS
  <1>1. Spec => []OrderlyInv
    BY OrderlyInvariant
  <1>2. OrderlyInv => EveryRowHasItsMachine
    BY DEF OrderlyInv
  <1>. QED  BY <1>1, <1>2, PTL
-----------------------------------------------------------------------------
(***************************************************************************)
(* The event loop                                                          *)
(***************************************************************************)
\* No lease has a draw that is no address, and what a loop draws against are
\* MAC addresses with a lease, or addresses.
SeenOK(c) ==
    /\ pc[c] = "createMac" => seen[c] \subseteq {lease.mac : lease \in reserved}
    /\ pc[c] = "createIp" => seen[c] \cap InvalidIp = {}

LoopInv ==
    /\ \A lease \in reserved : lease.ip \notin InvalidIp
    /\ \A c \in Client : SeenOK(c)
    /\ SpinsOnlyWhenExhausted

\* Only a loop's own SELECT changes what it draws against.
LEMMA SeenStep ==
    ASSUME TypeOK, [Next]_vars, NEW d \in Client, pc'[d] \in {"createMac", "createIp"}
    PROVE  \/ pc'[d] = pc[d] /\ seen'[d] = seen[d]
           \/ pc'[d] = "createMac" /\ FindMacs(d)
           \/ pc'[d] = "createIp" /\ FindIps(d)
  <1>1. CASE UNCHANGED vars \/ \E n \in VmName : GuestStops(n)
    BY <1>1 DEF vars, locals, GuestStops
  <1>2. ~Crash
    BY DEF Crash, Forget
  <1>3. ASSUME NEW c \in Client, ReceiveReply(c)
        PROVE  pc'[d] = pc[d] /\ seen'[d] = seen[d]
    BY <1>3 DEF ReceiveReply, Forget
  <1>4. ASSUME NEW c \in Client, CreateMac(c) \/ CreateIp(c)
        PROVE  pc'[d] = pc[d] /\ seen'[d] = seen[d]
    <2>1. CASE UNCHANGED <<pc, seen>>
      BY <2>1
    <2>2. ASSUME NEW label \in {"findIps", "prepare"},
                 Goto(c, label), seen' = [seen EXCEPT ![c] = {}]
          PROVE  pc'[d] = pc[d] /\ seen'[d] = seen[d]
      <3>1. d # c
        BY <2>2 DEF Goto, TypeOK
      <3>. QED  BY <2>2, <3>1 DEF Goto, TypeOK
    <2>. QED  BY <1>4, <2>1, <2>2 DEF CreateMac, CreateIp
  <1>5. ASSUME NEW c \in Client, FindMacs(c) \/ FindIps(c)
        PROVE  \/ pc'[d] = pc[d] /\ seen'[d] = seen[d]
               \/ pc'[d] = "createMac" /\ FindMacs(d)
               \/ pc'[d] = "createIp" /\ FindIps(d)
    <2>1. CASE d = c
      BY <1>5, <2>1 DEF FindMacs, FindIps, Goto, TypeOK
    <2>2. CASE d # c
      BY <1>5, <2>2 DEF FindMacs, FindIps, Goto, TypeOK
    <2>. QED  BY <2>1, <2>2
  <1>6. ASSUME NEW c \in Client, UNCHANGED seen,
               (\E code : Reply(c, code))
                  \/ (\E label : label \notin {"createMac", "createIp"} /\ Goto(c, label))
        PROVE  pc'[d] = pc[d] /\ seen'[d] = seen[d]
    BY <1>6 DEF Goto, Reply, TypeOK
  <1>7. ASSUME NEW c \in Client, Receive(c)
        PROVE  pc'[d] = pc[d] /\ seen'[d] = seen[d]
    <2>1. PICK body \in Body : Goto(c, First(body)) \/ \E code : Reply(c, code)
      BY <1>7, Received
    <2>2. First(body) \notin {"createMac", "createIp"}
      BY DEF Body, First, MachineOp
    <2>. QED  BY <1>6, <1>7, <2>1, <2>2 DEF Receive
  <1>8. ASSUME NEW c \in Client, NEW outcome, NEW label, NEW code
        PROVE  /\ Continue(c, outcome, label) => Goto(c, label) \/ \E k : Reply(c, k)
               /\ Answer(c, outcome, code) => \E k : Reply(c, k)
    BY DEF Continue, Answer
  <1>9. ASSUME NEW c \in Client,
               \/ FindOs(c) \/ Prepare(c) \/ Reserve(c) \/ Install(c) \/ Insert(c)
               \/ Clone(c) \/ FindOriginal(c)
        PROVE  pc'[d] = pc[d] /\ seen'[d] = seen[d]
    <2>1. \/ \E code : Reply(c, code)
          \/ \E label : label \notin {"createMac", "createIp"} /\ Goto(c, label)
      BY <1>8, <1>9 DEF FindOs, Prepare, Reserve, Install, Insert, Clone, FindOriginal
    <2>2. UNCHANGED seen
      BY <1>9 DEF FindOs, Prepare, Reserve, Install, Insert, Clone, FindOriginal
    <2>. QED  BY <1>6, <2>1, <2>2
  <1>10. ASSUME NEW c \in Client,
                \/ Start(c) \/ ShutDown(c) \/ ForceOff(c) \/ Undefine(c) \/ DeleteRow(c)
                \/ Reject(c)
         PROVE  pc'[d] = pc[d] /\ seen'[d] = seen[d]
    <2>1. \/ \E code : Reply(c, code)
          \/ \E label : label \notin {"createMac", "createIp"} /\ Goto(c, label)
      BY <1>8, <1>10 DEF Start, ShutDown, ForceOff, Undefine, DeleteRow, Reject
    <2>2. UNCHANGED seen
      BY <1>10 DEF Start, ShutDown, ForceOff, Undefine, DeleteRow, Reject
    <2>. QED  BY <1>6, <2>1, <2>2
  <1>. QED  BY <1>1, <1>2, <1>3, <1>4, <1>5, <1>7, <1>9, <1>10 DEF Next, Handle

\* Only a draw that finds none left begins to spin.
LEMMA BeginsToSpin ==
    ASSUME [Next]_vars, blocked = {}, blocked' # {}
    PROVE  \E c \in Client :
              \/ pc[c] = "createMac" /\ FreeMac(c) = {}
              \/ pc[c] = "createIp" /\ FreeIp(c) = {}
  <1>1. CASE UNCHANGED vars \/ Crash \/ \E n \in VmName : GuestStops(n)
    BY <1>1 DEF vars, Crash, GuestStops
  <1>2. ASSUME NEW c \in Client
        PROVE  /\ \A label : ~Goto(c, label)
               /\ \A code : ~Reply(c, code)
               /\ ~ReceiveReply(c)
    BY DEF Goto, Reply, Hold, LoopFree, ReceiveReply
  <1>3. ASSUME NEW c \in Client, CreateMac(c) \/ CreateIp(c)
        PROVE  \/ pc[c] = "createMac" /\ FreeMac(c) = {}
               \/ pc[c] = "createIp" /\ FreeIp(c) = {}
    BY <1>2, <1>3 DEF CreateMac, CreateIp
  <1>4. ASSUME NEW c \in Client
        PROVE  /\ ~Receive(c) /\ ~FindOs(c) /\ ~FindMacs(c) /\ ~FindIps(c) /\ ~Prepare(c)
               /\ ~Reserve(c) /\ ~Install(c) /\ ~Insert(c)
               /\ ~Clone(c) /\ ~FindOriginal(c)
    BY <1>2 DEF Receive, FindOs, FindMacs, FindIps, Prepare, Reserve, Install, Insert,
                Clone, FindOriginal, Continue
  <1>5. ASSUME NEW c \in Client
        PROVE  /\ ~Start(c) /\ ~ShutDown(c) /\ ~ForceOff(c) /\ ~Undefine(c) /\ ~DeleteRow(c)
               /\ ~Reject(c)
    BY <1>2 DEF Start, ShutDown, ForceOff, Undefine, DeleteRow, Reject, Continue, Answer
  <1>. QED  BY <1>1, <1>2, <1>3, <1>4, <1>5 DEF Next, Handle

\* Leases stay, and what a loop has read had one.
LEMMA LoopStep ==
    ASSUME "silent" \notin Outcome, LeaseInv, LeasesDiffer, LoopInv, [Next]_vars
    PROVE  LoopInv'
  <1>1. TypeOK /\ reserved \subseteq reserved' /\ reserved' \subseteq Lease
    BY TypeStep, LeasesStep DEF LeaseInv, TypeOK
  <1>2. \A lease \in reserved' : lease.ip \notin InvalidIp
    <2>1. CASE UNCHANGED reserved
      BY <2>1 DEF LoopInv
    <2>2. ASSUME NEW c \in Client, Reserve(c)
          PROVE  \A lease \in reserved' : lease.ip \notin InvalidIp
      BY <2>2 DEF Reserve, Exec, Took, Reservable, LoopInv
    <2>. QED  BY <2>1, <2>2, Writers
  <1>3. ASSUME NEW n \in Rows
        PROVE  /\ rows[n].mac \in {lease.mac : lease \in reserved}
               /\ rows[n].ip \notin InvalidIp
    <2>1. LeaseOf(n) \in reserved
      BY DEF LeaseInv, RowsReserved, LeaseOf
    <2>2. LeaseOf(n).mac = rows[n].mac /\ LeaseOf(n).ip = rows[n].ip
      BY DEF LeaseOf
    <2>. QED  BY <2>1, <2>2 DEF LoopInv
  <1>4. ASSUME NEW d \in Client
        PROVE  SeenOK(d)'
    <2>. SUFFICES ASSUME pc'[d] \in {"createMac", "createIp"} PROVE SeenOK(d)'
      BY DEF SeenOK
    <2>1. CASE pc'[d] = pc[d] /\ seen'[d] = seen[d]
      BY <1>1, <2>1 DEF LoopInv, SeenOK
    <2>2. CASE pc'[d] = "createMac" /\ FindMacs(d)
      <3>1. seen'[d] = {rows[n].mac : n \in Rows}
        BY <1>1, <2>2 DEF FindMacs, TypeOK
      <3>. QED  BY <1>1, <1>3, <2>2, <3>1 DEF SeenOK
    <2>3. CASE pc'[d] = "createIp" /\ FindIps(d)
      <3>1. seen'[d] = {rows[n].ip : n \in Rows}
        BY <1>1, <2>3 DEF FindIps, TypeOK
      <3>. QED  BY <1>3, <2>3, <3>1 DEF SeenOK
    <2>. QED  BY <1>1, <2>1, <2>2, <2>3, SeenStep
  <1>5. ASSUME blocked' # {}
        PROVE  Exhausted'
    <2>1. Exhausted
      <3>1. CASE blocked # {}
        BY <3>1 DEF LoopInv, SpinsOnlyWhenExhausted
      <3>2. CASE blocked = {}
        <4>1. PICK c \in Client :
                 \/ pc[c] = "createMac" /\ FreeMac(c) = {}
                 \/ pc[c] = "createIp" /\ FreeIp(c) = {}
          BY <1>5, <3>2, BeginsToSpin
        <4>2. ~(pc[c] = "createIp" /\ FreeIp(c) = {})
          BY ProvisioningAssumption DEF Assumption, LoopInv, SeenOK, FreeIp
        <4>3. Mac \subseteq {lease.mac : lease \in reserved}
          BY <4>1, <4>2 DEF LoopInv, SeenOK, FreeMac
        <4>. QED  BY <1>1, <4>3 DEF Exhausted, TypeOK, Lease
      <3>. QED  BY <3>1, <3>2
    <2>. QED  BY <1>1, <2>1 DEF Exhausted, Lease
  <1>. QED  BY <1>2, <1>4, <1>5 DEF LoopInv, SpinsOnlyWhenExhausted

\* Where failed commands say so, nothing holds the event loop but a request that
\* no address was left for: rows come and go between a loop's SELECT and its end,
\* or while it has none, but every MAC address it draws against has a lease, which
\* nothing takes back; and the octet 256, never in a row, ends the other loop.
THEOREM OnlyExhaustionHoldsTheLoop ==
    "silent" \notin Outcome => (Spec => []SpinsOnlyWhenExhausted)
  <1>. SUFFICES ASSUME "silent" \notin Outcome
                PROVE  Spec => []SpinsOnlyWhenExhausted
    OBVIOUS
  <1>1. Init => LeaseInv /\ LeasesDiffer /\ LoopInv
    BY LeaseInit DEF Init, LoopInv, SeenOK, SpinsOnlyWhenExhausted
  <1>2. LeaseInv /\ LeasesDiffer /\ LoopInv /\ [Next]_vars
        => (LeaseInv /\ LeasesDiffer /\ LoopInv)'
    BY LeaseInvStep, LeasesStep, LoopStep DEF LeaseInv
  <1>3. LoopInv => SpinsOnlyWhenExhausted
    BY DEF LoopInv
  <1>. QED  BY <1>1, <1>2, <1>3, PTL DEF Spec
=============================================================================
