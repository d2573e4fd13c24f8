-------------------------- MODULE Platform_proofs ---------------------------
(***************************************************************************)
(* Proofs about the two services together.  What is proved of each of them *)
(* alone is taken from its own proofs, instantiated with the variables it  *)
(* has here: a step of the platform is a step of each, or leaves it alone. *)
(***************************************************************************)
EXTENDS Platform, TLAPS

VP == INSTANCE VmMachines_proofs WITH
    pc <- vmPc, call <- vmCall, status <- vmStatus

AP == INSTANCE AuthSessions_proofs WITH
    UserId <- User, owned <- Owned, Deletions <- FALSE,
    pc <- authPc, call <- authCall, user <- authUser, status <- authStatus

\* What each service assumes of its constants.
LEMMA Assumptions == VP!Assumption /\ AP!Assumption
  BY PlatformAssumption
     DEF Vm!Assumption, VP!Assumption, Vm!MachineOp, VP!MachineOp, Vm!Body, VP!Body,
         Vm!Instance, VP!Instance, Vm!Machine, VP!Machine, Vm!Recording, VP!Recording,
         Auth!Assumption, AP!Assumption, Auth!Row, AP!Row, Auth!Identity, AP!Identity,
         Auth!Token, AP!Token, Auth!Entry, AP!Entry, Auth!Body, AP!Body,
         Auth!RegisterBody, AP!RegisterBody, Auth!LoginBody, AP!LoginBody,
         Auth!ChangeBody, AP!ChangeBody, Auth!Malformed, AP!Malformed,
         Auth!TokenBody, AP!TokenBody, Auth!ChangeOp, AP!ChangeOp

\* The two instances of VmProvisioning have the same steps.
LEMMA VmNextIs == Vm!Next <=> VP!Next
  <1>. USE DEF Vm!Goto, VP!Goto, Vm!Reply, VP!Reply, Vm!At, VP!At,
       Vm!Hold, VP!Hold, Vm!LoopFree, VP!LoopFree, Vm!Spin, VP!Spin
  <1>1. ASSUME NEW c \in Client
        PROVE  Vm!Receive(c) <=> VP!Receive(c)
    BY DEF Vm!Receive, VP!Receive, Vm!Body, VP!Body, Vm!MachineOp, VP!MachineOp,
       Vm!Permitted, VP!Permitted, Vm!PipeOp, VP!PipeOp
  <1>2. ASSUME NEW c \in Client
        PROVE  Vm!Handle(c) <=> VP!Handle(c)
    <2>. USE DEF Vm!Continue, VP!Continue, Vm!Answer, VP!Answer, Vm!Exec, VP!Exec,
         Vm!Took, VP!Took, Vm!Domains, VP!Domains, Vm!Off, VP!Off,
         Vm!Running, VP!Running, Vm!Rows, VP!Rows
    <2>1. /\ Vm!FindOs(c) <=> VP!FindOs(c)
          /\ Vm!FindMacs(c) <=> VP!FindMacs(c)
          /\ Vm!FindIps(c) <=> VP!FindIps(c)
          /\ Vm!CreateMac(c) <=> VP!CreateMac(c)
          /\ Vm!CreateIp(c) <=> VP!CreateIp(c)
      BY DEF Vm!FindOs, VP!FindOs, Vm!FindMacs, VP!FindMacs, Vm!FindIps, VP!FindIps,
         Vm!CreateMac, VP!CreateMac, Vm!CreateIp, VP!CreateIp,
         Vm!FreeMac, VP!FreeMac, Vm!FreeIp, VP!FreeIp
    <2>2. Vm!Prepare(c) <=> VP!Prepare(c)
      BY DEF Vm!Prepare, VP!Prepare, Vm!Unused, VP!Unused
    <2>3. Vm!Reserve(c) <=> VP!Reserve(c)
      BY DEF Vm!Reserve, VP!Reserve, Vm!Reservable, VP!Reservable
    <2>4. Vm!Install(c) <=> VP!Install(c)
      BY DEF Vm!Install, VP!Install, Vm!Installable, VP!Installable
    <2>5. Vm!Insert(c) <=> VP!Insert(c)
      BY DEF Vm!Insert, VP!Insert, Vm!Duplicates, VP!Duplicates
    <2>6. Vm!Clone(c) <=> VP!Clone(c)
      BY DEF Vm!Clone, VP!Clone
    <2>7. Vm!FindOriginal(c) <=> VP!FindOriginal(c)
      BY DEF Vm!FindOriginal, VP!FindOriginal
    <2>8. /\ Vm!Start(c) <=> VP!Start(c)
          /\ Vm!ShutDown(c) <=> VP!ShutDown(c)
          /\ Vm!ForceOff(c) <=> VP!ForceOff(c)
      BY DEF Vm!Start, VP!Start, Vm!ShutDown, VP!ShutDown, Vm!ForceOff, VP!ForceOff
    <2>9. /\ Vm!Undefine(c) <=> VP!Undefine(c)
          /\ Vm!DeleteRow(c) <=> VP!DeleteRow(c)
          /\ Vm!ReceiveReply(c) <=> VP!ReceiveReply(c)
      BY DEF Vm!Undefine, VP!Undefine, Vm!DeleteRow, VP!DeleteRow, Vm!ReceiveReply,
         VP!ReceiveReply, Vm!Forget, VP!Forget, Vm!NoPlan, VP!NoPlan
    <2>. QED  BY <2>1, <2>2, <2>3, <2>4, <2>5, <2>6, <2>7, <2>8, <2>9 DEF Vm!Handle, VP!Handle
  <1>3. \A c \in Client : Vm!Reject(c) <=> VP!Reject(c)
    BY DEF Vm!Reject, VP!Reject
  <1>4. Vm!Crash <=> VP!Crash
    BY DEF Vm!Crash, VP!Crash, Vm!Forget, VP!Forget, Vm!NoPlan, VP!NoPlan
  <1>5. \A n \in VmName : Vm!GuestStops(n) <=> VP!GuestStops(n)
    BY DEF Vm!GuestStops, VP!GuestStops, Vm!Running, VP!Running, Vm!Domains, VP!Domains,
       Vm!locals, VP!locals
  <1>. QED  BY <1>1, <1>2, <1>3, <1>4, <1>5 DEF Vm!Next, VP!Next

\* The two instances of AuthSessions have the same steps.
LEMMA AuthStepIs ==
    ASSUME NEW c \in Client
    PROVE  /\ Auth!ReceiveLogin(c) <=> AP!ReceiveLogin(c)
           /\ Auth!ReceiveGuarded(c) <=> AP!ReceiveGuarded(c)
           /\ Auth!Handle(c) <=> AP!Handle(c)
           /\ Auth!ReceiveReply(c) <=> AP!ReceiveReply(c)
           /\ Auth!Reject(c) <=> AP!Reject(c)
           /\ Auth!LoseReply(c) <=> AP!LoseReply(c)
           /\ Auth!Crash <=> AP!Crash
           /\ Auth!Tick <=> AP!Tick
  <1>. USE DEF Auth!Goto, AP!Goto, Auth!Reply, AP!Reply, Auth!ReadOnly, AP!ReadOnly,
       Auth!Arrive, AP!Arrive, Auth!LoginBody, AP!LoginBody, Auth!ChangeBody, AP!ChangeBody,
       Auth!TokenBody, AP!TokenBody, Auth!ChangeOp, AP!ChangeOp, Auth!Malformed, AP!Malformed,
       Auth!WithUsername, AP!WithUsername, Auth!WithEmail, AP!WithEmail,
       Auth!Registered, AP!Registered, Auth!Renamed, AP!Renamed
  <1>1. /\ Auth!ReceiveLogin(c) <=> AP!ReceiveLogin(c)
        /\ Auth!ReceiveGuarded(c) <=> AP!ReceiveGuarded(c)
    BY DEF Auth!ReceiveLogin, AP!ReceiveLogin, Auth!ReceiveGuarded, AP!ReceiveGuarded,
       Auth!Unexpired, AP!Unexpired
  <1>2. /\ Auth!FindByUsername(c) <=> AP!FindByUsername(c)
        /\ Auth!FindByEmail(c) <=> AP!FindByEmail(c)
        /\ Auth!Insert(c) <=> AP!Insert(c)
    BY DEF Auth!FindByUsername, AP!FindByUsername, Auth!FindByEmail, AP!FindByEmail,
       Auth!Insert, AP!Insert, Auth!Duplicates, AP!Duplicates
  <1>3. /\ Auth!ValidateUser(c) <=> AP!ValidateUser(c)
        /\ Auth!CheckSession(c) <=> AP!CheckSession(c)
        /\ Auth!Logout(c) <=> AP!Logout(c)
    BY DEF Auth!ValidateUser, AP!ValidateUser, Auth!CheckSession, AP!CheckSession,
       Auth!Logout, AP!Logout,
       Auth!Accepted, AP!Accepted, Auth!EnterHandler, AP!EnterHandler
  <1>4. /\ Auth!Authorise(c) <=> AP!Authorise(c)
        /\ Auth!CheckConflict(c) <=> AP!CheckConflict(c)
        /\ Auth!Update(c) <=> AP!Update(c)
        /\ Auth!Evict(c) <=> AP!Evict(c)
    BY DEF Auth!Authorise, AP!Authorise, Auth!CheckConflict, AP!CheckConflict, Auth!Update,
       AP!Update, Auth!Evict, AP!Evict,
       Auth!Duplicates, AP!Duplicates, Auth!Amended, AP!Amended
  <1>5. /\ Auth!Sign(c) <=> AP!Sign(c)
        /\ Auth!Store(c) <=> AP!Store(c)
    BY DEF Auth!Sign, AP!Sign, Auth!Store, AP!Store
  <1>6. /\ Auth!ReceiveReply(c) <=> AP!ReceiveReply(c)
        /\ Auth!Tick <=> AP!Tick
    BY DEF Auth!ReceiveReply, AP!ReceiveReply, Auth!Forget, AP!Forget, Auth!Tick, AP!Tick,
       Auth!locals, AP!locals
  <1>7. /\ Auth!Reject(c) <=> AP!Reject(c)
        /\ Auth!LoseReply(c) <=> AP!LoseReply(c)
        /\ Auth!Crash <=> AP!Crash
    BY DEF Auth!Reject, AP!Reject, Auth!LoseReply, AP!LoseReply, Auth!Crash, AP!Crash,
       Auth!Forget, AP!Forget
  <1>. QED  BY <1>1, <1>2, <1>3, <1>4, <1>5, <1>6, <1>7 DEF Auth!Handle, AP!Handle
-----------------------------------------------------------------------------
\* A token found valid is answered with its user.
AnswersNameUser ==
    \A c \in Client : Validated(c) /\ authStatus[c] = 200 => authUser[c] # None

\* No route deletes a user.
EveryoneRegistered == \A u \in User : users[u] \in AP!Row

\* The lists in the sessions come from the table, so its invariants are needed,
\* and with them come those of the auth service.
PlatformInv ==
    /\ AP!TypeOK
    /\ AP!IInv
    /\ EveryoneRegistered
    /\ VP!TypeOK
    /\ VP!RowsListed
    /\ TokensListOwnMachines
    /\ AnswersNameUser

\* The guard of the vm-manager gets a user, and machines that are or were its.
LEMMA SessionKnown ==
    ASSUME PlatformInv, NEW c \in Client, Validated(c), authStatus[c] = 200
    PROVE  authUser[c].id \in User /\ authUser[c].vms \subseteq had[authUser[c].id]
  <1>1. authUser[c] \in AP!Identity /\ authUser[c] # None
    BY DEF PlatformInv, AnswersNameUser, AP!TypeOK
  <1>. QED  BY <1>1 DEF PlatformInv, TokensListOwnMachines, AP!Identity

\* Where the guard lets a request in by its session, VmProvisioning may, too.
LEMMA StepImplements ==
    ASSUME PlatformInv, [Next]_vars
    PROVE  [Vm!Next]_(Vm!vars)
  <1>1. CASE UNCHANGED vmVars
    BY <1>1 DEF vmVars, Vm!vars, Vm!locals
  <1>2. ASSUME NEW c \in Client, Admit(c)
        PROVE  Vm!Receive(c)
    <2>1. PICK u \in User : u = authUser[c].id /\ authUser[c].vms \subseteq had[u]
      BY <1>2, SessionKnown DEF Admit
    <2>2. PICK body \in {b \in Vm!Body : b.op \in Op} :
             /\ vmCall' = [vmCall EXCEPT ![c] = body]
             /\ who' = [who EXCEPT ![c] = authUser[c].id]
             /\ \/ Listed(c, body) /\ Vm!Goto(c, IF body.op = "create" THEN "findOs" ELSE body.op)
                \/ Listed(c, body) /\ body.op \in Vm!PipeOp /\ Vm!Reply(c, 400)
                \/ ~Listed(c, body) /\ Vm!Reply(c, 403)
      BY <1>2 DEF Admit
    <2>. DEFINE Given(v, b) ==
             /\ vmCall' = [vmCall EXCEPT ![c] = b]
             /\ who' = [who EXCEPT ![c] = v]
             /\ \/ Vm!Permitted(v, b) /\ Vm!Goto(c, IF b.op = "create" THEN "findOs" ELSE b.op)
                \/ Vm!Permitted(v, b) /\ b.op \in Vm!PipeOp /\ Vm!Reply(c, 400)
                \/ b.op # "create" /\ Vm!Reply(c, 403)
                \/ \E code \in {401, 500} : Vm!Reply(c, code)
    <2>3. who' = [who EXCEPT ![c] = u]
      BY <2>1, <2>2
    <2>4. /\ Listed(c, body) => Vm!Permitted(u, body)
          /\ ~Listed(c, body) => body.op # "create"
      BY <2>1 DEF Listed, Vm!Permitted
    <2>5. Given(u, body)
      BY <2>2, <2>3, <2>4
    <2>6. /\ Vm!LoopFree /\ vmPc[c] = "idle"
          /\ UNCHANGED <<rows, domains, reserved, had, plan, seen>>
      BY <1>2 DEF Admit
    <2>7. Vm!Receive(c) <=>
           /\ Vm!LoopFree
           /\ vmPc[c] = "idle"
           /\ \E v \in User, b \in {e \in Vm!Body : e.op \in Op} : Given(v, b)
           /\ UNCHANGED <<rows, domains, reserved, had, plan, seen>>
      BY DEF Vm!Receive
    <2>. HIDE DEF Given
    <2>. QED  BY <2>5, <2>6, <2>7
  <1>. QED  BY <1>1, <1>2 DEF Next, vars, AuthRequest, AuthStep, AuthFault, TurnAway, VmStep, Vm!Next

\* What a step does to the table of machines and to the sessions' lists.
LEMMA VmStepped ==
    ASSUME PlatformInv, [Next]_vars
    PROVE  /\ VP!TypeOK' /\ VP!RowsListed'
           /\ \A u \in User : had[u] \subseteq had'[u]
  <1>1. [Vm!Next]_(Vm!vars)
    BY StepImplements
  <1>2. [VP!Next]_(VP!vars)
    BY <1>1, VmNextIs DEF Vm!vars, VP!vars, Vm!locals, VP!locals
  <1>3. VP!TypeOK /\ VP!RowsListed
    BY DEF PlatformInv
  <1>4. VP!TypeOK' /\ VP!RowsListed'
    BY <1>2, <1>3, Assumptions, VP!TypeStep, VP!RowsListedStep
  <1>5. VP!ListsGrow
    BY <1>2, <1>3, Assumptions, VP!HadStep
  <1>. QED  BY <1>4, <1>5 DEF VP!ListsGrow

\* What a login reads changes with the table: for the user whose row is saved
\* or deleted.
LEMMA OwnedStep ==
    ASSUME PlatformInv, [Next]_vars
    PROVE  \/ UNCHANGED Owned
           \/ \E u \in User : Owned' # Owned /\ Owned' = [Owned EXCEPT ![u] = Owned'[u]]
  <1>1. [VP!Next]_(VP!vars)
    <2>1. [Vm!Next]_(Vm!vars)
      BY StepImplements
    <2>. QED  BY <2>1, VmNextIs DEF Vm!vars, VP!vars, Vm!locals, VP!locals
  <1>2. VP!TypeOK /\ rows \in [VmName -> VP!Instance \cup {None}]
    BY DEF PlatformInv, VP!TypeOK
  <1>3. ASSUME NEW u \in User, \A v \in User \ {u} : Owned'[v] = Owned[v]
        PROVE  Owned' = [Owned EXCEPT ![u] = Owned'[u]]
    BY <1>3 DEF Owned
  <1>4. CASE UNCHANGED rows
    BY <1>4 DEF Owned
  <1>5. ASSUME NEW c \in Client, VP!Insert(c), rows' # rows
        PROVE  \E u \in User : \A v \in User \ {u} : Owned'[v] = Owned[v]
    <2>1. /\ plan[c].name \in VmName /\ plan[c].name \notin VP!Rows /\ who[c] \in User
          /\ rows' = [rows EXCEPT ![plan[c].name] =
                         [mac |-> plan[c].mac, ip |-> plan[c].ip, owner |-> who[c]]]
      BY <1>2, <1>5 DEF VP!Insert, VP!At, VP!Duplicates, VP!TypeOK, VP!HandlerOK, VP!Lease
    <2>2. ASSUME NEW v \in User \ {who[c]}, NEW n \in VmName
          PROVE  rows'[n] # None /\ rows'[n].owner = v <=> rows[n] # None /\ rows[n].owner = v
      <3>1. CASE n # plan[c].name
        BY <1>2, <2>1, <3>1
      <3>2. CASE n = plan[c].name
        <4>1. rows[n] = None /\ rows'[n].owner # v
          BY <1>2, <2>1, <2>2, <3>2 DEF VP!Rows
        <4>. QED  BY <4>1
      <3>. QED  BY <3>1, <3>2
    <2>3. \A v \in User \ {who[c]} : Owned'[v] = Owned[v]
      BY <2>2 DEF Owned
    <2>. QED  BY <2>1, <2>3
  <1>6. ASSUME NEW c \in Client, VP!DeleteRow(c), rows' # rows
        PROVE  \E u \in User : \A v \in User \ {u} : Owned'[v] = Owned[v]
    <2>1. PICK n \in VmName : rows' = [rows EXCEPT ![n] = None]
      BY <1>2, <1>6 DEF VP!DeleteRow, VP!At, VP!TypeOK, VP!HandlerOK
    <2>2. rows[n] # None /\ rows[n].owner \in User
      BY <1>2, <1>6, <2>1 DEF VP!Instance
    <2>3. \A v \in User \ {rows[n].owner} : Owned'[v] = Owned[v]
      BY <1>2, <2>1, <2>2 DEF Owned
    <2>. QED  BY <2>2, <2>3
  <1>7. UNCHANGED rows \/ \E c \in Client : VP!Insert(c) \/ VP!DeleteRow(c)
    BY <1>1, Assumptions, VP!Writers
  <1>. QED  BY <1>3, <1>4, <1>5, <1>6, <1>7

\* A step that is not auth's own is what AuthSessions says of its environment.
LEMMA OthersStep ==
    ASSUME PlatformInv, [Next]_vars, UNCHANGED authVars
    PROVE  UNCHANGED AP!vars \/ \E u \in User : Auth!VmRowsChange(u)
  <1>1. CASE UNCHANGED Owned
    BY <1>1 DEF authVars, AP!vars, AP!locals
  <1>2. ASSUME NEW u \in User, Owned' # Owned, Owned' = [Owned EXCEPT ![u] = Owned'[u]]
        PROVE  Auth!VmRowsChange(u)
    <2>1. u \in Auth!Registered
      BY Assumptions DEF PlatformInv, EveryoneRegistered, Auth!Registered, AP!Assumption
    <2>2. Owned'[u] \in SUBSET VmName /\ Owned'[u] # Owned[u]
      BY <1>2 DEF Owned
    <2>. QED  BY <1>2, <2>1, <2>2 DEF Auth!VmRowsChange, Auth!locals, authVars
  <1>. QED  BY <1>1, <1>2, OwnedStep

\* A step of the auth service, by itself or as part of an answer, or of the
\* service whose rows it reads.
LEMMA AuthStepped ==
    ASSUME PlatformInv, [Next]_vars
    PROVE  \/ UNCHANGED AP!vars
           \/ \E c \in Client : Auth!ReceiveLogin(c) \/ Auth!ReceiveGuarded(c) \/ Auth!Handle(c)
           \/ \E u \in User : Auth!VmRowsChange(u)
           \/ (\E c \in Client : Auth!Reject(c) \/ Auth!LoseReply(c)) \/ Auth!Crash
           \/ Auth!Tick
  <1>1. ASSUME UNCHANGED authVars
        PROVE  UNCHANGED AP!vars \/ \E u \in User : Auth!VmRowsChange(u)
    BY <1>1, OthersStep
  <1>2. ASSUME NEW c \in Client, AuthRequest(c) \/ AuthStep(c)
        PROVE  Auth!ReceiveLogin(c) \/ Auth!ReceiveGuarded(c) \/ Auth!Handle(c)
    BY <1>2 DEF AuthRequest, AuthStep
  <1>3. ASSUME NEW c \in Client, Admit(c) \/ TurnAway(c)
        PROVE  Auth!Handle(c) \/ UNCHANGED authVars
    BY <1>3 DEF Admit, TurnAway, Auth!Handle
  <1>. QED  BY <1>1, <1>2, <1>3 DEF Next, vars, VmStep, AuthFault

\* Such a step is one of both instances of AuthSessions.
LEMMA AuthNextIs ==
    ASSUME PlatformInv, [Next]_vars
    PROVE  [Auth!Next]_(Auth!vars) /\ [AP!Next]_(AP!vars)
  <1>1. ASSUME NEW c \in Client, Auth!ReceiveLogin(c) \/ Auth!ReceiveGuarded(c) \/ Auth!Handle(c)
        PROVE  Auth!Next /\ AP!Next
    BY <1>1, AuthStepIs DEF Auth!Next, AP!Next
  <1>2. ASSUME NEW u \in User, Auth!VmRowsChange(u)
        PROVE  Auth!Next /\ AP!Next
    <2>1. AP!VmRowsChange(u)
      BY <1>2 DEF Auth!VmRowsChange, AP!VmRowsChange, Auth!Registered, AP!Registered,
         Auth!locals, AP!locals
    <2>. QED  BY <1>2, <2>1 DEF Auth!Next, AP!Next
  <1>3. ASSUME Auth!Tick
        PROVE  Auth!Next /\ AP!Next
    <2>1. AP!Tick
      BY <1>3 DEF Auth!Tick, AP!Tick, Auth!locals, AP!locals
    <2>. QED  BY <1>3, <2>1 DEF Auth!Next, AP!Next
  <1>4. ASSUME (\E c \in Client : Auth!Reject(c) \/ Auth!LoseReply(c)) \/ Auth!Crash
        PROVE  Auth!Next /\ AP!Next
    <2>1. CASE Auth!Crash
      <3>1. AP!Crash
        BY <2>1 DEF Auth!Crash, AP!Crash, Auth!Forget, AP!Forget
      <3>. QED  BY <2>1, <3>1 DEF Auth!Next, AP!Next
    <2>2. ASSUME NEW c \in Client, Auth!Reject(c) \/ Auth!LoseReply(c)
          PROVE  Auth!Next /\ AP!Next
      BY <2>2, AuthStepIs DEF Auth!Next, AP!Next
    <2>. QED  BY <1>4, <2>1, <2>2
  <1>5. UNCHANGED AP!vars <=> UNCHANGED Auth!vars
    BY DEF AP!vars, Auth!vars, AP!locals, Auth!locals
  <1>. QED  BY <1>1, <1>2, <1>3, <1>4, <1>5, AuthStepped

\* So its invariants are kept beside the vm-manager, too, and nobody is deleted.
LEMMA AuthKept ==
    ASSUME PlatformInv, [Next]_vars
    PROVE  AP!TypeOK' /\ AP!IInv' /\ EveryoneRegistered'
  <1>1. AP!TypeOK /\ AP!IInv /\ EveryoneRegistered
    BY DEF PlatformInv
  <1>2. AP!IInv'
    BY <1>1, AuthNextIs, Assumptions, AP!InvariantStep
  <1>3. AP!TypeOK'
    BY <1>2 DEF AP!IInv
  <1>4. ASSUME UNCHANGED users
        PROVE  EveryoneRegistered'
    BY <1>1, <1>4 DEF EveryoneRegistered
  <1>5. ASSUME NEW c \in Client, AP!Handle(c)
        PROVE  EveryoneRegistered'
    <2>1. CASE AP!Insert(c)
      <3>1. authPc[c] = "insert" /\ authCall[c] \in AP!RegisterBody
        BY <1>1, <2>1 DEF AP!Insert, AP!TypeOK, AP!HandlerOK, AP!RegisterStep
      <3>2. users[authCall[c].id] = None /\ authCall[c].id \in User
        BY <1>1, <3>1 DEF AP!IInv, AP!NewRows, AP!RegisterStep, AP!RegisterBody
      <3>. QED  BY <1>1, <3>2, Assumptions DEF EveryoneRegistered, AP!Assumption
    <2>2. CASE AP!Update(c)
      <3>1. authUser[c].id \in User /\ authCall[c] \in AP!ChangeBody
        BY <1>1, <2>2 DEF AP!Update, AP!TypeOK, AP!HandlerOK, AP!RegisterStep, AP!Identity
      <3>2. users[authUser[c].id] \in AP!Row
        BY <1>1, <3>1 DEF EveryoneRegistered
      <3>3. AP!Amended(users[authUser[c].id], authCall[c]) \in AP!Row
        BY <3>1, <3>2, Assumptions, AP!AmendedRow
      <3>. QED  BY <1>1, <2>2, <3>1, <3>3 DEF AP!Update, EveryoneRegistered, AP!TypeOK
    <2>3. CASE ~AP!Insert(c) /\ ~AP!Update(c)
      BY <1>4, <1>5, <2>3
         DEF AP!Handle, AP!FindByUsername, AP!FindByEmail, AP!ValidateUser, AP!CheckSession,
             AP!Logout, AP!Authorise, AP!CheckConflict, AP!Evict, AP!Sign, AP!Store,
             AP!ReceiveReply, AP!ReadOnly
    <2>. QED  BY <2>1, <2>2, <2>3
  <1>6. ASSUME NEW c \in Client, Auth!ReceiveLogin(c) \/ Auth!ReceiveGuarded(c)
        PROVE  UNCHANGED users
    BY <1>6, AuthStepIs DEF AP!ReceiveLogin, AP!ReceiveGuarded, AP!Arrive
  <1>7. ASSUME \/ UNCHANGED AP!vars \/ (\E u \in User : Auth!VmRowsChange(u)) \/ Auth!Tick
               \/ (\E c \in Client : Auth!Reject(c) \/ Auth!LoseReply(c)) \/ Auth!Crash
        PROVE  UNCHANGED users
    BY <1>7 DEF AP!vars, Auth!VmRowsChange, Auth!Tick, Auth!Reject, Auth!ReadOnly, Auth!LoseReply,
       Auth!Crash
  <1>8. EveryoneRegistered'
    BY <1>4, <1>5, <1>6, <1>7, AuthStepped, AuthStepIs
  <1>. QED  BY <1>2, <1>3, <1>8

\* Only validateToken's own answer, with the user the guard has set, is a 200.
LEMMA AnswersStep ==
    ASSUME PlatformInv, [Next]_vars
    PROVE  AnswersNameUser'
  <1>1. AP!TypeOK
    BY DEF PlatformInv
  <1>2. CASE UNCHANGED <<authPc, authCall, authUser, authStatus>>
    BY <1>2 DEF PlatformInv, AnswersNameUser, Validated
  <1>3. ASSUME NEW d \in Client, AP!ReceiveLogin(d) \/ AP!ReceiveGuarded(d)
        PROVE  AnswersNameUser'
    <2>1. /\ \A c \in Client \ {d} :
                /\ authPc'[c] = authPc[c] /\ authCall'[c] = authCall[c]
                /\ authStatus'[c] = authStatus[c]
          /\ authPc'[d] = "reply" => authStatus'[d] \in {401, 403, 500}
          /\ UNCHANGED authUser
      BY <1>1, <1>3 DEF AP!ReceiveLogin, AP!ReceiveGuarded, AP!Arrive, AP!TypeOK
    <2>. QED  BY <2>1 DEF PlatformInv, AnswersNameUser, Validated
  <1>4. ASSUME NEW d \in Client, AP!Handle(d)
        PROVE  /\ \A c \in Client \ {d} :
                     /\ authPc'[c] = authPc[c] /\ authCall'[c] = authCall[c]
                     /\ authStatus'[c] = authStatus[c] /\ authUser'[c] = authUser[c]
               /\ authPc'[d] = "reply" /\ authStatus'[d] = 200 /\ authCall'[d].op = "validateToken"
                  => authUser'[d] # None
    <2>. USE DEF AP!Goto, AP!Reply, AP!ReadOnly
    <2>1. CASE AP!FindByUsername(d) \/ AP!FindByEmail(d) \/ AP!Insert(d)
      BY <1>1, <2>1 DEF AP!FindByUsername, AP!FindByEmail, AP!Insert, AP!TypeOK
    <2>2. CASE AP!ValidateUser(d)
      BY <1>1, <2>2 DEF AP!ValidateUser, AP!TypeOK
    <2>3. CASE AP!CheckSession(d)
      <3>1. held[d].user \in AP!Identity
        BY <1>1, <2>3 DEF AP!CheckSession, AP!TypeOK, AP!HandlerOK, AP!Token
      <3>2. None \notin AP!Identity
        BY Assumptions DEF AP!Assumption
      <3>. QED  BY <1>1, <2>3, <3>1, <3>2 DEF AP!CheckSession, AP!EnterHandler, AP!TypeOK
    <2>4. CASE AP!Logout(d) \/ AP!Authorise(d) \/ AP!CheckConflict(d) \/ AP!Update(d) \/ AP!Evict(d)
      BY <1>1, <2>4 DEF AP!Logout, AP!Authorise, AP!CheckConflict, AP!Update, AP!Evict, AP!TypeOK
    <2>5. CASE AP!Sign(d)
      BY <1>1, <2>5 DEF AP!Sign, AP!TypeOK
    <2>6. CASE AP!Store(d)
      <3>1. authCall[d] \in AP!LoginBody \cup AP!ChangeBody
        BY <1>1, <2>6 DEF AP!Store, AP!TypeOK, AP!HandlerOK
      <3>2. authCall[d].op # "validateToken"
        BY <3>1 DEF AP!LoginBody, AP!ChangeBody
      <3>. QED  BY <1>1, <2>6, <3>2 DEF AP!Store, AP!TypeOK
    <2>7. CASE AP!ReceiveReply(d)
      BY <1>1, <2>7 DEF AP!ReceiveReply, AP!Forget, AP!TypeOK
    <2>. QED  BY <1>4, <2>1, <2>2, <2>3, <2>4, <2>5, <2>6, <2>7 DEF AP!Handle
  <1>5. ASSUME NEW d \in Client, AP!Handle(d)
        PROVE  AnswersNameUser'
    BY <1>4, <1>5 DEF PlatformInv, AnswersNameUser, Validated
  <1>6. CASE UNCHANGED vars \/ \E d \in Client : TurnAway(d) \/ VmStep(d) \/ Admit(d)
    <2>1. ASSUME NEW d \in Client, Auth!ReceiveReply(d)
          PROVE  AnswersNameUser'
      BY <1>5, <2>1, AuthStepIs DEF AP!Handle
    <2>. QED  BY <1>2, <1>6, <2>1 DEF vars, authVars, TurnAway, VmStep, Admit
  <1>7. ASSUME Auth!Tick
        PROVE  AnswersNameUser'
    BY <1>2, <1>7 DEF Auth!Tick, Auth!locals
  <1>8. ASSUME NEW d \in Client, AP!Reject(d)
        PROVE  AnswersNameUser'
    <2>1. /\ \A c \in Client \ {d} : authPc'[c] = authPc[c] /\ authStatus'[c] = authStatus[c]
          /\ authStatus'[d] = 500
          /\ UNCHANGED <<authCall, authUser>>
      BY <1>1, <1>8 DEF AP!Reject, AP!Reply, AP!ReadOnly, AP!TypeOK
    <2>. QED  BY <2>1 DEF PlatformInv, AnswersNameUser, Validated
  <1>9. ASSUME (\E d \in Client : AP!LoseReply(d)) \/ AP!Crash
        PROVE  AnswersNameUser'
    <2>1. \A c \in Client :
             \/ authPc'[c] = "idle"
             \/ /\ authPc'[c] = authPc[c] /\ authCall'[c] = authCall[c]
                /\ authStatus'[c] = authStatus[c] /\ authUser'[c] = authUser[c]
      BY <1>9 DEF AP!LoseReply, AP!Crash, AP!Forget
    <2>. QED  BY <2>1 DEF PlatformInv, AnswersNameUser, Validated
  <1>10. CASE AuthFault
    <2>1. CASE Auth!Crash
      <3>1. AP!Crash
        BY <2>1 DEF Auth!Crash, AP!Crash, Auth!Forget, AP!Forget
      <3>. QED  BY <1>9, <3>1
    <2>. QED  BY <1>8, <1>9, <1>10, <2>1, AuthStepIs DEF AuthFault
  <1>. QED  BY <1>2, <1>3, <1>5, <1>6, <1>7, <1>10, AuthStepIs
            DEF Next, AuthRequest, AuthStep, authVars

\* A list in a session is read off the table, copied, or as it was.
LEMMA TokensStep ==
    ASSUME PlatformInv, [Next]_vars
    PROVE  TokensListOwnMachines'
  <1>. DEFINE Kept(identity) == identity.vms \subseteq had'[identity.id]
              UsersKept == \A c \in Client : authUser'[c] # None => Kept(authUser'[c])
              HeldKept == \A c \in Client : held'[c] # None => Kept(held'[c].user)
              FreshKept == \A c \in Client : fresh'[c] # None => Kept(fresh'[c].user)
              CacheKept == \A u \in User : cache'[u] # None => Kept(cache'[u].token.user)
  <1>1. SUFFICES UsersKept /\ HeldKept /\ FreshKept /\ CacheKept
    BY DEF TokensListOwnMachines
  <1>2. AP!TypeOK /\ \A u \in User : had[u] \subseteq had'[u]
    BY VmStepped DEF PlatformInv
  <1>3. /\ \A c \in Client : authUser[c] # None => Kept(authUser[c])
        /\ \A c \in Client : held[c] # None => Kept(held[c].user)
        /\ \A c \in Client : fresh[c] # None => Kept(fresh[c].user)
        /\ \A u \in User : cache[u] # None => Kept(cache[u].token.user)
    <2>1. /\ \A c \in Client : authUser[c] # None => authUser[c].id \in User
          /\ \A c \in Client : held[c] # None => held[c].user.id \in User
          /\ \A c \in Client : fresh[c] # None => fresh[c].user.id \in User
          /\ \A u \in User : cache[u] # None => cache[u].token.user.id \in User
      BY <1>2 DEF AP!TypeOK, AP!Identity, AP!Token, AP!Entry
    <2>. QED  BY <1>2, <2>1 DEF PlatformInv, TokensListOwnMachines
  <1>. HIDE DEF Kept
  <1>4. ASSUME NEW d \in Client, AP!CheckSession(d)
        PROVE  UsersKept
    <2>1. held[d] # None
      <3>1. held[d] \in AP!Token
        BY <1>2, <1>4 DEF AP!CheckSession, AP!TypeOK, AP!HandlerOK
      <3>. QED  BY <3>1, Assumptions DEF AP!Assumption
    <2>. QED  BY <1>2, <1>3, <1>4, <2>1 DEF AP!CheckSession, AP!TypeOK
  <1>5. ASSUME NEW d \in Client, AP!ValidateUser(d)
        PROVE  UsersKept
    <2>1. \A u \in User : Owned[u] \subseteq had'[u]
      <3>1. \A u \in User : Owned[u] \subseteq had[u]
        BY DEF Owned, PlatformInv, VP!RowsListed, VP!Rows
      <3>. QED  BY <1>2, <3>1
    <2>2. \/ UNCHANGED authUser
          \/ \E u \in User : /\ authUser' = [authUser EXCEPT ![d] = authUser'[d]]
                            /\ authUser'[d].id = u /\ authUser'[d].vms = Owned[u]
      BY <1>2, <1>5 DEF AP!ValidateUser, AP!WithUsername, AP!Registered, AP!TypeOK
    <2>3. CASE UNCHANGED authUser
      BY <1>3, <2>3
    <2>4. ASSUME NEW u \in User, authUser' = [authUser EXCEPT ![d] = authUser'[d]],
                 authUser'[d].id = u, authUser'[d].vms = Owned[u]
          PROVE  UsersKept
      <3>1. Kept(authUser'[d])
        BY <2>1, <2>4 DEF Kept
      <3>. QED  BY <1>2, <1>3, <2>4, <3>1 DEF AP!TypeOK
    <2>. QED  BY <2>2, <2>3, <2>4
  <1>6. ASSUME NEW d \in Client, AP!Sign(d)
        PROVE  FreshKept
    <2>1. /\ authUser[d] \in AP!Identity /\ authUser[d] # None
          /\ authCall[d] \in AP!LoginBody \cup AP!ChangeBody
      BY <1>2, <1>6, Assumptions DEF AP!Sign, AP!TypeOK, AP!HandlerOK, AP!Assumption
    <2>2. /\ AP!Renamed(authUser[d], authCall[d]).id = authUser[d].id
          /\ AP!Renamed(authUser[d], authCall[d]).vms = authUser[d].vms
      BY <2>1 DEF AP!Renamed, AP!Identity
    <2>3. Kept(AP!Renamed(authUser[d], authCall[d]))
      BY <1>3, <2>1, <2>2 DEF Kept
    <2>. QED  BY <1>2, <1>3, <1>6, <2>3 DEF AP!Sign, AP!TypeOK
  <1>7. ASSUME NEW d \in Client, AP!Store(d)
        PROVE  CacheKept
    <2>1. fresh[d] # None /\ authUser[d].id \in User
      BY <1>2, <1>7, Assumptions DEF AP!Store, AP!TypeOK, AP!HandlerOK, AP!Assumption, AP!Identity
    <2>. QED  BY <1>2, <1>3, <1>7, <2>1 DEF AP!Store, AP!TypeOK
  <1>8. ASSUME NEW d \in Client, AP!Logout(d) \/ AP!Evict(d)
        PROVE  CacheKept
    BY <1>2, <1>3, <1>8 DEF AP!Logout, AP!Evict, AP!TypeOK
  <1>9. ASSUME NEW d \in Client, AP!ReceiveReply(d)
        PROVE  UsersKept /\ HeldKept /\ FreshKept /\ CacheKept
    BY <1>2, <1>3, <1>9 DEF AP!ReceiveReply, AP!Forget, AP!TypeOK
  <1>10. ASSUME AP!Tick
         PROVE  UsersKept /\ HeldKept /\ FreshKept /\ CacheKept
    BY <1>3, <1>10 DEF AP!Tick, AP!locals
  <1>11. CASE UNCHANGED authVars
    BY <1>3, <1>11 DEF authVars
  <1>12. ASSUME NEW d \in Client, AP!ReceiveLogin(d) \/ AP!ReceiveGuarded(d)
         PROVE  UsersKept /\ HeldKept /\ FreshKept /\ CacheKept
    BY <1>3, <1>12 DEF AP!ReceiveLogin, AP!ReceiveGuarded, AP!Arrive
  <1>13. ASSUME NEW d \in Client, AP!Handle(d)
         PROVE  UsersKept /\ HeldKept /\ FreshKept /\ CacheKept
    BY <1>3, <1>4, <1>5, <1>6, <1>7, <1>8, <1>9, <1>13
       DEF AP!Handle, AP!FindByUsername, AP!FindByEmail, AP!Insert, AP!ValidateUser,
           AP!CheckSession, AP!Logout, AP!Authorise, AP!CheckConflict, AP!Update,
           AP!Evict, AP!Sign, AP!Store, AP!ReadOnly
  <1>. HIDE DEF UsersKept, HeldKept, FreshKept, CacheKept
  <1>14. ASSUME NEW d \in Client, AuthRequest(d) \/ AuthStep(d) \/ Auth!ReceiveReply(d)
         PROVE  UsersKept /\ HeldKept /\ FreshKept /\ CacheKept
    BY <1>9, <1>12, <1>13, <1>14, AuthStepIs DEF AuthRequest, AuthStep
  <1>15. ASSUME Auth!Tick
         PROVE  UsersKept /\ HeldKept /\ FreshKept /\ CacheKept
    BY <1>10, <1>15 DEF Auth!Tick, AP!Tick, Auth!locals, AP!locals
  <1>16. CASE AuthFault
    <2>1. ASSUME NEW d \in Client, Auth!Reject(d)
          PROVE  UsersKept /\ HeldKept /\ FreshKept /\ CacheKept
      BY <1>3, <2>1 DEF Auth!Reject, Auth!ReadOnly, UsersKept, HeldKept, FreshKept, CacheKept
    <2>2. ASSUME (\E d \in Client : Auth!LoseReply(d)) \/ Auth!Crash
          PROVE  UsersKept /\ HeldKept /\ FreshKept /\ CacheKept
      BY <1>3, <2>2 DEF Auth!LoseReply, Auth!Crash, Auth!Forget,
         UsersKept, HeldKept, FreshKept, CacheKept
    <2>. QED  BY <1>16, <2>1, <2>2 DEF AuthFault
  <1>. QED  BY <1>11, <1>14, <1>15, <1>16 DEF Next, vars, Admit, TurnAway, VmStep

\* The invariant is inductive.
LEMMA PlatformStep == PlatformInv /\ [Next]_vars => PlatformInv'
  BY VmStepped, AuthKept, AnswersStep, TokensStep DEF PlatformInv

\* It holds when both services start.
LEMMA PlatformInit == Init => PlatformInv /\ Vm!Init
  <1>. SUFFICES ASSUME Init PROVE PlatformInv
    BY DEF Init
  <1>1. VP!Init
    BY DEF Init, Vm!Init, VP!Init, Vm!NoPlan, VP!NoPlan
  <1>2. VP!TypeOK /\ VP!RowsListed
    BY <1>1, Assumptions, VP!TypeInit, VP!NamesInit DEF VP!NamesOwned
  <1>3. AP!TypeOK
    <2>1. Owned \in [User -> SUBSET VmName]
      BY DEF Owned
    <2>2. users \in [User -> AP!Row]
      BY DEF Init, Auth!Row, AP!Row
    <2>. QED  BY <2>1, <2>2 DEF Init, AP!TypeOK, AP!HandlerOK, AP!RegisterStep, AP!Label
  <1>4. TokensListOwnMachines /\ AnswersNameUser
    BY DEF Init, TokensListOwnMachines, AnswersNameUser, Validated
  <1>5. AP!IInv /\ EveryoneRegistered
    <2>1. \A u \in User : users[u] \in AP!Row
      BY DEF Init, Auth!Row, AP!Row
    <2>2. AP!UniqueAccounts
      BY DEF Init, AP!UniqueAccounts, AP!Registered
    <2>3. AP!IdentitiesTraceable /\ AP!SessionCoversToken /\ AP!NewRows
      BY DEF Init, AP!IdentitiesTraceable, AP!SessionCoversToken, AP!NewRows, AP!RegisterStep
    <2>. QED  BY <1>3, <2>1, <2>2, <2>3 DEF EveryoneRegistered, AP!IInv
  <1>. QED  BY <1>2, <1>3, <1>4, <1>5 DEF PlatformInv

\* A session lists only machines that are or were its user's, however old it is
\* and whatever create and destroy did since login copied the list.
THEOREM SessionsListOwnMachines == Spec => []TokensListOwnMachines
  <1>1. PlatformInv => TokensListOwnMachines
    BY DEF PlatformInv
  <1>. QED  BY <1>1, PlatformInit, PlatformStep, PTL DEF Spec

\* Guarded by sessions, the vm-manager takes only steps that VmProvisioning allows
\* it with any list of machines the user has or has had: the bound it puts on
\* the token is one the auth service keeps.
THEOREM PlatformImplementsProvisioning == Spec => VmSpec
  BY PlatformInit, PlatformStep, StepImplements, PTL DEF Spec, VmSpec, Vm!Spec

\* Beside the vm-manager, whatever that creates, fails at or deletes, the auth
\* service takes only steps that AuthSessions allows it: the bound AuthSessions
\* puts on its environment, one registered user's machines at a time, is one the
\* vm-manager keeps.
THEOREM PlatformImplementsSessions == Spec => AuthSteps
  <1>1. PlatformInv /\ [Next]_vars =>
           [IF UNCHANGED authVars THEN \E u \in User : Auth!VmRowsChange(u)
                                  ELSE Auth!Next]_(Auth!vars)
    <2>1. UNCHANGED AP!vars <=> UNCHANGED Auth!vars
      BY DEF AP!vars, Auth!vars, AP!locals, Auth!locals
    <2>. QED  BY <2>1, OthersStep, AuthNextIs
  <1>. QED  BY <1>1, PlatformInit, PlatformStep, PTL DEF Spec, AuthSteps

\* So accounts stay unique and sessions outlive their tokens there, too.
THEOREM PlatformKeepsAccounts == Spec => []AP!UniqueAccounts /\ []AP!SessionCoversToken
  <1>1. PlatformInv => AP!UniqueAccounts /\ AP!SessionCoversToken
    BY DEF PlatformInv, AP!IInv
  <1>. QED  BY <1>1, PlatformInit, PlatformStep, PTL DEF Spec

\* What VmProvisioning does the platform does, in the words of its proofs.
LEMMA ProvisioningDone == Spec => VP!Spec
  <1>1. Vm!Init => VP!Init
    BY DEF Vm!Init, VP!Init, Vm!NoPlan, VP!NoPlan
  <1>2. [Vm!Next]_(Vm!vars) => [VP!Next]_(VP!vars)
    BY VmNextIs DEF Vm!vars, VP!vars, Vm!locals, VP!locals
  <1>. QED  BY <1>1, <1>2, PlatformImplementsProvisioning, PTL DEF VmSpec, Vm!Spec, VP!Spec

\* With sessions of the auth service, too, no request starts, stops or removes a
\* machine that is recorded as another user's, as long as users clone machines of
\* their own.
THEOREM PlatformLeavesOthersMachines ==
    Spec /\ []VP!ClonesAreOwn => VP!OthersMachinesUntouched
  <1>1. VP!Spec /\ []VP!ClonesAreOwn => VP!OthersMachinesUntouched
    BY Assumptions, VP!NobodyTouchesOthersMachines
  <1>. QED  BY <1>1, ProvisioningDone, PTL

\* And from login to libvirt the platform is what Machines promises, where failed
\* commands say so and nothing is cloned.
THEOREM PlatformImplementsMachines ==
    "silent" \notin Outcome /\ "clone" \notin Op => (Spec => VP!MachinesSpec)
  <1>. SUFFICES ASSUME "silent" \notin Outcome, "clone" \notin Op
                PROVE  Spec => VP!MachinesSpec
    OBVIOUS
  <1>1. VP!Spec => VP!MachinesSpec
    BY Assumptions, VP!MachinesImplemented
  <1>. QED  BY <1>1, ProvisioningDone
=============================================================================
