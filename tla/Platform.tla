------------------------------ MODULE Platform ------------------------------
(***************************************************************************)
(* The auth service and the vm-manager together.  They share the database: *)
(* a login copies the names of the user's rows of vm_instances into its    *)
(* token.  And the vm-manager asks auth to validate the token of each      *)
(* request, and takes the user, and the machines it may act on, from the   *)
(* answer: a session of AuthSessions in place of the lists VmProvisioning  *)
(* only bounds by what the user ever had.                                  *)
(***************************************************************************)
EXTENDS Naturals, FiniteSets

CONSTANTS
    User, Client, Username, Email, Password, VmName, Mac, Ip, InvalidIp,
    Lifespan, MaxTime,
    AuthOp,         \* the requests sent to the auth service
    Op,             \* the requests sent to the vm-manager
    Outcome,
    Faults,         \* TRUE: awaited calls reject, answers are lost, both services crash
    None, Deleted

VARIABLES
    users, cache, now, held, authPc, authCall, authUser, fresh, authStatus,
    rows, domains, reserved, had, blocked, vmPc, vmCall, who, plan, seen, vmStatus

authVars == <<users, cache, now, held, authPc, authCall, authUser, fresh, authStatus>>
vmVars == <<rows, domains, reserved, had, blocked, vmPc, vmCall, who, plan, seen, vmStatus>>
vars == <<authVars, vmVars>>

\* Broken form: the query has lost its WHERE clause.
OwnedByAnybody == [u \in User |-> {n \in VmName : rows[n] # None}]

\* SELECT ... WHERE user: what a login reads of vm_instances.
Owned == [u \in User |-> {n \in VmName : rows[n] # None /\ rows[n].owner = u}]

\* No route deletes a user.
Auth == INSTANCE AuthSessions WITH
    UserId <- User, owned <- Owned, Deletions <- FALSE,
    pc <- authPc, call <- authCall, user <- authUser, status <- authStatus

Vm == INSTANCE VmProvisioning WITH
    pc <- vmPc, call <- vmCall, status <- vmStatus

\* Both services as they start; the users have registered before.
Init ==
    /\ users \in {dir \in [User -> Auth!Row] : \A u, v \in User :
                     u # v => dir[u].username # dir[v].username /\ dir[u].email # dir[v].email}
    /\ cache = [u \in User |-> None]
    /\ now = 0
    /\ held = [c \in Client |-> None]
    /\ authPc = [c \in Client |-> "idle"]
    /\ authCall = [c \in Client |-> None]
    /\ authUser = [c \in Client |-> None]
    /\ fresh = [c \in Client |-> None]
    /\ authStatus = [c \in Client |-> None]
    /\ Vm!Init

\* A client sends one request at a time.
Idle(c) == authPc[c] = "idle" /\ vmPc[c] = "idle"

\* A request to the auth service; validateToken is also the call the
\* vm-manager's guard makes with the token of a request it has received.
AuthRequest(c) ==
    /\ Idle(c)
    /\ UNCHANGED vmVars
    /\ Auth!ReceiveLogin(c) \/ Auth!ReceiveGuarded(c)
    /\ authCall'[c].op \in AuthOp

AuthStep(c) ==
    /\ UNCHANGED vmVars
    /\ Auth!Handle(c)

\* A query of auth rejects, its answer is lost, or it restarts; the vm-manager
\* goes on with the answers it has.
AuthFault ==
    /\ UNCHANGED vmVars
    /\ Auth!Crash \/ \E c \in Client : Auth!Reject(c) \/ Auth!LoseReply(c)

\* Broken form: it is enough that the machine is recorded.
RecordedIsEnough(c, body) == body.op # "create" => rows[body.vmName] # None

\* PermissionsGuard looks the machine up in the validated token.
Listed(c, body) == body.op # "create" => body.vmName \in authUser[c].vms

\* The vm-manager has auth's answer about the token of c.
Validated(c) == authPc[c] = "reply" /\ authCall[c].op = "validateToken"

\* It is the session's user: the request is let in for that user and that
\* user's machines, and its body validated, or it is forbidden.
Admit(c) ==
    /\ Validated(c) /\ authStatus[c] = 200
    /\ Vm!LoopFree /\ vmPc[c] = "idle"
    /\ \E body \in {b \in Vm!Body : b.op \in Op} :
          /\ vmCall' = [vmCall EXCEPT ![c] = body]
          /\ who' = [who EXCEPT ![c] = authUser[c].id]
          /\ \/ Listed(c, body) /\ Vm!Goto(c, IF body.op = "create" THEN "findOs" ELSE body.op)
             \/ Listed(c, body) /\ body.op \in Vm!PipeOp /\ Vm!Reply(c, 400)
             \/ ~Listed(c, body) /\ Vm!Reply(c, 403)
    /\ UNCHANGED <<rows, domains, reserved, had, plan, seen>>
    /\ Auth!ReceiveReply(c)

\* Without a bearer token it does not ask auth; when auth does not answer, or
\* refuses the token, the call rejects.
TurnAway(c) ==
    /\ Vm!Receive(c)
    /\ \/ Idle(c) /\ vmStatus'[c] = (IF held[c] = None THEN 401 ELSE 500) /\ UNCHANGED authVars
       \/ Validated(c) /\ authStatus[c] # 200 /\ vmStatus'[c] = 500 /\ Auth!ReceiveReply(c)

VmStep(c) ==
    /\ UNCHANGED authVars
    /\ Vm!Handle(c) \/ Vm!Reject(c)

Next ==
    \/ \E c \in Client :
          AuthRequest(c) \/ AuthStep(c) \/ Admit(c) \/ TurnAway(c) \/ VmStep(c)
    \/ AuthFault
    \/ UNCHANGED vmVars /\ Auth!Tick
    \/ UNCHANGED authVars /\ (Vm!Crash \/ \E n \in VmName : Vm!GuestStops(n))

Spec == Init /\ [][Next]_vars
-----------------------------------------------------------------------------
ASSUME PlatformAssumption == Auth!Assumption /\ Vm!Assumption

(***************************************************************************)
(* Properties                                                              *)
(***************************************************************************)
\* A session, wherever a copy of it is, lists machines that are or were its
\* user's, however old the copy is and whatever was created and destroyed since.
TokensListOwnMachines ==
    LET OK(identity) == identity.vms \subseteq had[identity.id]
    IN  /\ \A c \in Client :
              /\ authUser[c] # None => OK(authUser[c])
              /\ held[c] # None => OK(held[c].user)
              /\ fresh[c] # None => OK(fresh[c].user)
        /\ \A u \in User : cache[u] # None => OK(cache[u].token.user)

\* With sessions of the auth service the vm-manager does only what it may with
\* any list of machines the user has or has had.
VmSpec == Vm!Spec

\* And beside the vm-manager the auth service takes only steps that AuthSessions
\* allows it; what is not a step of its own changes the machines of one user, a
\* registered one, and nothing else that auth reads.
AuthSteps ==
    [][IF UNCHANGED authVars THEN \E u \in User : Auth!VmRowsChange(u)
                             ELSE Auth!Next]_(Auth!vars)
=============================================================================
