------------------------ MODULE AuthSessions_proofs -------------------------
(***************************************************************************)
(* Proofs about the auth service, for any number of clients, users, names  *)
(* and passwords, any lifespan, with and without faults and deletions.     *)
(***************************************************************************)
EXTENDS AuthSessions, TLAPS

\* Renaming keeps the type and the id of a session user.
LEMMA RenamedIdentity ==
    ASSUME NEW identity \in Identity, NEW body \in LoginBody \cup ChangeBody
    PROVE  Renamed(identity, body) \in Identity /\ Renamed(identity, body).id = identity.id
  <1>1. CASE body.op = "changeUsername"
    BY <1>1 DEF Renamed, LoginBody, ChangeBody, Identity
  <1>2. CASE body.op = "changeEmail"
    BY <1>2 DEF Renamed, LoginBody, ChangeBody, Identity
  <1>3. CASE body.op \notin {"changeUsername", "changeEmail"}
    BY <1>3 DEF Renamed
  <1>. QED  BY <1>1, <1>2, <1>3

\* What a change-* request makes of a row is a row.
LEMMA AmendedRow ==
    ASSUME NEW row \in Row, NEW body \in ChangeBody
    PROVE  Amended(row, body) \in Row
  <1>1. CASE body.op = "changeUsername"
    BY <1>1 DEF Amended, Renamed, ChangeBody, Row
  <1>2. CASE body.op = "changeEmail"
    BY <1>2 DEF Amended, Renamed, ChangeBody, Row
  <1>3. CASE body.op = "changePassword"
    BY <1>3 DEF Amended, Renamed, ChangeBody, Row
  <1>. QED  BY <1>1, <1>2, <1>3 DEF ChangeBody

\* The initial state is well typed.
LEMMA TypeInit == Init => TypeOK
  BY AuthAssumption DEF Init, TypeOK, HandlerOK, RegisterStep, Label

\* The steps of a registration keep the types.
LEMMA RegisterType ==
    ASSUME TypeOK, NEW c \in Client,
           ReceiveRegister(c) \/ FindByUsername(c) \/ FindByEmail(c) \/ Insert(c)
    PROVE  TypeOK'
  <1>1. CASE ReceiveRegister(c)
    <2>1. PICK body \in RegisterBody \cup Malformed, l \in {"findByUsername", "reply"}, code \in {None, 400} :
             /\ Arrive(c, body, l, code)
             /\ l = "findByUsername" => body \in RegisterBody
      BY <1>1 DEF ReceiveRegister, Malformed
    <2>. QED  BY <2>1 DEF TypeOK, HandlerOK, RegisterStep, Arrive, Label, Body
  <1>2. CASE FindByUsername(c)
    BY <1>2 DEF FindByUsername, TypeOK, HandlerOK, RegisterStep, Reply, Goto, ReadOnly, Label
  <1>3. CASE FindByEmail(c)
    BY <1>3 DEF FindByEmail, TypeOK, HandlerOK, RegisterStep, Reply, Goto, ReadOnly, Label
  <1>4. CASE Insert(c)
    <2>1. users' \in [UserId -> Row \cup {None, Deleted}]
      BY <1>4 DEF Insert, TypeOK, HandlerOK, RegisterStep, RegisterBody, Row
    <2>. QED  BY <1>4, <2>1 DEF Insert, TypeOK, HandlerOK, RegisterStep, Reply, Label
  <1>. QED  BY <1>1, <1>2, <1>3, <1>4

\* So do those of a login, up to the token it signs.
LEMMA LoginType ==
    ASSUME TypeOK, NEW c \in Client, ReceiveLogin(c) \/ ValidateUser(c)
    PROVE  TypeOK'
  <1>1. CASE ReceiveLogin(c)
    <2>1. PICK body \in LoginBody \cup Malformed, l \in {"validateUser", "reply"}, code \in {None, 403} :
             /\ Arrive(c, body, l, code)
             /\ l = "validateUser" => body \in LoginBody
      BY <1>1 DEF ReceiveLogin, Malformed
    <2>. QED  BY <2>1 DEF TypeOK, HandlerOK, RegisterStep, Arrive, Label, Body
  <1>2. CASE ValidateUser(c)
    <2>1. user' \in [Client -> Identity \cup {None}]
      BY <1>2 DEF ValidateUser, TypeOK, Identity, Row, WithUsername, Registered
    <2>2. pc'[c] = "sign" => user'[c] \in Identity
      BY <1>2 DEF ValidateUser, TypeOK, Identity, Row, WithUsername, Registered, Goto, Reply
    <2>3. \A d \in Client \ {c} : user'[d] = user[d]
      BY <1>2 DEF ValidateUser, TypeOK
    <2>4. pc'[c] \in {"sign", "reply"} /\ call[c] \in LoginBody
      BY <1>2 DEF ValidateUser, Goto, Reply, TypeOK, HandlerOK, RegisterStep
    <2>5. pc' \in [Client -> Label] /\ (\A d \in Client \ {c} : pc'[d] = pc[d])
      BY <1>2 DEF ValidateUser, Goto, Reply, TypeOK, Label, RegisterStep
    <2>6. status' \in [Client -> {200, 201, 204, 400, 401, 403, 404, 409, 500, None}]
      BY <1>2 DEF ValidateUser, Goto, Reply, TypeOK
    <2>7. UNCHANGED <<users, owned, cache, now, held, call, fresh>>
      BY <1>2 DEF ValidateUser
    <2>8. \A d \in Client : HandlerOK(d)'
      BY <2>2, <2>3, <2>4, <2>5, <2>7 DEF TypeOK, HandlerOK, RegisterStep
    <2>. QED  BY <2>1, <2>5, <2>6, <2>7, <2>8 DEF TypeOK
  <1>. QED  BY <1>1, <1>2

\* The guard, and logout behind it, keep the types.
LEMMA GuardType ==
    ASSUME TypeOK, NEW c \in Client, ReceiveGuarded(c) \/ CheckSession(c) \/ Logout(c)
    PROVE  TypeOK'
  <1>1. CASE ReceiveGuarded(c)
    <2>1. PICK body \in ChangeBody \cup TokenBody \cup [op : ChangeOp],
               l \in {"guard", "reply"}, code \in {None, 401, 500} :
             /\ Arrive(c, body, l, code)
             /\ l = "guard" => held[c] # None
      BY <1>1 DEF ReceiveGuarded
    <2>2. body \in Body
      BY DEF Body, Malformed
    <2>. QED  BY <2>1, <2>2 DEF TypeOK, HandlerOK, RegisterStep, Arrive, Label
  <1>2. CASE CheckSession(c)
    <2>1. /\ held[c] \in Token
          /\ call[c] \in ChangeBody \cup TokenBody \cup [op : ChangeOp]
      BY <1>2 DEF CheckSession, TypeOK, HandlerOK, RegisterStep
    <2>2. /\ user' \in [Client -> Identity \cup {None}]
          /\ \A d \in Client \ {c} : user'[d] = user[d]
          /\ Accepted(held[c]) => user'[c] \in Identity
      BY <1>2, <2>1 DEF CheckSession, TypeOK, Token
    <2>3. PICK l \in {"reply", "logout", "authorise"} :
             /\ pc' = [pc EXCEPT ![c] = l]
             /\ \/ status' = status
                \/ \E code \in {200, 400, 401} : status' = [status EXCEPT ![c] = code]
             /\ l # "reply" => Accepted(held[c])
             /\ l = "authorise" => call[c] \in ChangeBody
      <3>1. CASE ~Accepted(held[c])
        BY <1>2, <3>1 DEF CheckSession, EnterHandler, Reply
      <3>2. CASE Accepted(held[c]) /\ call[c].op = "logout"
        BY <1>2, <3>2 DEF CheckSession, EnterHandler, Goto, Malformed, ChangeOp
      <3>3. CASE Accepted(held[c]) /\ call[c].op = "validateToken"
        BY <1>2, <3>3 DEF CheckSession, EnterHandler, Reply
      <3>4. CASE Accepted(held[c]) /\ call[c].op \notin {"logout", "validateToken"}
        <4>1. CASE call[c] \in Malformed
          BY <1>2, <3>4, <4>1 DEF CheckSession, EnterHandler, Reply
        <4>2. CASE call[c] \notin Malformed
          <5>1. call[c] \in ChangeBody
            BY <2>1, <3>4, <4>2 DEF TokenBody, Malformed
          <5>2. Goto(c, "authorise")
            BY <1>2, <3>4, <4>2 DEF CheckSession, EnterHandler
          <5>. QED  BY <3>4, <5>1, <5>2 DEF Goto
        <4>. QED  BY <4>1, <4>2
      <3>. QED  BY <3>1, <3>2, <3>3, <3>4
    <2>4. UNCHANGED <<users, owned, cache, now, held, call, fresh>>
      BY <1>2 DEF CheckSession
    <2>5. /\ pc' \in [Client -> Label]
          /\ status' \in [Client -> {200, 201, 204, 400, 401, 403, 404, 409, 500, None}]
      BY <2>3 DEF TypeOK, Label, RegisterStep
    <2>6. \A d \in Client : HandlerOK(d)'
      <3>1. \A d \in Client \ {c} : HandlerOK(d)'
        BY <2>2, <2>3, <2>4 DEF TypeOK, HandlerOK, RegisterStep
      <3>2. HandlerOK(c)'
        BY <2>2, <2>3, <2>4 DEF TypeOK, HandlerOK, RegisterStep
      <3>. QED  BY <3>1, <3>2
    <2>. QED  BY <2>2, <2>4, <2>5, <2>6 DEF TypeOK
  <1>3. CASE Logout(c)
    BY <1>3 DEF Logout, TypeOK, HandlerOK, RegisterStep, Reply, Label
  <1>. QED  BY <1>1, <1>2, <1>3

\* The steps of a change, up to the eviction of the old session, keep them.
LEMMA ChangeType ==
    ASSUME TypeOK, NEW c \in Client,
           Authorise(c) \/ CheckConflict(c) \/ Update(c) \/ Evict(c)
    PROVE  TypeOK'
  <1>1. CASE Authorise(c)
    BY <1>1 DEF Authorise, TypeOK, HandlerOK, RegisterStep, Reply, Goto, ReadOnly, Label
  <1>2. CASE CheckConflict(c)
    BY <1>2 DEF CheckConflict, TypeOK, HandlerOK, RegisterStep, Reply, Goto, ReadOnly, Label
  <1>3. CASE Update(c)
    <2>1. users' \in [UserId -> Row \cup {None, Deleted}]
      <3>1. CASE users' = users
        BY <3>1 DEF TypeOK
      <3>2. CASE users' # users
        <4>1. /\ user[c].id \in Registered
              /\ users' = [users EXCEPT ![user[c].id] = Amended(users[user[c].id], call[c])]
              /\ call[c] \in ChangeBody
          BY <1>3, <3>2 DEF Update, TypeOK, HandlerOK, RegisterStep
        <4>2. Amended(users[user[c].id], call[c]) \in Row
          BY <4>1, AmendedRow DEF Registered, TypeOK
        <4>. QED  BY <4>1, <4>2 DEF TypeOK, Registered
      <3>. QED  BY <3>1, <3>2
    <2>2. \/ Goto(c, "evict")
          \/ Reply(c, 500)
      BY <1>3 DEF Update
    <2>3. /\ pc[c] = "update"
          /\ UNCHANGED <<owned, cache, now, held, call, user, fresh>>
      BY <1>3 DEF Update
    <2>. QED  BY <2>1, <2>2, <2>3 DEF TypeOK, HandlerOK, RegisterStep, Goto, Reply, Label
  <1>4. CASE Evict(c)
    BY <1>4 DEF Evict, TypeOK, HandlerOK, RegisterStep, Goto, Label
  <1>. QED  BY <1>1, <1>2, <1>3, <1>4

\* Signing a token and storing it keep the types.
LEMMA IssueType ==
    ASSUME TypeOK, NEW c \in Client, Sign(c) \/ Store(c)
    PROVE  TypeOK'
  <1>1. CASE Sign(c)
    <2>1. /\ user[c] \in Identity
          /\ call[c] \in LoginBody \cup ChangeBody
      BY <1>1 DEF Sign, TypeOK, HandlerOK, RegisterStep
    <2>2. /\ fresh' \in [Client -> Token \cup {None}]
          /\ fresh'[c] \in Token
          /\ fresh'[c].user.id = user[c].id
          /\ \A d \in Client \ {c} : fresh'[d] = fresh[d]
      BY <1>1, <2>1, RenamedIdentity DEF Sign, TypeOK, Token
    <2>3. /\ pc' = [pc EXCEPT ![c] = "store"]
          /\ UNCHANGED <<users, owned, cache, now, held, call, user, status>>
      BY <1>1 DEF Sign, Goto
    <2>. QED  BY <2>1, <2>2, <2>3 DEF TypeOK, HandlerOK, RegisterStep, Label
  <1>2. CASE Store(c)
    <2>1. /\ fresh[c] \in Token
          /\ user[c] \in Identity
      BY <1>2 DEF Store, TypeOK, HandlerOK, RegisterStep
    <2>2. [token |-> fresh[c], expires |-> now + Lifespan] \in Entry
      BY <2>1, AuthAssumption DEF Entry, TypeOK, Assumption
    <2>3. cache' \in [UserId -> Entry \cup {None}]
      BY <1>2, <2>1, <2>2 DEF Store, TypeOK, Identity
    <2>. QED  BY <1>2, <2>3 DEF Store, Reply, TypeOK, HandlerOK, RegisterStep, Label
  <1>. QED  BY <1>1, <1>2

\* So do the ends of a request: answered, lost, rejected.
LEMMA AnswerType ==
    ASSUME TypeOK, NEW c \in Client, ReceiveReply(c) \/ LoseReply(c) \/ Reject(c)
    PROVE  TypeOK'
  <1>1. CASE ReceiveReply(c)
    <2>1. held' \in [Client -> Token \cup {None}]
      BY <1>1 DEF ReceiveReply, TypeOK
    <2>2. \A d \in Client \ {c} : held'[d] = held[d]
      BY <1>1 DEF ReceiveReply, TypeOK
    <2>. QED  BY <1>1, <2>1, <2>2 DEF ReceiveReply, Forget, TypeOK, HandlerOK, RegisterStep, Label
  <1>2. CASE LoseReply(c)
    BY <1>2 DEF LoseReply, Forget, TypeOK, HandlerOK, RegisterStep, Label
  <1>3. CASE Reject(c)
    BY <1>3 DEF Reject, Reply, ReadOnly, TypeOK, HandlerOK, RegisterStep, Label
  <1>. QED  BY <1>1, <1>2, <1>3

\* A crash, another service, an administrator and time keep the types.
LEMMA EnvironmentType ==
    ASSUME TypeOK, Crash \/ (\E id \in UserId : VmRowsChange(id) \/ DeleteById(id)) \/ Tick
    PROVE  TypeOK'
  <1>1. CASE Crash
    BY <1>1 DEF Crash, Forget, TypeOK, HandlerOK, RegisterStep, Label
  <1>2. ASSUME NEW id \in UserId, VmRowsChange(id)
        PROVE  TypeOK'
    BY <1>2 DEF VmRowsChange, TypeOK, HandlerOK, RegisterStep, locals
  <1>3. ASSUME NEW id \in UserId, DeleteById(id)
        PROVE  TypeOK'
    BY <1>3 DEF DeleteById, TypeOK, HandlerOK, RegisterStep, locals
  <1>4. CASE Tick
    <2>1. now' \in Nat /\ cache' \in [UserId -> Entry \cup {None}]
      BY <1>4 DEF Tick, TypeOK
    <2>. QED  BY <1>4, <2>1 DEF Tick, TypeOK, HandlerOK, RegisterStep, locals
  <1>. QED  BY <1>1, <1>2, <1>3, <1>4

\* Every step keeps the types.
LEMMA TypeStep == TypeOK /\ [Next]_vars => TypeOK'
  <1>. SUFFICES ASSUME TypeOK, [Next]_vars PROVE TypeOK'
    OBVIOUS
  <1>1. CASE UNCHANGED vars
    BY <1>1 DEF vars, locals, TypeOK, HandlerOK, RegisterStep
  <1>2. CASE Next
    BY <1>2, RegisterType, LoginType, GuardType, ChangeType, IssueType, AnswerType,
       EnvironmentType DEF Next, Handle
  <1>. QED  BY <1>1, <1>2

\* Types, and the locals each step of a handler reads: no request, however it
\* overlaps others or is cut short, runs into a value that is not there.
THEOREM TypeCorrect == Spec => []TypeOK
  BY TypeInit, TypeStep, PTL DEF Spec
-----------------------------------------------------------------------------
(***************************************************************************)
(* What one step does to the users table, and to the sessions.  Both the   *)
(* invariants and the refinement are read off these two lemmas.            *)
(***************************************************************************)
\* A row for a new user, which no unique column refuses.
RowInserted(id, row) ==
    /\ users[id] = None
    /\ ~Duplicates(id, row)
    /\ users' = [users EXCEPT ![id] = row]

\* A change of one column that no unique column refuses.
RowAmended(id, body) ==
    /\ id \in Registered
    /\ ~Duplicates(id, Amended(users[id], body))
    /\ users' = [users EXCEPT ![id] = Amended(users[id], body)]

RowDeleted(id) ==
    /\ id \in Registered
    /\ users' = [users EXCEPT ![id] = Deleted]

UsersStep ==
    \/ UNCHANGED users
    \/ /\ UNCHANGED <<cache, now>>
       /\ \E id \in UserId :
             \/ \E row \in Row : RowInserted(id, row)
             \/ \E body \in ChangeBody : RowAmended(id, body)
             \/ RowDeleted(id)

\* A step writes one row, amends one, deletes one, or leaves all as they are.
LEMMA UsersStepped ==
    ASSUME TypeOK, NewRows, [Next]_vars
    PROVE  UsersStep
  <1>1. ASSUME NEW c \in Client, Insert(c)
        PROVE  UsersStep
    <2>. DEFINE row == [username |-> call[c].username,
                        email    |-> call[c].email,
                        password |-> call[c].password]
    <2>1. call[c] \in RegisterBody /\ users[call[c].id] = None
      BY <1>1 DEF Insert, TypeOK, HandlerOK, RegisterStep, NewRows
    <2>2. row \in Row /\ call[c].id \in UserId
      BY <2>1 DEF RegisterBody, Row
    <2>3. CASE Duplicates(call[c].id, row)
      BY <1>1, <2>3 DEF Insert, UsersStep
    <2>4. CASE ~Duplicates(call[c].id, row)
      <3>1. RowInserted(call[c].id, row)
        BY <1>1, <2>1, <2>4 DEF Insert, RowInserted
      <3>. QED  BY <1>1, <2>2, <3>1 DEF Insert, UsersStep
    <2>. QED  BY <2>3, <2>4
  <1>2. ASSUME NEW c \in Client, Update(c)
        PROVE  UsersStep
    <2>1. call[c] \in ChangeBody /\ user[c].id \in UserId
      BY <1>2 DEF Update, TypeOK, HandlerOK, RegisterStep, Identity
    <2>2. CASE users' = users
      BY <2>2 DEF UsersStep
    <2>3. CASE users' # users
      <3>1. RowAmended(user[c].id, call[c])
        BY <1>2, <2>3 DEF Update, RowAmended
      <3>. QED  BY <1>2, <2>1, <3>1 DEF Update, UsersStep
    <2>. QED  BY <2>2, <2>3
  <1>3. ASSUME NEW id \in UserId, DeleteById(id)
        PROVE  UsersStep
    BY <1>3 DEF DeleteById, UsersStep, RowDeleted
  <1>4. ASSUME NEW c \in Client,
               \/ ReceiveRegister(c) \/ FindByUsername(c) \/ FindByEmail(c)
               \/ ReceiveLogin(c) \/ ValidateUser(c) \/ ReceiveGuarded(c) \/ CheckSession(c)
        PROVE  UNCHANGED users
    BY <1>4 DEF ReceiveRegister, FindByUsername, FindByEmail, ReceiveLogin, ValidateUser,
                ReceiveGuarded, CheckSession, Arrive, ReadOnly
  <1>5. ASSUME NEW c \in Client,
               \/ Logout(c) \/ Authorise(c) \/ CheckConflict(c) \/ Evict(c)
               \/ Sign(c) \/ Store(c) \/ ReceiveReply(c) \/ LoseReply(c) \/ Reject(c)
        PROVE  UNCHANGED users
    BY <1>5 DEF Logout, Authorise, CheckConflict, Evict, Sign, Store, ReceiveReply,
                LoseReply, Reject, ReadOnly
  <1>6. ASSUME Crash \/ (\E id \in UserId : VmRowsChange(id)) \/ Tick \/ UNCHANGED vars
        PROVE  UNCHANGED users
    BY <1>6 DEF Crash, VmRowsChange, Tick, vars
  <1>7. ASSUME UNCHANGED users PROVE UsersStep
    BY <1>7 DEF UsersStep
  <1>. QED  BY <1>1, <1>2, <1>3, <1>4, <1>5, <1>6, <1>7 DEF Next, Handle

\* The unique columns keep accounts apart: no write can bypass them.
LEMMA UniqueStep ==
    ASSUME TypeOK, UniqueAccounts, NewRows, [Next]_vars
    PROVE  UniqueAccounts'
  <1>. DEFINE Written(id, row) == ~Duplicates(id, row) /\ users' = [users EXCEPT ![id] = row]
  <1>1. UsersStep
    BY UsersStepped
  <1>2. ASSUME NEW id \in UserId, NEW row \in Row, Written(id, row)
        PROVE  UniqueAccounts'
    <2>1. \A other \in Registered \ {id} :
             users[other].username # row.username /\ users[other].email # row.email
      BY <1>2 DEF Duplicates, WithUsername, WithEmail
    <2>2. Registered' \subseteq Registered \cup {id}
      BY <1>2 DEF Registered, TypeOK
    <2>. QED  BY <1>2, <2>1, <2>2 DEF UniqueAccounts, TypeOK, Registered
  <1>3. ASSUME NEW id \in UserId, NEW row \in Row, RowInserted(id, row)
        PROVE  UniqueAccounts'
    BY <1>2, <1>3 DEF RowInserted
  <1>4. ASSUME NEW id \in UserId, NEW body \in ChangeBody, RowAmended(id, body)
        PROVE  UniqueAccounts'
    <2>1. Amended(users[id], body) \in Row
      BY <1>4, AmendedRow DEF RowAmended, Registered, TypeOK
    <2>. QED  BY <1>2, <1>4, <2>1 DEF RowAmended
  <1>5. ASSUME NEW id \in UserId, RowDeleted(id)
        PROVE  UniqueAccounts'
    <2>1. Registered' \subseteq Registered
          /\ \A other \in Registered' : users'[other] = users[other]
      BY <1>5 DEF RowDeleted, Registered, TypeOK
    <2>. QED  BY <2>1 DEF UniqueAccounts
  <1>6. CASE UNCHANGED users
    BY <1>6 DEF UniqueAccounts, Registered
  <1>. QED  BY <1>1, <1>3, <1>4, <1>5, <1>6 DEF UsersStep
\* Registrations stay apart: a row that is there stays there, and a request
\* that arrives takes an id no other one has.
LEMMA NewRowsStep ==
    ASSUME TypeOK, NewRows, [Next]_vars
    PROVE  NewRows'
  <1>1. ASSUME NEW c \in Client, ReceiveRegister(c)
        PROVE  NewRows'
    <2>1. CASE Arrive(c, [op |-> "register"], "reply", 400)
      BY <2>1 DEF Arrive, NewRows, TypeOK, RegisterStep
    <2>2. ASSUME NEW body \in RegisterBody, Unused(body.id), Arrive(c, body, "findByUsername", None)
          PROVE  NewRows'
      <3>1. \A d \in Client : pc[d] \in RegisterStep => call[d] \in RegisterBody
        BY DEF TypeOK, HandlerOK
      <3>. QED  BY <2>2, <3>1 DEF Arrive, Unused, NewRows, TypeOK, RegisterStep
    <2>. QED  BY <1>1, <2>1, <2>2 DEF ReceiveRegister
  <1>2. ASSUME NEW c \in Client, FindByUsername(c) \/ FindByEmail(c)
        PROVE  NewRows'
    BY <1>2 DEF FindByUsername, FindByEmail, Goto, Reply, ReadOnly, NewRows, TypeOK, RegisterStep
  <1>3. ASSUME NEW c \in Client, Insert(c)
        PROVE  NewRows'
    <2>1. /\ pc' = [pc EXCEPT ![c] = "reply"]
          /\ call' = call
          /\ pc[c] \in RegisterStep
      BY <1>3 DEF Insert, Reply, RegisterStep
    <2>2. \A id \in UserId \ {call[c].id} : users'[id] = users[id]
      BY <1>3 DEF Insert, TypeOK
    <2>3. \A d \in Client : pc[d] \in RegisterStep => call[d].id \in UserId
      BY DEF TypeOK, HandlerOK, RegisterBody
    <2>. QED  BY <2>1, <2>2, <2>3 DEF NewRows, TypeOK, RegisterStep
  <1>4. ASSUME NEW c \in Client, ReceiveLogin(c) \/ ReceiveGuarded(c)
        PROVE  NewRows'
    <2>1. PICK body \in Body, l \in {"validateUser", "guard", "reply"}, code \in {None, 401, 403, 500} :
             Arrive(c, body, l, code)
      BY <1>4 DEF ReceiveLogin, ReceiveGuarded, Body, Malformed
    <2>. QED  BY <2>1 DEF Arrive, NewRows, TypeOK, RegisterStep
  <1>5. ASSUME NEW c \in Client,
               ValidateUser(c) \/ CheckSession(c) \/ Logout(c) \/ Authorise(c) \/ CheckConflict(c)
                  \/ Evict(c) \/ Sign(c) \/ Store(c) \/ Reject(c)
        PROVE  NewRows'
    <2>1. PICK l \in Label \ RegisterStep : pc' = [pc EXCEPT ![c] = l]
      BY <1>5 DEF ValidateUser, CheckSession, EnterHandler, Logout, Authorise, CheckConflict, Evict, Sign, Store,
                  Reject, Goto, Reply, Label, RegisterStep
    <2>2. UNCHANGED <<users, call>>
      BY <1>5 DEF ValidateUser, CheckSession, EnterHandler, Logout, Authorise, CheckConflict, Evict, Sign, Store,
                  Reject, ReadOnly
    <2>. QED  BY <2>1, <2>2 DEF NewRows, TypeOK
  <1>6. ASSUME NEW c \in Client, Update(c)
        PROVE  NewRows'
    <2>1. \A id \in UserId : users[id] = None => users'[id] = None
      BY <1>6 DEF Update, TypeOK, Registered
    <2>2. PICK l \in {"evict", "reply"} : pc' = [pc EXCEPT ![c] = l]
      BY <1>6 DEF Update, Goto, Reply
    <2>3. call' = call
      BY <1>6 DEF Update
    <2>4. \A d \in Client : pc[d] \in RegisterStep => call[d].id \in UserId
      BY DEF TypeOK, HandlerOK, RegisterBody
    <2>. QED  BY <2>1, <2>2, <2>3, <2>4 DEF NewRows, TypeOK, RegisterStep
  <1>7. ASSUME NEW C \in SUBSET Client, Forget(C), UNCHANGED users
        PROVE  NewRows'
    BY <1>7 DEF Forget, NewRows, TypeOK, RegisterStep
  <1>8. ASSUME NEW c \in Client, ReceiveReply(c) \/ LoseReply(c)
        PROVE  NewRows'
    BY <1>7, <1>8 DEF ReceiveReply, LoseReply
  <1>9. CASE Crash
    BY <1>7, <1>9 DEF Crash
  <1>10. ASSUME NEW id \in UserId, DeleteById(id)
         PROVE  NewRows'
    <2>1. \A other \in UserId : users[other] = None => users'[other] = None
      BY <1>10 DEF DeleteById, TypeOK, Registered
    <2>2. \A d \in Client : pc[d] \in RegisterStep => call[d].id \in UserId
      BY DEF TypeOK, HandlerOK, RegisterBody
    <2>. QED  BY <1>10, <2>1, <2>2 DEF DeleteById, NewRows, TypeOK, locals
  <1>11. CASE (\E id \in UserId : VmRowsChange(id)) \/ Tick \/ UNCHANGED vars
    BY <1>11 DEF VmRowsChange, Tick, vars, locals, NewRows, TypeOK
  <1>. QED  BY <1>1, <1>2, <1>3, <1>4, <1>5, <1>6, <1>8, <1>9, <1>10, <1>11 DEF Next, Handle
\* What one step does to the sessions: a logout or an eviction removes one, a
\* store puts the token just signed there, time removes what has expired.
SessionRemoved(id) == cache' = [cache EXCEPT ![id] = None] /\ UNCHANGED <<users, now>>

SessionStored(id, token) ==
    /\ cache' = [cache EXCEPT ![id] = [token |-> token, expires |-> now + Lifespan]]
    /\ token.user.id = id
    /\ users[id] # None
    /\ token.iat <= now
    /\ UNCHANGED <<users, now>>

CacheStep ==
    \/ UNCHANGED <<cache, now>>
    \/ \E id \in UserId : SessionRemoved(id) \/ \E token \in Token : SessionStored(id, token)
    \/ Tick

\* A step stores one session, removes one, lets time pass, or leaves all alone.
LEMMA CacheStepped ==
    ASSUME TypeOK, IdentitiesTraceable, [Next]_vars
    PROVE  CacheStep
  <1>1. ASSUME NEW c \in Client, Logout(c) \/ Evict(c)
        PROVE  CacheStep
    <2>1. user[c].id \in UserId
      BY <1>1 DEF Logout, Evict, TypeOK, HandlerOK, Identity
    <2>. QED  BY <1>1, <2>1 DEF Logout, Evict, CacheStep, SessionRemoved
  <1>2. ASSUME NEW c \in Client, Store(c)
        PROVE  CacheStep
    <2>1. /\ user[c] \in Identity
          /\ fresh[c] \in Token
          /\ fresh[c].user.id = user[c].id
      BY <1>2 DEF Store, TypeOK, HandlerOK
    <2>2. fresh[c] # None
      BY <2>1, AuthAssumption DEF Assumption
    <2>3. user[c].id \in UserId
      BY <2>1 DEF Identity
    <2>4. users[user[c].id] # None /\ fresh[c].iat <= now
      BY <2>1, <2>2 DEF IdentitiesTraceable, Traceable
    <2>5. SessionStored(user[c].id, fresh[c])
      BY <1>2, <2>1, <2>4 DEF Store, SessionStored
    <2>. QED  BY <2>1, <2>3, <2>5 DEF CacheStep
  <1>3. ASSUME NEW c \in Client,
               \/ ReceiveRegister(c) \/ FindByUsername(c) \/ FindByEmail(c) \/ Insert(c)
               \/ ReceiveLogin(c) \/ ValidateUser(c) \/ ReceiveGuarded(c) \/ CheckSession(c)
        PROVE  UNCHANGED <<cache, now>>
    BY <1>3 DEF ReceiveRegister, FindByUsername, FindByEmail, Insert, ReceiveLogin, ValidateUser,
                ReceiveGuarded, CheckSession, Arrive, ReadOnly
  <1>4. ASSUME NEW c \in Client,
               \/ Authorise(c) \/ CheckConflict(c) \/ Update(c) \/ Sign(c)
               \/ ReceiveReply(c) \/ LoseReply(c) \/ Reject(c)
        PROVE  UNCHANGED <<cache, now>>
    BY <1>4 DEF Authorise, CheckConflict, Update, Sign, ReceiveReply, LoseReply, Reject, ReadOnly
  <1>5. ASSUME Crash \/ (\E id \in UserId : VmRowsChange(id) \/ DeleteById(id)) \/ UNCHANGED vars
        PROVE  UNCHANGED <<cache, now>>
    BY <1>5 DEF Crash, VmRowsChange, DeleteById, vars
  <1>6. ASSUME UNCHANGED <<cache, now>> PROVE CacheStep
    BY <1>6 DEF CacheStep
  <1>7. ASSUME Tick PROVE CacheStep
    BY <1>7 DEF CacheStep
  <1>. QED  BY <1>1, <1>2, <1>3, <1>4, <1>5, <1>6, <1>7 DEF Next, Handle

\* An entry is written with a TTL of the whole lifespan, for a token signed no
\* later; and what time leaves in Redis was there before.
LEMMA CoversStep ==
    ASSUME TypeOK, IdentitiesTraceable, SessionCoversToken, [Next]_vars
    PROVE  SessionCoversToken'
  <1>1. CacheStep
    BY CacheStepped
  <1>2. CASE UNCHANGED <<cache, now>>
    BY <1>2 DEF SessionCoversToken
  <1>3. ASSUME NEW id \in UserId, SessionRemoved(id)
        PROVE  SessionCoversToken'
    BY <1>3 DEF SessionRemoved, SessionCoversToken, TypeOK
  <1>4. ASSUME NEW id \in UserId, NEW token \in Token, SessionStored(id, token)
        PROVE  SessionCoversToken'
    <2>1. token.iat + Lifespan <= now + Lifespan
      BY <1>4, AuthAssumption DEF SessionStored, Token, TypeOK, Assumption
    <2>. QED  BY <1>4, <2>1 DEF SessionStored, SessionCoversToken, TypeOK
  <1>5. CASE Tick
    BY <1>5 DEF Tick, SessionCoversToken, TypeOK
  <1>. QED  BY <1>1, <1>2, <1>3, <1>4, <1>5 DEF CacheStep

\* No step makes a user that was created unknown again, or turns time back.
LEMMA NothingForgotten ==
    ASSUME TypeOK, NewRows, IdentitiesTraceable, [Next]_vars
    PROVE  /\ \A id \in UserId : users[id] # None => users'[id] # None
           /\ now <= now' /\ now' \in Nat
  <1>1. \A id \in UserId : users[id] # None => users'[id] # None
    <2>1. ASSUME NEW id \in UserId, NEW row \in Row, RowInserted(id, row)
          PROVE  \A other \in UserId : users[other] # None => users'[other] # None
      BY <2>1 DEF RowInserted, TypeOK
    <2>2. ASSUME NEW id \in UserId, NEW body \in ChangeBody, RowAmended(id, body)
          PROVE  \A other \in UserId : users[other] # None => users'[other] # None
      <3>1. Amended(users[id], body) \in Row
        BY <2>2, AmendedRow DEF RowAmended, Registered, TypeOK
      <3>2. Amended(users[id], body) # None
        BY <3>1, AuthAssumption DEF Assumption
      <3>. QED  BY <2>2, <3>2 DEF RowAmended, TypeOK
    <2>3. ASSUME NEW id \in UserId, RowDeleted(id)
          PROVE  \A other \in UserId : users[other] # None => users'[other] # None
      BY <2>3, AuthAssumption DEF RowDeleted, TypeOK, Assumption
    <2>. QED  BY <2>1, <2>2, <2>3, UsersStepped DEF UsersStep
  <1>2. now <= now' /\ now' \in Nat
    BY CacheStepped DEF CacheStep, SessionRemoved, SessionStored, Tick, TypeOK
  <1>. QED  BY <1>1, <1>2
\* Where the users, the tokens and the sessions of a step come from.
LEMMA UserSource ==
    ASSUME TypeOK, IdentitiesTraceable, [Next]_vars, NEW d \in Client, user'[d] # None
    PROVE  user'[d].id \in UserId /\ users[user'[d].id] # None
  <1>1. CASE user'[d] = user[d]
    BY <1>1 DEF TypeOK, IdentitiesTraceable, Identity
  <1>2. ASSUME NEW c \in Client, ValidateUser(c), user'[d] # user[d]
        PROVE  user'[d].id \in UserId /\ users[user'[d].id] # None
    BY <1>2 DEF ValidateUser, TypeOK, WithUsername, Registered
  <1>3. ASSUME NEW c \in Client, CheckSession(c), user'[d] # user[d]
        PROVE  user'[d].id \in UserId /\ users[user'[d].id] # None
    <2>1. held[c] \in Token /\ user'[d] = held[c].user
      BY <1>3 DEF CheckSession, TypeOK, HandlerOK
    <2>2. held[c] # None
      BY <2>1, AuthAssumption DEF Assumption
    <2>. QED  BY <2>1, <2>2 DEF IdentitiesTraceable, Traceable, Token, Identity
  <1>4. ASSUME NEW C \in SUBSET Client, Forget(C)
        PROVE  user'[d] = user[d]
    BY <1>4 DEF Forget, TypeOK
  <1>5. ASSUME NEW c \in Client, ReceiveReply(c) \/ LoseReply(c)
        PROVE  user'[d] = user[d]
    BY <1>4, <1>5 DEF ReceiveReply, LoseReply
  <1>6. ASSUME Crash PROVE user'[d] = user[d]
    BY <1>4, <1>6 DEF Crash
  <1>7. ASSUME NEW c \in Client,
               \/ ReceiveRegister(c) \/ FindByUsername(c) \/ FindByEmail(c) \/ Insert(c)
               \/ ReceiveLogin(c) \/ ReceiveGuarded(c) \/ Logout(c)
        PROVE  user' = user
    BY <1>7 DEF ReceiveRegister, FindByUsername, FindByEmail, Insert, ReceiveLogin,
                ReceiveGuarded, Logout, Arrive, ReadOnly
  <1>8. ASSUME NEW c \in Client,
               \/ Authorise(c) \/ CheckConflict(c) \/ Update(c) \/ Evict(c)
               \/ Sign(c) \/ Store(c) \/ Reject(c)
        PROVE  user' = user
    BY <1>8 DEF Authorise, CheckConflict, Update, Evict, Sign, Store, Reject, ReadOnly
  <1>9. ASSUME (\E id \in UserId : VmRowsChange(id) \/ DeleteById(id)) \/ Tick \/ UNCHANGED vars
        PROVE  user' = user
    BY <1>9 DEF VmRowsChange, DeleteById, Tick, vars, locals
  <1>. QED  BY <1>1, <1>2, <1>3, <1>5, <1>6, <1>7, <1>8, <1>9 DEF Next, Handle

\* A token is signed for a user a guard or a login has set, at this moment.
LEMMA FreshSource ==
    ASSUME TypeOK, IdentitiesTraceable, [Next]_vars, NEW d \in Client, fresh'[d] # None
    PROVE  Traceable(fresh'[d])
  <1>1. CASE fresh'[d] = fresh[d]
    BY <1>1 DEF IdentitiesTraceable
  <1>2. ASSUME NEW c \in Client, Sign(c), fresh'[d] # fresh[d]
        PROVE  Traceable(fresh'[d])
    <2>1. /\ user[c] \in Identity
          /\ call[c] \in LoginBody \cup ChangeBody
          /\ fresh'[d] = [user |-> Renamed(user[c], call[c]), iat |-> now]
      BY <1>2 DEF Sign, TypeOK, HandlerOK
    <2>2. fresh'[d].user.id = user[c].id /\ fresh'[d].iat = now
      BY <2>1, RenamedIdentity
    <2>3. user[c] # None
      BY <2>1, AuthAssumption DEF Assumption
    <2>. QED  BY <2>2, <2>3 DEF IdentitiesTraceable, Traceable, TypeOK
  <1>3. ASSUME NEW C \in SUBSET Client, Forget(C)
        PROVE  fresh'[d] = fresh[d]
    BY <1>3 DEF Forget, TypeOK
  <1>4. ASSUME NEW c \in Client, ReceiveReply(c) \/ LoseReply(c)
        PROVE  fresh'[d] = fresh[d]
    BY <1>3, <1>4 DEF ReceiveReply, LoseReply
  <1>5. ASSUME Crash PROVE fresh'[d] = fresh[d]
    BY <1>3, <1>5 DEF Crash
  <1>6. ASSUME NEW c \in Client,
               \/ ReceiveRegister(c) \/ FindByUsername(c) \/ FindByEmail(c) \/ Insert(c)
               \/ ReceiveLogin(c) \/ ValidateUser(c) \/ ReceiveGuarded(c) \/ CheckSession(c)
        PROVE  fresh' = fresh
    BY <1>6 DEF ReceiveRegister, FindByUsername, FindByEmail, Insert, ReceiveLogin, ValidateUser,
                ReceiveGuarded, CheckSession, Arrive, ReadOnly
  <1>7. ASSUME NEW c \in Client,
               \/ Logout(c) \/ Authorise(c) \/ CheckConflict(c) \/ Update(c) \/ Evict(c)
               \/ Store(c) \/ Reject(c)
        PROVE  fresh' = fresh
    BY <1>7 DEF Logout, Authorise, CheckConflict, Update, Evict, Store, Reject, ReadOnly
  <1>8. ASSUME (\E id \in UserId : VmRowsChange(id) \/ DeleteById(id)) \/ Tick \/ UNCHANGED vars
        PROVE  fresh' = fresh
    BY <1>8 DEF VmRowsChange, DeleteById, Tick, vars, locals
  <1>. QED  BY <1>1, <1>2, <1>4, <1>5, <1>6, <1>7, <1>8 DEF Next, Handle

\* A client holds the token it had, or the one its request has signed.
LEMMA HeldSource ==
    ASSUME TypeOK, [Next]_vars, NEW d \in Client, held'[d] # held[d]
    PROVE  held'[d] = fresh[d] /\ fresh[d] # None
  <1>1. ASSUME NEW c \in Client, ReceiveReply(c)
        PROVE  held'[d] = fresh[d] /\ fresh[d] # None
    BY <1>1 DEF ReceiveReply, TypeOK
  <1>2. ASSUME NEW c \in Client,
               \/ ReceiveRegister(c) \/ FindByUsername(c) \/ FindByEmail(c) \/ Insert(c)
               \/ ReceiveLogin(c) \/ ValidateUser(c) \/ ReceiveGuarded(c) \/ CheckSession(c)
        PROVE  held' = held
    BY <1>2 DEF ReceiveRegister, FindByUsername, FindByEmail, Insert, ReceiveLogin, ValidateUser,
                ReceiveGuarded, CheckSession, Arrive, ReadOnly
  <1>3. ASSUME NEW c \in Client,
               \/ Logout(c) \/ Authorise(c) \/ CheckConflict(c) \/ Update(c) \/ Evict(c)
               \/ Sign(c) \/ Store(c) \/ LoseReply(c) \/ Reject(c)
        PROVE  held' = held
    BY <1>3 DEF Logout, Authorise, CheckConflict, Update, Evict, Sign, Store, LoseReply,
                Reject, ReadOnly
  <1>4. ASSUME \/ Crash \/ Tick \/ UNCHANGED vars
               \/ \E id \in UserId : VmRowsChange(id) \/ DeleteById(id)
        PROVE  held' = held
    BY <1>4 DEF Crash, VmRowsChange, DeleteById, Tick, vars, locals
  <1>. QED  BY <1>1, <1>2, <1>3, <1>4 DEF Next, Handle

\* Redis holds the tokens it had, or the one a request has signed.
LEMMA CacheSource ==
    ASSUME TypeOK, IdentitiesTraceable, [Next]_vars, NEW id \in UserId, cache'[id] # None
    PROVE  Traceable(cache'[id].token)
  <1>1. CacheStep
    BY CacheStepped
  <1>2. CASE cache'[id] = cache[id]
    BY <1>2 DEF IdentitiesTraceable
  <1>3. ASSUME NEW other \in UserId, SessionRemoved(other)
        PROVE  cache'[id] = cache[id]
    BY <1>3 DEF SessionRemoved, TypeOK
  <1>4. ASSUME NEW other \in UserId, NEW token \in Token, SessionStored(other, token),
               cache'[id] # cache[id]
        PROVE  Traceable(cache'[id].token)
    BY <1>4 DEF SessionStored, Traceable, TypeOK
  <1>5. ASSUME Tick PROVE cache'[id] = cache[id]
    BY <1>5 DEF Tick
  <1>. QED  BY <1>1, <1>2, <1>3, <1>4, <1>5 DEF CacheStep

\* What can be traced to an account before a step can be after it.
LEMMA TraceStep ==
    ASSUME TypeOK, NewRows, IdentitiesTraceable, [Next]_vars
    PROVE  IdentitiesTraceable'
  <1>1. TypeOK'
    BY TypeStep
  <1>2. ASSUME NEW token \in Token, Traceable(token)
        PROVE  users'[token.user.id] # None /\ token.iat <= now'
    <2>1. token.user.id \in UserId /\ token.iat \in Nat
      BY DEF Token, Identity
    <2>. QED  BY <1>2, <2>1, NothingForgotten DEF Traceable, TypeOK
  <1>3. ASSUME NEW d \in Client, user'[d] # None
        PROVE  users'[user'[d].id] # None
    BY <1>3, UserSource, NothingForgotten
  <1>4. ASSUME NEW d \in Client, fresh'[d] # None
        PROVE  Traceable(fresh[d])' 
    <2>1. fresh'[d] \in Token
      BY <1>1, <1>4 DEF TypeOK
    <2>2. Traceable(fresh'[d])
      BY <1>4, FreshSource
    <2>. QED  BY <1>2, <2>1, <2>2 DEF Traceable
  <1>5. ASSUME NEW d \in Client, held'[d] # None
        PROVE  Traceable(held[d])'
    <2>1. held'[d] \in Token
      BY <1>1, <1>5 DEF TypeOK
    <2>2. Traceable(held'[d])
      BY <1>5, HeldSource DEF IdentitiesTraceable
    <2>. QED  BY <1>2, <2>1, <2>2 DEF Traceable
  <1>6. ASSUME NEW id \in UserId, cache'[id] # None
        PROVE  Traceable(cache[id].token)'
    <2>1. cache'[id].token \in Token
      BY <1>1, <1>6 DEF TypeOK, Entry
    <2>2. Traceable(cache'[id].token)
      BY <1>6, CacheSource
    <2>. QED  BY <1>2, <2>1, <2>2 DEF Traceable
  <1>. QED  BY <1>3, <1>4, <1>5, <1>6 DEF IdentitiesTraceable

-----------------------------------------------------------------------------

\* The inductive invariant holds at the start.
LEMMA InvariantInit == Init => IInv
  BY TypeInit DEF Init, IInv, UniqueAccounts, Registered, IdentitiesTraceable,
                  SessionCoversToken, NewRows, RegisterStep

\* Every step keeps the inductive invariant.
LEMMA InvariantStep == IInv /\ [Next]_vars => IInv'
  BY TypeStep, UniqueStep, TraceStep, CoversStep, NewRowsStep DEF IInv

\* The inductive invariant holds throughout.
THEOREM Invariance == Spec => []IInv
  BY InvariantInit, InvariantStep, PTL DEF Spec

\* No two accounts ever share a username or an address, however registrations
\* and changes overlap and whatever is rejected, lost or restarted.
THEOREM AccountsStayUnique == Spec => []UniqueAccounts
  <1>1. IInv => UniqueAccounts
    BY DEF IInv
  <1>. QED  BY <1>1, Invariance, PTL

\* A session is filed under its own user and outlives no less than its token.
THEOREM SessionsCoverTokens == Spec => []SessionCoversToken
  <1>1. IInv => SessionCoversToken
    BY DEF IInv
  <1>. QED  BY <1>1, Invariance, PTL
-----------------------------------------------------------------------------
(***************************************************************************)
(* Refinement of the directory of accounts.                                *)
(***************************************************************************)

\* The service starts as an empty directory without sessions.
LEMMA RefinementInit == Init => Abstract!Init
  BY DEF Init, Abstract!Init, Session

\* A row written, changed or deleted changes one account of the directory.
LEMMA UsersRefine ==
    ASSUME IInv, IInv', UsersStep, UNCHANGED <<cache, now>>
    PROVE  [Abstract!Next]_(Abstract!vars)
  <1>. USE DEF IInv
  <1>1. UNCHANGED [id \in UserId |-> Session(id)]
    BY DEF Session, Unexpired
  <1>2. \A id \in UserId : users[id] \in Row <=> id \in Registered
    BY AuthAssumption DEF Registered, TypeOK, Assumption
  <1>3. \A id \in UserId : users'[id] \in Row <=> id \in Registered'
    BY AuthAssumption DEF Registered, TypeOK, Assumption
  <1>4. Abstract!Distinct(users')
    BY <1>3 DEF Abstract!Distinct, Abstract!Row, Row, UniqueAccounts
  <1>5. ASSUME NEW id \in UserId, NEW value, users' = [users EXCEPT ![id] = value]
        PROVE  Abstract!SetAccount(id, value)
    BY <1>1, <1>4, <1>5 DEF Abstract!SetAccount
  <1>6. CASE UNCHANGED users
    BY <1>1, <1>6 DEF Abstract!vars
  <1>7. ASSUME NEW id \in UserId, NEW row \in Row, RowInserted(id, row)
        PROVE  Abstract!Create(id)
    BY <1>5, <1>7 DEF RowInserted, Abstract!Create, Abstract!Row, Row
  <1>8. ASSUME NEW id \in UserId, NEW body \in ChangeBody, RowAmended(id, body)
        PROVE  Abstract!Amend(id)
    <2>1. users[id] \in Row /\ Abstract!SetAccount(id, Amended(users[id], body))
      BY <1>2, <1>5, <1>8 DEF RowAmended
    <2>2. CASE body.op = "changeUsername"
      <3>1. /\ body.username \in Username
            /\ Amended(users[id], body) = [users[id] EXCEPT !.username = body.username]
        BY <2>2 DEF ChangeBody, Amended, Renamed
      <3>. QED  BY <2>1, <3>1 DEF Abstract!Amend, Abstract!Row, Row
    <2>3. CASE body.op = "changeEmail"
      <3>1. /\ body.email \in Email
            /\ Amended(users[id], body) = [users[id] EXCEPT !.email = body.email]
        BY <2>3 DEF ChangeBody, Amended, Renamed
      <3>. QED  BY <2>1, <3>1 DEF Abstract!Amend, Abstract!Row, Row
    <2>4. CASE body.op = "changePassword"
      <3>1. /\ body.newPassword \in Password
            /\ Amended(users[id], body) = [users[id] EXCEPT !.password = body.newPassword]
        BY <2>4 DEF ChangeBody, Amended
      <3>. QED  BY <2>1, <3>1 DEF Abstract!Amend, Abstract!Row, Row
    <2>. QED  BY <2>2, <2>3, <2>4 DEF ChangeBody
  <1>9. ASSUME NEW id \in UserId, RowDeleted(id)
        PROVE  Abstract!Remove(id)
    BY <1>2, <1>5, <1>9 DEF RowDeleted, Abstract!Remove, Abstract!Row, Row
  <1>. QED  BY <1>6, <1>7, <1>8, <1>9 DEF UsersStep, Abstract!Next

\* An entry that is written, deleted or expires opens or ends one session;
\* an entry whose token has expired is none.
LEMMA CacheRefines ==
    ASSUME IInv, CacheStep, UNCHANGED users
    PROVE  [Abstract!Next]_(Abstract!vars)
  <1>. USE DEF IInv
  <1>1. CASE UNCHANGED <<cache, now>>
    <2>1. UNCHANGED [id \in UserId |-> Session(id)]
      BY <1>1 DEF Session, Unexpired
    <2>. QED  BY <1>1, <2>1 DEF Abstract!vars
  <1>2. ASSUME NEW id \in UserId, SessionRemoved(id)
        PROVE  Abstract!Revoke(id)
    BY <1>2 DEF SessionRemoved, Session, TypeOK, Abstract!Revoke
  <1>3. ASSUME NEW id \in UserId, NEW token \in Token, SessionStored(id, token)
        PROVE  Abstract!Grant(id) \/ Abstract!Revoke(id)
    <2>1. /\ cache'[id] = [token |-> token, expires |-> now + Lifespan]
          /\ \A other \in UserId \ {id} : cache'[other] = cache[other]
          /\ now' = now
      BY <1>3 DEF SessionStored, TypeOK
    <2>2. \A other \in UserId \ {id} : Session(other)' = Session(other)
      BY <2>1 DEF Session, Unexpired
    <2>3. cache'[id] # None /\ cache'[id].token = token
      <3>1. cache'[id] \in Entry
        BY <2>1, AuthAssumption DEF Entry, TypeOK, Assumption
      <3>. QED  BY <2>1, <3>1, AuthAssumption DEF Assumption
    <2>4. CASE Unexpired(token, now)
      <3>1. Session(id)' = token
        BY <2>1, <2>3, <2>4 DEF Session, Unexpired
      <3>2. [other \in UserId |-> Session(other)]'
               = [[other \in UserId |-> Session(other)] EXCEPT ![id] = token]
        BY <2>2, <3>1
      <3>3. PICK identity \in Identity, issued \in Nat : token = [user |-> identity, iat |-> issued]
        BY DEF Token
      <3>4. issued \in 0..now /\ identity.id = id
        BY <1>3, <3>3 DEF SessionStored, TypeOK
      <3>5. Abstract!Unexpired(token, now)
        BY <2>4 DEF Unexpired, Abstract!Unexpired
      <3>6. users[id] # None /\ UNCHANGED <<users, now>>
        BY <1>3 DEF SessionStored
      <3>. QED  BY <3>2, <3>3, <3>4, <3>5, <3>6 DEF Abstract!Grant, Abstract!Identity, Identity
    <2>5. CASE ~Unexpired(token, now)
      <3>1. Session(id)' = None
        BY <2>1, <2>3, <2>5 DEF Session, Unexpired
      <3>2. [other \in UserId |-> Session(other)]'
               = [[other \in UserId |-> Session(other)] EXCEPT ![id] = None]
        BY <2>2, <3>1
      <3>. QED  BY <1>3, <3>2 DEF SessionStored, Abstract!Revoke
    <2>. QED  BY <2>4, <2>5
  <1>4. CASE Tick
    <2>1. now \in Nat /\ now' = now + 1
      BY <1>4 DEF Tick, TypeOK
    <2>2. ASSUME NEW id \in UserId
          PROVE  Session(id)' = IF Session(id) # None /\ Unexpired(Session(id), now')
                                THEN Session(id) ELSE None
      <3>1. CASE cache[id] = None
        BY <1>4, <3>1 DEF Tick, Session
      <3>2. CASE cache[id] # None /\ ~Unexpired(cache[id].token, now')
        BY <1>4, <3>2 DEF Tick, Session, Unexpired
      <3>3. CASE cache[id] # None /\ Unexpired(cache[id].token, now')
        <4>1. /\ cache[id] \in Entry /\ cache[id].token \in Token
              /\ cache[id].token.iat \in Nat /\ cache[id].expires \in Nat
          BY <3>3 DEF TypeOK, Entry, Token
        <4>2. cache[id].token.iat + Lifespan <= cache[id].expires /\ Lifespan \in Nat
          BY <3>3, AuthAssumption DEF SessionCoversToken, Assumption
        <4>3. cache[id].expires > now' /\ Unexpired(cache[id].token, now)
          BY <2>1, <3>3, <4>1, <4>2 DEF Unexpired
        <4>4. cache'[id] = cache[id]
          BY <1>4, <3>3, <4>3 DEF Tick
        <4>5. Session(id) = cache[id].token /\ Session(id)' = cache[id].token
          BY <3>3, <4>3, <4>4 DEF Session, Unexpired
        <4>6. cache[id].token # None
          BY <4>1, AuthAssumption DEF Assumption
        <4>. QED  BY <3>3, <4>5, <4>6
      <3>. QED  BY <3>1, <3>2, <3>3
    <2>3. Abstract!Tick
      BY <1>4, <2>1, <2>2 DEF Tick, Abstract!Tick, Abstract!Unexpired, Unexpired
    <2>. QED  BY <2>3 DEF Abstract!Next
  <1>. QED  BY <1>1, <1>2, <1>3, <1>4 DEF CacheStep, Abstract!Next

\* The service implements the directory of accounts: whatever requests
\* overlap and wherever they are cut short, a step of it is one change of one
\* account, the start or the end of one session, the passing of a second, or
\* nothing a client of the directory could tell.
THEOREM Refinement == Spec => AccountsSpec
  <1>1. Init => Abstract!Init
    BY RefinementInit
  <1>2. IInv /\ IInv' /\ [Next]_vars => [Abstract!Next]_(Abstract!vars)
    <2>. SUFFICES ASSUME IInv, IInv', [Next]_vars
                  PROVE  [Abstract!Next]_(Abstract!vars)
      OBVIOUS
    <2>1. UsersStep /\ CacheStep
      BY UsersStepped, CacheStepped DEF IInv
    <2>2. CASE UNCHANGED users
      BY <2>1, <2>2, CacheRefines
    <2>3. CASE ~UNCHANGED users
      BY <2>1, <2>3, UsersRefine DEF UsersStep
    <2>. QED  BY <2>2, <2>3
  <1>. QED  BY <1>1, <1>2, Invariance, PTL DEF Spec, AccountsSpec, Abstract!Spec
=============================================================================
