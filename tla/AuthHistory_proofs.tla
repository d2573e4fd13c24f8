------------------------- MODULE AuthHistory_proofs -------------------------
(***************************************************************************)
(* Proofs about the auth service with its history, for any number of       *)
(* clients and accounts, with and without faults and deletions: what the   *)
(* service promises whatever overlaps (no session without a password), and *)
(* what it promises of the accounts whose requests did not overlap.        *)
(***************************************************************************)
EXTENDS AuthHistory, AuthSessions_proofs

\* Between the comparison of the password and the answer.
Authorised == {"conflict", "update", "evict", "sign", "store"}

\* The history holds the password of every row there is.
Remembered == \A id \in Registered : users[id].password \in past[id]

\* A request that has got this far sent a password its account has had.
Proven == \A c \in Client : pc[c] \in Authorised => call[c].password \in past[user[c].id]

HInv == IInv /\ Remembered /\ Proven

LEMMA HistoryInvInit == HistoryInit => HInv
  <1>. SUFFICES ASSUME HistoryInit PROVE HInv
    OBVIOUS
  <1>1. Registered = {} /\ \A c \in Client : pc[c] = "idle"
    BY DEF HistoryInit, Init, Registered
  <1>. QED  BY <1>1, InvariantInit DEF HistoryInit, HInv, Remembered, Proven, Authorised

\* The history only grows.
LEMMA PastGrows ==
    ASSUME HInv, [HistoryNext]_historyVars, NEW id \in UserId
    PROVE  past[id] \subseteq past'[id]
  BY DEF HistoryNext, historyVars

\* And it takes in the password of every row a step leaves.
LEMMA RememberedStep ==
    ASSUME HInv, [HistoryNext]_historyVars
    PROVE  Remembered'
  <1>1. TypeOK'
    BY TypeStep DEF HInv, IInv, HistoryNext, historyVars
  <1>2. CASE UNCHANGED historyVars
    BY <1>2 DEF historyVars, vars, HInv, Remembered, Registered
  <1>3. CASE HistoryNext
    <2>1. \A id \in Registered' : users'[id] \in Row
      BY <1>1 DEF TypeOK, Registered
    <2>. QED  BY <1>3, <2>1 DEF HistoryNext, Remembered, Registered
  <1>. QED  BY <1>2, <1>3

\* A request is past the comparison because it was, or because the login or
\* the change-* operation compares the password it sent with the row now.
Compares(d) ==
    /\ user'[d].id \in Registered
    /\ users[user'[d].id].password = call[d].password
    /\ call'[d] = call[d]

Carries(d) == pc[d] \in Authorised /\ call'[d] = call[d] /\ user'[d] = user[d]

LEMMA AuthorisedSource ==
    ASSUME TypeOK, [Next]_vars, NEW d \in Client, pc'[d] \in Authorised
    PROVE  Compares(d) \/ Carries(d)
  <1>. USE DEF Authorised
  <1>1. CASE UNCHANGED <<pc[d], call[d], user[d]>>
    BY <1>1 DEF Carries
  <1>2. ASSUME NEW c \in Client, ValidateUser(c)
        PROVE  Compares(d) \/ UNCHANGED <<pc[d], call[d], user[d]>>
    BY <1>2 DEF ValidateUser, Compares, TypeOK, Goto, Reply, WithUsername
  <1>3. ASSUME NEW c \in Client, Authorise(c)
        PROVE  Compares(d) \/ UNCHANGED <<pc[d], call[d], user[d]>>
    BY <1>3 DEF Authorise, Compares, TypeOK, Goto, Reply, ReadOnly
  <1>4. ASSUME NEW c \in Client, CheckSession(c)
        PROVE  UNCHANGED <<pc[d], call[d], user[d]>>
    BY <1>4 DEF CheckSession, EnterHandler, TypeOK, Goto, Reply
  <1>5. ASSUME NEW c \in Client,
               CheckConflict(c) \/ Update(c) \/ Evict(c) \/ Sign(c)
        PROVE  Carries(d) \/ UNCHANGED <<pc[d], call[d], user[d]>>
    BY <1>5 DEF CheckConflict, Update, Evict, Sign, Carries, TypeOK, Goto, Reply, ReadOnly
  <1>6. ASSUME NEW c \in Client, Store(c) \/ Logout(c) \/ Reject(c)
        PROVE  UNCHANGED <<pc[d], call[d], user[d]>>
    BY <1>6 DEF Store, Logout, Reject, TypeOK, Reply, ReadOnly
  <1>7. ASSUME NEW c \in Client,
               ReceiveRegister(c) \/ FindByUsername(c) \/ FindByEmail(c) \/ Insert(c)
        PROVE  UNCHANGED <<pc[d], call[d], user[d]>>
    BY <1>7 DEF ReceiveRegister, FindByUsername, FindByEmail, Insert, TypeOK, Arrive, Goto,
                Reply, ReadOnly
  <1>8. ASSUME NEW c \in Client, ReceiveLogin(c) \/ ReceiveGuarded(c)
        PROVE  UNCHANGED <<pc[d], call[d], user[d]>>
    BY <1>8 DEF ReceiveLogin, ReceiveGuarded, TypeOK, Arrive
  <1>9. ASSUME NEW C \in SUBSET Client, Forget(C)
        PROVE  UNCHANGED <<pc[d], call[d], user[d]>>
    BY <1>9 DEF Forget, TypeOK
  <1>10. ASSUME NEW c \in Client, ReceiveReply(c) \/ LoseReply(c)
         PROVE  UNCHANGED <<pc[d], call[d], user[d]>>
    BY <1>9, <1>10 DEF ReceiveReply, LoseReply
  <1>11. ASSUME Crash PROVE UNCHANGED <<pc[d], call[d], user[d]>>
    BY <1>9, <1>11 DEF Crash
  <1>12. ASSUME (\E id \in UserId : VmRowsChange(id) \/ DeleteById(id)) \/ Tick \/ UNCHANGED vars
         PROVE  UNCHANGED <<pc[d], call[d], user[d]>>
    BY <1>12 DEF VmRowsChange, DeleteById, Tick, vars, locals
  <1>. QED
    BY <1>1, <1>2, <1>3, <1>4, <1>5, <1>6, <1>7, <1>8, <1>10, <1>11, <1>12 DEF Next, Handle

LEMMA ProvenStep ==
    ASSUME HInv, [HistoryNext]_historyVars
    PROVE  Proven'
  <1>. SUFFICES ASSUME NEW d \in Client, pc'[d] \in Authorised
                PROVE  call'[d].password \in past'[user'[d].id]
    BY DEF Proven
  <1>1. TypeOK /\ [Next]_vars
    BY DEF HInv, IInv, HistoryNext, historyVars
  <1>2. CASE Compares(d)
    BY <1>2, PastGrows DEF Compares, HInv, Remembered, Registered
  <1>3. CASE Carries(d)
    <2>1. user[d].id \in UserId
      BY <1>1, <1>3 DEF Carries, Authorised, TypeOK, HandlerOK, Identity
    <2>. QED  BY <1>3, <2>1, PastGrows DEF Carries, HInv, Proven
  <1>. QED  BY <1>1, <1>2, <1>3, AuthorisedSource

LEMMA HistoryInvStep == HInv /\ [HistoryNext]_historyVars => HInv'
  <1>. SUFFICES ASSUME HInv, [HistoryNext]_historyVars PROVE HInv'
    OBVIOUS
  <1>1. IInv'
    BY InvariantStep DEF HInv, HistoryNext, historyVars
  <1>. QED  BY <1>1, RememberedStep, ProvenStep DEF HInv

\* Only the last step of a login or of a change-* operation writes a session.
LEMMA SessionSource ==
    ASSUME TypeOK, [Next]_vars, NEW id \in UserId, cache'[id] # None, cache'[id] # cache[id]
    PROVE  \E c \in Client :
              /\ pc[c] = "store" /\ user[c].id = id
              /\ cache'[id].token = fresh[c]
              /\ UNCHANGED <<users, user>>
  <1>1. ASSUME NEW c \in Client, Store(c)
        PROVE  /\ pc[c] = "store" /\ user[c].id = id
               /\ cache'[id].token = fresh[c]
               /\ UNCHANGED <<users, user>>
    BY <1>1 DEF Store, TypeOK
  <1>2. ASSUME NEW c \in Client, Logout(c) \/ Evict(c) PROVE FALSE
    BY <1>2 DEF Logout, Evict, TypeOK
  <1>3. CASE Tick
    BY <1>3 DEF Tick
  <1>4. ASSUME NEW c \in Client,
               \/ ReceiveRegister(c) \/ FindByUsername(c) \/ FindByEmail(c) \/ Insert(c)
               \/ ReceiveLogin(c) \/ ValidateUser(c) \/ ReceiveGuarded(c) \/ CheckSession(c)
        PROVE  cache' = cache
    BY <1>4 DEF ReceiveRegister, FindByUsername, FindByEmail, Insert, ReceiveLogin, ValidateUser,
                ReceiveGuarded, CheckSession, Arrive, ReadOnly
  <1>5. ASSUME NEW c \in Client,
               \/ Authorise(c) \/ CheckConflict(c) \/ Update(c) \/ Sign(c)
               \/ ReceiveReply(c) \/ LoseReply(c) \/ Reject(c)
        PROVE  cache' = cache
    BY <1>5 DEF Authorise, CheckConflict, Update, Sign, ReceiveReply, LoseReply, Reject, ReadOnly
  <1>6. ASSUME Crash \/ (\E i \in UserId : VmRowsChange(i) \/ DeleteById(i)) \/ UNCHANGED vars
        PROVE  cache' = cache
    BY <1>6 DEF Crash, VmRowsChange, DeleteById, vars
  <1>. QED  BY <1>1, <1>2, <1>3, <1>4, <1>5, <1>6 DEF Next, Handle

\* No interleaving of requests, fault or restart starts or renews a session
\* for a caller who did not send a password the account has or has had.
THEOREM OnlyProvenSessions == HistorySpec => SessionsAreProven
  <1>1. HInv /\ [HistoryNext]_historyVars
        => [\A id \in UserId :
              cache'[id] # None /\ cache'[id] # cache[id]
              => \E c \in Client :
                    /\ pc[c] = "store"
                    /\ user[c].id = id
                    /\ call[c].password \in past[id]]_historyVars
    <2>. SUFFICES ASSUME HInv, [HistoryNext]_historyVars,
                         NEW id \in UserId, cache'[id] # None, cache'[id] # cache[id]
                  PROVE  \E c \in Client :
                            /\ pc[c] = "store"
                            /\ user[c].id = id
                            /\ call[c].password \in past[id]
      OBVIOUS
    <2>1. TypeOK /\ [Next]_vars
      BY DEF HInv, IInv, HistoryNext, historyVars
    <2>2. PICK c \in Client : pc[c] = "store" /\ user[c].id = id
      BY <2>1, SessionSource
    <2>. QED  BY <2>2 DEF HInv, Proven, Authorised
  <1>. QED  BY <1>1, HistoryInvInit, HistoryInvStep, PTL DEF HistorySpec, SessionsAreProven
-----------------------------------------------------------------------------
(***************************************************************************)
(* An account whose requests ran one after another.                        *)
(***************************************************************************)
Matches(record, row) == record.username = row.username /\ record.email = row.email

\* What the handler of c will sign, or store, tells the row it has written; the
\* session tells the row as well, save between that write and the eviction.
HandlerCurrent(c) ==
    LET row == users[user[c].id]
    IN  /\ pc[c] \in {"authorise", "conflict", "update"} => Matches(user[c], row)
        /\ pc[c] \in {"evict", "sign"} => Matches(Renamed(user[c], call[c]), row)
        /\ pc[c] = "store" => Matches(fresh[c].user, row)

SessionCurrent(id) ==
    cache[id] # None /\ (\A c \in InFlight(id) : pc[c] # "evict")
    => Matches(cache[id].token.user, users[id])

Current(id) == SessionCurrent(id) /\ \A c \in InFlight(id) : HandlerCurrent(c)

UndisturbedCurrent == \A id \in Registered \ disturbed : Current(id)

\* A row's name and address after a change are those of the renamed session user.
LEMMA AmendedMatches ==
    ASSUME NEW identity \in Identity, NEW row \in Row, NEW body \in ChangeBody,
           Matches(identity, row)
    PROVE  Matches(Renamed(identity, body), Amended(row, body))
  <1>1. CASE body.op = "changeUsername"
    BY <1>1 DEF Amended, Renamed, ChangeBody, Row, Identity, Matches
  <1>2. CASE body.op = "changeEmail"
    BY <1>2 DEF Amended, Renamed, ChangeBody, Row, Identity, Matches
  <1>3. CASE body.op = "changePassword"
    BY <1>3 DEF Amended, Renamed, ChangeBody, Row, Identity, Matches
  <1>. QED  BY <1>1, <1>2, <1>3 DEF ChangeBody

\* A handler that has not moved, for a row that has not changed, is as it was.
LEMMA OthersCurrent ==
    ASSUME NEW c \in Client, HandlerCurrent(c),
           UNCHANGED <<pc[c], call[c], user[c], fresh[c], users[user[c].id]>>
    PROVE  HandlerCurrent(c)'
  BY DEF HandlerCurrent, Matches, Renamed

\* A step of one handler leaves the locals of another one alone.
LEMMA OthersUnmoved ==
    ASSUME TypeOK, NEW c \in Client, NEW d \in Client \ {c},
           \/ ReceiveRegister(c) \/ ReceiveLogin(c) \/ ReceiveGuarded(c)
           \/ Handle(c) \/ LoseReply(c) \/ Reject(c)
    PROVE  UNCHANGED <<pc[d], call[d], user[d], fresh[d]>>
  <1>1. CASE ReceiveRegister(c) \/ ReceiveLogin(c) \/ ReceiveGuarded(c)
    BY <1>1 DEF ReceiveRegister, ReceiveLogin, ReceiveGuarded, TypeOK, Arrive
  <1>2. CASE FindByUsername(c) \/ FindByEmail(c) \/ Insert(c) \/ ValidateUser(c)
    BY <1>2 DEF FindByUsername, FindByEmail, Insert, ValidateUser, TypeOK, Goto, Reply, ReadOnly
  <1>3. CASE CheckSession(c) \/ Logout(c) \/ Authorise(c) \/ CheckConflict(c)
    BY <1>3 DEF CheckSession, EnterHandler, Logout, Authorise, CheckConflict, TypeOK, Goto,
                Reply, ReadOnly
  <1>4. CASE Update(c) \/ Evict(c) \/ Sign(c) \/ Store(c) \/ Reject(c)
    BY <1>4 DEF Update, Evict, Sign, Store, Reject, TypeOK, Goto, Reply, ReadOnly
  <1>5. CASE ReceiveReply(c) \/ LoseReply(c)
    BY <1>5 DEF ReceiveReply, LoseReply, Forget, TypeOK
  <1>. QED  BY <1>1, <1>2, <1>3, <1>4, <1>5 DEF Handle

\* The row of an account changes in one step of a handler alone.
LEMMA RowSource ==
    ASSUME TypeOK, NewRows, [Next]_vars, NEW id \in Registered, id \in Registered',
           users'[id] # users[id]
    PROVE  \E c \in InFlight(id) : Update(c)
  <1>1. ASSUME NEW c \in Client, Update(c)
        PROVE  c \in InFlight(id)
    <2>1. user[c] \in Identity /\ user[c] # None
      BY <1>1, AuthAssumption DEF Update, TypeOK, HandlerOK, Assumption
    <2>. QED  BY <1>1, <2>1 DEF Update, InFlight, TypeOK, Registered
  <1>2. ASSUME NEW c \in Client, Insert(c) PROVE FALSE
    BY <1>2 DEF Insert, NewRows, RegisterStep, TypeOK, Registered
  <1>3. ASSUME NEW other \in UserId, DeleteById(other) PROVE FALSE
    BY <1>3 DEF DeleteById, TypeOK, Registered
  <1>4. ASSUME NEW c \in Client,
               \/ ReceiveRegister(c) \/ FindByUsername(c) \/ FindByEmail(c)
               \/ ReceiveLogin(c) \/ ValidateUser(c) \/ ReceiveGuarded(c) \/ CheckSession(c)
        PROVE  users' = users
    BY <1>4 DEF ReceiveRegister, FindByUsername, FindByEmail, ReceiveLogin, ValidateUser,
                ReceiveGuarded, CheckSession, Arrive, ReadOnly
  <1>5. ASSUME NEW c \in Client,
               \/ Logout(c) \/ Authorise(c) \/ CheckConflict(c) \/ Evict(c) \/ Sign(c)
               \/ Store(c) \/ ReceiveReply(c) \/ LoseReply(c) \/ Reject(c)
        PROVE  users' = users
    BY <1>5 DEF Logout, Authorise, CheckConflict, Evict, Sign, Store, ReceiveReply, LoseReply,
                Reject, ReadOnly
  <1>6. ASSUME Crash \/ (\E i \in UserId : VmRowsChange(i)) \/ Tick \/ UNCHANGED vars
        PROVE  users' = users
    BY <1>6 DEF Crash, VmRowsChange, Tick, vars
  <1>. QED  BY <1>1, <1>2, <1>3, <1>4, <1>5, <1>6 DEF Next, Handle

\* The entry the guard accepts is not one that a change has outdated: the
\* request would overlap that change from here on.
LEMMA GuardCurrent ==
    ASSUME TypeOK, NEW id \in Registered, Current(id), ~Overlapping(id)',
           NEW c \in Client, CheckSession(c), c \in InFlight(id)', pc'[c] \in {"logout", "authorise"}
    PROVE  HandlerCurrent(c)'
  <1>1. /\ Accepted(held[c])
        /\ user'[c] = held[c].user
        /\ users' = users
    BY DEF CheckSession, TypeOK, Reply
  <1>2. user'[c].id = id
    BY DEF InFlight
  <1>3. \A d \in InFlight(id) : d # c => d \in InFlight(id)'
    BY OthersUnmoved DEF Handle, InFlight
  <1>4. \A d \in InFlight(id) : pc[d] # "evict"
    BY <1>3 DEF Overlapping, CheckSession
  <1>5. Matches(user'[c], users[id])
    BY <1>1, <1>2, <1>4 DEF Accepted, Current, SessionCurrent
  <1>. QED  BY <1>1, <1>2, <1>5 DEF HandlerCurrent, Matches

\* The row a change writes is told by the token it will sign.
LEMMA UpdateCurrent ==
    ASSUME TypeOK, NEW id \in Registered, Current(id),
           NEW c \in InFlight(id), Update(c)
    PROVE  HandlerCurrent(c)'
  <1>1. /\ user[c] \in Identity /\ user[c].id = id
        /\ call[c] \in ChangeBody
        /\ users[id] \in Row
    BY DEF Update, TypeOK, HandlerOK, InFlight, Registered
  <1>2. Matches(Renamed(user[c], call[c]), Amended(users[id], call[c]))
    BY <1>1, AmendedMatches DEF Update, Current, HandlerCurrent
  <1>3. CASE pc'[c] = "evict"
    <2>. DEFINE row == Amended(users[id], call[c])
    <2>1. ~Duplicates(id, row) /\ users' = [users EXCEPT ![id] = row]
      <3>1. pc \in [Client -> Label]
        BY DEF TypeOK
      <3>. QED  BY <1>1, <1>3, <3>1 DEF Update, Reply, InFlight
    <2>2. users'[id] = row
      BY <2>1 DEF TypeOK, Registered
    <2>. QED  BY <1>1, <1>2, <1>3, <2>2 DEF Update, HandlerCurrent, Matches
  <1>4. CASE pc'[c] # "evict"
    BY <1>4 DEF Update, Goto, Reply, TypeOK, HandlerCurrent, InFlight
  <1>. QED  BY <1>3, <1>4

\* Every step of a handler keeps what it will sign, or store, true of the row.
LEMMA OwnStep ==
    ASSUME TypeOK, NEW id \in Registered, Current(id), ~Overlapping(id)',
           NEW c \in Client, c \in InFlight(id)',
           \/ ReceiveRegister(c) \/ ReceiveLogin(c) \/ ReceiveGuarded(c)
           \/ Handle(c) \/ LoseReply(c) \/ Reject(c)
    PROVE  HandlerCurrent(c)'
  <1>1. ASSUME pc'[c] \notin {"authorise", "conflict", "update", "evict", "sign", "store"}
        PROVE  HandlerCurrent(c)'
    BY <1>1 DEF HandlerCurrent
  <1>2. CASE ReceiveRegister(c) \/ ReceiveLogin(c) \/ ReceiveGuarded(c)
    BY <1>1, <1>2 DEF ReceiveRegister, ReceiveLogin, ReceiveGuarded, TypeOK, Arrive
  <1>3. CASE FindByUsername(c) \/ FindByEmail(c) \/ Insert(c)
    BY <1>1, <1>3 DEF FindByUsername, FindByEmail, Insert, TypeOK, Goto, Reply
  <1>4. CASE Logout(c) \/ Store(c) \/ Reject(c)
    BY <1>1, <1>4 DEF Logout, Store, Reject, TypeOK, Reply
  <1>5. CASE ReceiveReply(c) \/ LoseReply(c)
    BY <1>1, <1>5 DEF ReceiveReply, LoseReply, Forget, TypeOK
  <1>6. CASE ValidateUser(c)
    <2>1. call[c] \in LoginBody /\ call'[c] = call[c] /\ users' = users
      BY <1>6 DEF ValidateUser, TypeOK, HandlerOK
    <2>2. CASE pc'[c] = "sign"
      <3>1. Matches(user'[c], users[user'[c].id])
        BY <1>6, <2>2 DEF ValidateUser, TypeOK, Goto, Reply, Matches, WithUsername, Registered
      <3>2. Renamed(user'[c], call[c]) = user'[c]
        BY <2>1 DEF Renamed, LoginBody
      <3>. QED  BY <2>1, <2>2, <3>1, <3>2 DEF HandlerCurrent, Matches, Renamed
    <2>3. CASE pc'[c] = "reply"
      BY <1>1, <2>3
    <2>. QED  BY <1>6, <2>2, <2>3 DEF ValidateUser, TypeOK, Goto, Reply
  <1>7. CASE CheckSession(c)
    <2>1. pc'[c] \in {"reply", "logout", "authorise"}
      BY <1>7 DEF CheckSession, EnterHandler, TypeOK, Goto, Reply
    <2>. QED  BY <1>1, <1>7, <2>1, GuardCurrent
  <1>8. ASSUME UNCHANGED <<user, call, users>> PROVE c \in InFlight(id)
    BY <1>8 DEF InFlight
  <1>9. CASE Authorise(c) \/ CheckConflict(c)
    <2>1. c \in InFlight(id)
      BY <1>8, <1>9 DEF Authorise, CheckConflict, ReadOnly
    <2>2. pc[c] \in {"authorise", "conflict"} /\ pc'[c] \in {"reply", "conflict", "update"}
      BY <1>9 DEF Authorise, CheckConflict, TypeOK, Goto, Reply
    <2>3. UNCHANGED <<user, users>>
      BY <1>9 DEF Authorise, CheckConflict, ReadOnly
    <2>. QED  BY <2>1, <2>2, <2>3 DEF Current, HandlerCurrent, Matches
  <1>10. CASE Update(c)
    BY <1>10, UpdateCurrent DEF Update, InFlight
  <1>11. CASE Evict(c)
    <2>1. /\ c \in InFlight(id) /\ pc[c] = "evict" /\ pc'[c] = "sign"
          /\ UNCHANGED <<user, call, users>>
      BY <1>8, <1>11 DEF Evict, TypeOK, Goto
    <2>. QED  BY <2>1 DEF Current, HandlerCurrent, Matches, Renamed
  <1>12. CASE Sign(c)
    <2>1. /\ c \in InFlight(id) /\ pc[c] = "sign" /\ pc'[c] = "store"
          /\ fresh'[c].user = Renamed(user[c], call[c])
          /\ UNCHANGED <<user, call, users>>
      BY <1>8, <1>12 DEF Sign, TypeOK, Goto
    <2>. QED  BY <2>1 DEF Current, HandlerCurrent, Matches
  <1>. QED
    BY <1>2, <1>3, <1>4, <1>5, <1>6, <1>7, <1>9, <1>10, <1>11, <1>12 DEF Handle

\* What the handlers of an account will sign, or store, stays true of its row,
\* as long as there is one of them at a time.
LEMMA HandlersStep ==
    ASSUME TypeOK, NewRows, [Next]_vars, NEW id \in Registered, id \in Registered',
           Current(id), ~Overlapping(id)', NEW d \in Client, d \in InFlight(id)'
    PROVE  HandlerCurrent(d)'
  <1>1. ASSUME NEW c \in Client,
               \/ ReceiveRegister(c) \/ ReceiveLogin(c) \/ ReceiveGuarded(c)
               \/ Handle(c) \/ LoseReply(c) \/ Reject(c)
        PROVE  HandlerCurrent(d)'
    <2>1. CASE c = d
      BY <1>1, <2>1, OwnStep
    <2>2. CASE c # d
      <3>1. UNCHANGED <<pc[d], call[d], user[d], fresh[d]>>
        BY <1>1, <2>2, OthersUnmoved
      <3>2. d \in InFlight(id) /\ user[d].id = id
        BY <3>1 DEF InFlight
      <3>3. CASE users'[id] = users[id]
        BY <3>1, <3>2, <3>3, OthersCurrent DEF Current
      <3>4. CASE users'[id] # users[id]
        <4>1. PICK e \in InFlight(id) : Update(e)
          BY <3>4, RowSource
        <4>2. e \in InFlight(id)'
          BY <4>1 DEF Update, InFlight
        <4>3. e = d
          BY <4>2 DEF Overlapping
        <4>. QED  BY <4>1, <4>3, OwnStep DEF Handle, InFlight
      <3>. QED  BY <3>3, <3>4
    <2>. QED  BY <2>1, <2>2
  <1>2. CASE Crash
    BY <1>2 DEF Crash, Forget, InFlight
  <1>3. CASE (\E i \in UserId : VmRowsChange(i) \/ DeleteById(i)) \/ Tick \/ UNCHANGED vars
    <2>1. UNCHANGED <<pc, call, user, fresh>>
      BY <1>3 DEF VmRowsChange, DeleteById, Tick, vars, locals
    <2>2. users'[id] = users[id]
      BY <2>1, RowSource DEF Update, TypeOK, Goto, Reply, InFlight
    <2>. QED  BY <2>1, <2>2, OthersCurrent DEF Current, InFlight
  <1>. QED  BY <1>1, <1>2, <1>3 DEF Next

\* A change leaves the step before the eviction by evicting, or is cut short.
LEMMA EvictLeft ==
    ASSUME TypeOK, [Next]_vars, NEW c \in Client, pc[c] = "evict"
    PROVE  \/ pc'[c] = "evict" /\ user'[c] = user[c]
           \/ cache'[user[c].id] = None
           \/ CutShort(c)
  <1>1. CASE UNCHANGED <<pc[c], user[c]>>
    BY <1>1
  <1>2. ASSUME NEW d \in Client \ {c},
               \/ ReceiveRegister(d) \/ ReceiveLogin(d) \/ ReceiveGuarded(d)
               \/ Handle(d) \/ LoseReply(d) \/ Reject(d)
        PROVE  UNCHANGED <<pc[c], user[c]>>
    BY <1>2, OthersUnmoved
  <1>3. CASE Evict(c)
    <2>1. user[c].id \in UserId
      BY <1>3 DEF Evict, TypeOK, HandlerOK, Identity
    <2>. QED  BY <1>3, <2>1 DEF Evict, TypeOK
  <1>4. CASE Reject(c)
    BY <1>4 DEF Reject, Reply, TypeOK, CutShort
  <1>5. CASE Crash
    BY <1>5 DEF Crash, Forget, TypeOK, CutShort
  <1>6. ASSUME \/ ReceiveRegister(c) \/ ReceiveLogin(c) \/ ReceiveGuarded(c)
               \/ Handle(c) \/ LoseReply(c)
        PROVE  Evict(c)
    BY <1>6 DEF ReceiveRegister, ReceiveLogin, ReceiveGuarded, Arrive, LoseReply, Handle,
                FindByUsername, FindByEmail, Insert, ValidateUser, CheckSession, Logout,
                Authorise, CheckConflict, Update, Sign, Store, ReceiveReply
  <1>7. CASE (\E id \in UserId : VmRowsChange(id) \/ DeleteById(id)) \/ Tick \/ UNCHANGED vars
    <2>1. UNCHANGED <<pc, user>>
      BY <1>7 DEF VmRowsChange, DeleteById, Tick, vars, locals
    <2>. QED  BY <2>1
  <1>. QED  BY <1>1, <1>2, <1>3, <1>4, <1>5, <1>6, <1>7 DEF Next

\* And so does the session: it is replaced by a token that tells the row, and
\* while the row is ahead of it the change that evicts it is under way.
LEMMA SessionStep ==
    ASSUME TypeOK, NewRows, [Next]_vars, NEW id \in Registered, id \in Registered',
           Current(id), \A c \in InFlight(id) : ~CutShort(c)
    PROVE  SessionCurrent(id)'
  <1>. SUFFICES ASSUME cache'[id] # None, \A c \in InFlight(id)' : pc'[c] # "evict"
                PROVE  Matches(cache'[id].token.user, users'[id])
    BY DEF SessionCurrent, Matches
  <1>1. CASE cache'[id] # cache[id]
    <2>1. PICK c \in Client : /\ pc[c] = "store" /\ user[c].id = id
                              /\ cache'[id].token = fresh[c]
                              /\ UNCHANGED <<users, user>>
      BY <1>1, SessionSource DEF Registered
    <2>2. c \in InFlight(id)
      BY <2>1, AuthAssumption DEF InFlight, TypeOK, HandlerOK, Assumption
    <2>. QED  BY <2>1, <2>2 DEF Current, HandlerCurrent
  <1>2. CASE cache'[id] = cache[id] /\ users'[id] # users[id]
    <2>1. PICK c \in InFlight(id) : Update(c)
      BY <1>2, RowSource
    <2>2. c \in InFlight(id)'
      BY <2>1 DEF Update, InFlight
    <2>3. pc'[c] = "evict"
      BY <1>2, <2>1 DEF Update, Goto, TypeOK, InFlight
    <2>. QED  BY <2>2, <2>3
  <1>3. CASE cache'[id] = cache[id] /\ users'[id] = users[id]
    <2>1. ASSUME NEW c \in InFlight(id), pc[c] = "evict" PROVE FALSE
      <3>1. c \in Client /\ user[c].id = id /\ user[c] # None
        BY DEF InFlight
      <3>2. pc'[c] = "evict" /\ user'[c] = user[c]
        BY <1>3, <2>1, <3>1, EvictLeft
      <3>. QED  BY <3>1, <3>2 DEF InFlight
    <2>. QED  BY <1>3, <2>1 DEF Current, SessionCurrent
  <1>. QED  BY <1>1, <1>2, <1>3

\* An account that was not there before has no session, and nobody acts for it.
LEMMA NewAccount ==
    ASSUME IInv, IInv', [Next]_vars, NEW id \in UserId, id \notin Registered, id \in Registered'
    PROVE  cache'[id] = None /\ InFlight(id)' = {}
  <1>1. users[id] = None
    <2>. USE DEF IInv
    <2>1. users'[id] # users[id] /\ users'[id] # Deleted
      BY DEF Registered
    <2>. QED  BY <2>1, UsersStepped
              DEF UsersStep, RowInserted, RowAmended, RowDeleted, TypeOK, Registered
  <1>2. cache'[id] = None
    BY <1>1, CacheSource DEF IInv, SessionCoversToken, Traceable
  <1>3. InFlight(id)' = {}
    BY <1>1, UserSource DEF IInv, InFlight
  <1>. QED  BY <1>2, <1>3

LEMMA UndisturbedStep ==
    ASSUME IInv, UndisturbedCurrent, [HistoryNext]_historyVars
    PROVE  UndisturbedCurrent'
  <1>1. [Next]_vars
    BY DEF HistoryNext, historyVars
  <1>2. IInv'
    BY <1>1, InvariantStep
  <1>3. CASE UNCHANGED historyVars
    <2>1. UNCHANGED <<users, cache, pc, call, user, fresh, disturbed>>
      BY <1>3 DEF historyVars, vars, locals
    <2>. QED  BY <2>1 DEF UndisturbedCurrent, Registered, Current, SessionCurrent, HandlerCurrent,
                          InFlight, Matches, Renamed
  <1>4. CASE HistoryNext
    <2>. SUFFICES ASSUME NEW id \in UserId, id \in Registered', id \notin disturbed'
                  PROVE  Current(id)'
      BY DEF UndisturbedCurrent, Registered
    <2>1. id \notin disturbed /\ ~Overlapping(id)' /\ \A c \in InFlight(id) : ~CutShort(c)
      BY <1>4 DEF HistoryNext
    <2>2. CASE id \in Registered
      <3>1. Current(id)
        BY <2>1, <2>2 DEF UndisturbedCurrent
      <3>2. \A d \in InFlight(id)' : HandlerCurrent(d)'
        BY <1>1, <2>1, <2>2, <3>1, HandlersStep DEF IInv, InFlight
      <3>3. SessionCurrent(id)'
        BY <1>1, <2>1, <2>2, <3>1, SessionStep DEF IInv
      <3>. QED  BY <3>2, <3>3 DEF Current
    <2>3. CASE id \notin Registered
      BY <1>1, <1>2, <2>3, NewAccount DEF Current, SessionCurrent
    <2>. QED  BY <2>2, <2>3
  <1>. QED  BY <1>3, <1>4

UndisturbedInv == IInv /\ UndisturbedCurrent

LEMMA UndisturbedInvInit == HistoryInit => UndisturbedInv
  <1>. SUFFICES ASSUME HistoryInit PROVE UndisturbedInv
    OBVIOUS
  <1>1. Registered = {}
    BY DEF HistoryInit, Init, Registered
  <1>. QED  BY <1>1, InvariantInit DEF HistoryInit, UndisturbedInv, UndisturbedCurrent

LEMMA UndisturbedInvStep == UndisturbedInv /\ [HistoryNext]_historyVars => UndisturbedInv'
  <1>. SUFFICES ASSUME UndisturbedInv, [HistoryNext]_historyVars PROVE UndisturbedInv'
    OBVIOUS
  <1>1. TypeOK /\ [Next]_vars
    BY DEF UndisturbedInv, IInv, HistoryNext, historyVars
  <1>. QED  BY <1>1, InvariantStep, UndisturbedStep DEF UndisturbedInv

\* For an account whose requests never overlapped and were never cut short, the
\* session tells the row's name and address whenever no request of it runs: by
\* an invariant that says the same of what its handlers carry.
THEOREM UndisturbedSessionsMatch == HistorySpec => []UndisturbedSessionMatches
  <1>1. UndisturbedInv => UndisturbedSessionMatches
    BY DEF UndisturbedInv, UndisturbedCurrent, UndisturbedSessionMatches, Current,
           SessionCurrent, Matches
  <1>. QED  BY <1>1, UndisturbedInvInit, UndisturbedInvStep, PTL DEF HistorySpec
=============================================================================
