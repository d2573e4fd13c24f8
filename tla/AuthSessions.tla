---------------------------- MODULE AuthSessions ----------------------------
(***************************************************************************)
(* The auth service: the users table in MySQL, the one session per user in *)
(* Redis (key: the user's id, value: the token, TTL: the token's lifespan) *)
(* and the requests in flight.  A request handler is a program counter     *)
(* with locals; each step is the code between two awaits, together with    *)
(* the effect of the awaited call on MySQL or Redis, so handlers           *)
(* interleave exactly where the event loop lets them.                      *)
(*                                                                         *)
(* A JWT is a signature over the session user and its time of issue in     *)
(* seconds: two tokens for the same user data signed in the same second    *)
(* are the same string, so a token is the record of these two.             *)
(***************************************************************************)
EXTENDS Naturals, FiniteSets

CONSTANTS
    Client, UserId, Username, Email, Password, VmName,
    Lifespan,       \* config.jwt.lifespan, of the token and of its Redis entry
    MaxTime,        \* bound on the clock
    Faults,         \* TRUE: calls to MySQL and Redis reject, answers get lost, the service crashes
    Deletions,      \* TRUE: UserService.deleteById is called (no handler does)
    None, Deleted

VARIABLES
    users,          \* users[id]: the row of the users table, None or Deleted
    owned,          \* owned[id]: the names of the user's rows in vm_instances
    cache,          \* cache[id]: the Redis entry of the user, or None
    now,            \* the time in seconds
    held,           \* held[c]: the token client c sends, or None
    pc,             \* pc[c]: the next step of the request c waits for
    call,           \* call[c]: its body
    user,           \* user[c]: req.user, once a guard has set it
    fresh,          \* fresh[c]: the token it has signed
    status          \* status[c]: the HTTP status of its answer

locals == <<pc, call, user, fresh, status>>
vars == <<users, owned, cache, now, held, locals>>

(***************************************************************************)
(* Data                                                                    *)
(***************************************************************************)
Row == [username : Username, email : Email, password : Password]

Identity == [id : UserId, username : Username, email : Email, vms : SUBSET VmName]

Token == [user : Identity, iat : Nat]

Entry == [token : Token, expires : Nat]

ChangeOp == {"changeUsername", "changeEmail", "changePassword"}

\* Registration carries the uuid that create() will generate for the row.
RegisterBody ==
    [op : {"register"}, id : UserId, username : Username, email : Email, password : Password]

LoginBody == [op : {"login"}, username : Username, password : Password]

ChangeBody ==
    [op : {"changeUsername"}, username : Username, password : Password]
    \cup [op : {"changeEmail"}, email : Email, password : Password]
    \cup {b \in [op : {"changePassword"}, newPassword : Password, password : Password] :
             b.newPassword # b.password}

\* A body the guard of login or the validation pipe of the others turns away:
\* a field that is missing or ill-formed, two entries of a password that
\* differ, a new password equal to the current one.
Malformed == [op : {"register", "login"} \cup ChangeOp]

TokenBody == [op : {"logout", "validateToken"}]

Body == RegisterBody \cup LoginBody \cup ChangeBody \cup Malformed \cup TokenBody

Unexpired(token, time) == time < token.iat + Lifespan

Registered == {id \in UserId : users[id] \notin {None, Deleted}}

WithUsername(name) == {id \in Registered : users[id].username = name}

WithEmail(email) == {id \in Registered : users[id].email = email}

\* Broken form: the e-mail column is not unique.
DuplicateNames(id, row) == WithUsername(row.username) \ {id} # {}

\* The unique columns of the users table refuse row as the row of id.
Duplicates(id, row) ==
    (WithUsername(row.username) \cup WithEmail(row.email)) \ {id} # {}

\* record (a row or a session user) with the name the request asks for.
Renamed(record, body) ==
    CASE body.op = "changeUsername" -> [record EXCEPT !.username = body.username]
      [] body.op = "changeEmail"    -> [record EXCEPT !.email = body.email]
      [] OTHER                      -> record

Amended(row, body) ==
    IF body.op = "changePassword"
    THEN [row EXCEPT !.password = body.newPassword]
    ELSE Renamed(row, body)

Init ==
    /\ users = [id \in UserId |-> None]
    /\ owned = [id \in UserId |-> {}]
    /\ cache = [id \in UserId |-> None]
    /\ now = 0
    /\ held = [c \in Client |-> None]
    /\ pc = [c \in Client |-> "idle"]
    /\ call = [c \in Client |-> None]
    /\ user = [c \in Client |-> None]
    /\ fresh = [c \in Client |-> None]
    /\ status = [c \in Client |-> None]

(***************************************************************************)
(* Control of a handler                                                    *)
(***************************************************************************)
Goto(c, label) ==
    /\ pc' = [pc EXCEPT ![c] = label]
    /\ UNCHANGED status

\* The handler returns, or throws what Nest turns into this status.
Reply(c, code) ==
    /\ pc' = [pc EXCEPT ![c] = "reply"]
    /\ status' = [status EXCEPT ![c] = code]

Arrive(c, body, label, code) ==
    /\ pc' = [pc EXCEPT ![c] = label]
    /\ call' = [call EXCEPT ![c] = body]
    /\ status' = [status EXCEPT ![c] = code]
    /\ UNCHANGED <<users, owned, cache, now, held, user, fresh>>

\* A step that only reads the table.
ReadOnly == UNCHANGED <<users, owned, cache, now, held, call, user, fresh>>

(***************************************************************************)
(* POST register                                                           *)
(***************************************************************************)
Unused(id) ==
    /\ users[id] = None
    /\ \A c \in Client : call[c] \in RegisterBody => call[c].id # id

ReceiveRegister(c) ==
    /\ pc[c] = "idle"
    /\ \/ \E body \in RegisterBody :
             Unused(body.id) /\ Arrive(c, body, "findByUsername", None)
       \/ Arrive(c, [op |-> "register"], "reply", 400)
FindByUsername(c) ==
    /\ pc[c] = "findByUsername"
    /\ IF WithUsername(call[c].username) # {}
       THEN Reply(c, 409)
       ELSE Goto(c, "findByEmail")
    /\ ReadOnly

FindByEmail(c) ==
    /\ pc[c] = "findByEmail"
    /\ IF WithEmail(call[c].email) # {}
       THEN Reply(c, 409)
       ELSE Goto(c, "insert")
    /\ ReadOnly

\* The two checks are stale by now: a unique column may refuse the row, and
\* nothing catches the QueryFailedError.
Insert(c) ==
    /\ pc[c] = "insert"
    /\ LET row == [username |-> call[c].username,
                   email    |-> call[c].email,
                   password |-> call[c].password]
       IN  IF Duplicates(call[c].id, row)
           THEN Reply(c, 500) /\ UNCHANGED users
           ELSE Reply(c, 201) /\ users' = [users EXCEPT ![call[c].id] = row]
    /\ UNCHANGED <<owned, cache, now, held, call, user, fresh>>

(***************************************************************************)
(* POST login                                                              *)
(***************************************************************************)
ReceiveLogin(c) ==
    /\ pc[c] = "idle"
    /\ \/ \E body \in LoginBody : Arrive(c, body, "validateUser", None)
       \/ Arrive(c, [op |-> "login"], "reply", 403)

\* Broken form: the query of the machines has no WHERE.
ListAllMachines(c) ==
    /\ pc[c] = "validateUser"
    /\ \E id \in WithUsername(call[c].username) :
          user' = [user EXCEPT ![c] =
                      [id |-> id, username |-> users[id].username, email |-> users[id].email,
                       vms |-> UNION {owned[i] : i \in UserId}]]
    /\ Goto(c, "sign")
    /\ UNCHANGED <<users, owned, cache, now, held, call, fresh>>

\* The session user is a copy of the row, and of the names of the user's
\* machines, as they are at this moment.
ValidateUser(c) ==
    /\ pc[c] = "validateUser"
    /\ \/ /\ WithUsername(call[c].username) = {}
          /\ Reply(c, 404)
          /\ UNCHANGED user
       \/ \E id \in WithUsername(call[c].username) :
             IF users[id].password # call[c].password
             THEN Reply(c, 403) /\ UNCHANGED user
             ELSE /\ user' = [user EXCEPT ![c] =
                                 [id       |-> id,
                                  username |-> users[id].username,
                                  email    |-> users[id].email,
                                  vms      |-> owned[id]]]
                  /\ Goto(c, "sign")
    /\ UNCHANGED <<users, owned, cache, now, held, call, fresh>>

(***************************************************************************)
(* JwtAuthGuard, in front of logout, validate-token and the change-*       *)
(* operations.  The token's expiry is checked as the request arrives; only *)
(* logout has no filter that turns the error of the JWT library into 401.  *)
(***************************************************************************)
ReceiveGuarded(c) ==
    /\ pc[c] = "idle"
    /\ \E body \in ChangeBody \cup TokenBody \cup [op : ChangeOp] :
          \/ /\ held[c] # None
             /\ Unexpired(held[c], now)
             /\ Arrive(c, body, "guard", None)
          \/ /\ held[c] = None
             /\ Arrive(c, body, "reply", 401)
          \/ /\ held[c] # None
             /\ ~Unexpired(held[c], now)
             /\ Arrive(c, body, "reply", IF body.op = "logout" THEN 500 ELSE 401)

Accepted(token) ==
    /\ cache[token.user.id] # None
    /\ cache[token.user.id].token = token

\* Broken form: the handlers' validation pipe lets every body through.
EnterUnvalidated(c) ==
    CASE call[c].op = "logout"        -> Goto(c, "logout")
      [] call[c].op = "validateToken" -> Reply(c, 200)
      [] OTHER                        -> Goto(c, "authorise")

\* The validation pipe and the handler run after the guard.
EnterHandler(c) ==
    CASE call[c].op = "logout"        -> Goto(c, "logout")
      [] call[c].op = "validateToken" -> Reply(c, 200)
      [] call[c] \in Malformed        -> Reply(c, 400)
      [] OTHER                        -> Goto(c, "authorise")

CheckSession(c) ==
    /\ pc[c] = "guard"
    /\ IF Accepted(held[c])
       THEN /\ user' = [user EXCEPT ![c] = held[c].user]
            /\ EnterHandler(c)
       ELSE Reply(c, 401) /\ UNCHANGED user
    /\ UNCHANGED <<users, owned, cache, now, held, call, fresh>>

\* POST logout: whatever the entry holds by now is deleted.
Logout(c) ==
    /\ pc[c] = "logout"
    /\ cache' = [cache EXCEPT ![user[c].id] = None]
    /\ Reply(c, 204)
    /\ UNCHANGED <<users, owned, now, held, call, user, fresh>>

(***************************************************************************)
(* POST users/change-username, change-email, change-password               *)
(***************************************************************************)
\* Broken form: the session is enough, the password is not compared.
AuthoriseSession(c) ==
    /\ pc[c] = "authorise"
    /\ IF user[c].id \notin Registered
       THEN Reply(c, 404)
       ELSE Goto(c, IF call[c].op = "changePassword" THEN "update" ELSE "conflict")
    /\ ReadOnly

Authorise(c) ==
    /\ pc[c] = "authorise"
    /\ IF user[c].id \notin Registered
       THEN Reply(c, 404)
       ELSE IF users[user[c].id].password # call[c].password
            THEN Reply(c, 403)
            ELSE Goto(c, IF call[c].op = "changePassword" THEN "update" ELSE "conflict")
    /\ ReadOnly

CheckConflict(c) ==
    /\ pc[c] = "conflict"
    /\ IF \/ call[c].op = "changeUsername" /\ WithUsername(call[c].username) # {}
          \/ call[c].op = "changeEmail" /\ WithEmail(call[c].email) # {}
       THEN Reply(c, 409)
       ELSE Goto(c, "update")
    /\ ReadOnly

\* Broken form: the session user is saved as a row, which inserts a missing one.
Upsert(c) ==
    /\ pc[c] = "update"
    /\ LET row == [username |-> user[c].username,
                   email    |-> user[c].email,
                   password |-> call[c].password]
       IN  users' = [users EXCEPT ![user[c].id] = Amended(row, call[c])]
    /\ Goto(c, "evict")
    /\ UNCHANGED <<owned, cache, now, held, call, user, fresh>>

\* UPDATE ... WHERE id: it changes the row that is there now, if there is one.
Update(c) ==
    /\ pc[c] = "update"
    /\ LET id  == user[c].id
           row == Amended(users[id], call[c])
       IN  IF id \notin Registered
           THEN Goto(c, "evict") /\ UNCHANGED users
           ELSE IF Duplicates(id, row)
                THEN Reply(c, 500) /\ UNCHANGED users
                ELSE Goto(c, "evict") /\ users' = [users EXCEPT ![id] = row]
    /\ UNCHANGED <<owned, cache, now, held, call, user, fresh>>

Evict(c) ==
    /\ pc[c] = "evict"
    /\ cache' = [cache EXCEPT ![user[c].id] = None]
    /\ Goto(c, "sign")
    /\ UNCHANGED <<users, owned, now, held, call, user, fresh>>

(***************************************************************************)
(* The end of login and of the change-* operations.  Signing stamps the    *)
(* token; Redis stores it, and starts its TTL, when the command gets there.*)
(***************************************************************************)
\* Broken form: the time of issue is rounded up.
SignEarly(c) ==
    /\ pc[c] = "sign"
    /\ fresh' = [fresh EXCEPT ![c] = [user |-> Renamed(user[c], call[c]), iat |-> now + 1]]
    /\ Goto(c, "store")
    /\ UNCHANGED <<users, owned, cache, now, held, call, user>>

\* Broken form: the token is signed for the user as the guard found it.
SignUnchanged(c) ==
    /\ pc[c] = "sign"
    /\ fresh' = [fresh EXCEPT ![c] = [user |-> user[c], iat |-> now]]
    /\ Goto(c, "store")
    /\ UNCHANGED <<users, owned, cache, now, held, call, user>>

Sign(c) ==
    /\ pc[c] = "sign"
    /\ fresh' = [fresh EXCEPT ![c] = [user |-> Renamed(user[c], call[c]), iat |-> now]]
    /\ Goto(c, "store")
    /\ UNCHANGED <<users, owned, cache, now, held, call, user>>

\* Broken form: the entry's TTL is one second too short.
StoreBriefly(c) ==
    /\ pc[c] = "store"
    /\ cache' = [cache EXCEPT ![user[c].id] =
                    [token |-> fresh[c], expires |-> now + Lifespan - 1]]
    /\ Reply(c, 200)
    /\ UNCHANGED <<users, owned, now, held, call, user, fresh>>

Store(c) ==
    /\ pc[c] = "store"
    /\ cache' = [cache EXCEPT ![user[c].id] =
                    [token |-> fresh[c], expires |-> now + Lifespan]]
    /\ Reply(c, 200)
    /\ UNCHANGED <<users, owned, now, held, call, user, fresh>>

(***************************************************************************)
(* Answers and faults                                                      *)
(***************************************************************************)
Forget(C) ==
    /\ pc' = [c \in Client |-> IF c \in C THEN "idle" ELSE pc[c]]
    /\ call' = [c \in Client |-> IF c \in C THEN None ELSE call[c]]
    /\ user' = [c \in Client |-> IF c \in C THEN None ELSE user[c]]
    /\ fresh' = [c \in Client |-> IF c \in C THEN None ELSE fresh[c]]
    /\ status' = [c \in Client |-> IF c \in C THEN None ELSE status[c]]

\* The client takes the token of a 200; only validate-token answers 200 without one.
ReceiveReply(c) ==
    /\ pc[c] = "reply"
    /\ held' = IF status[c] = 200 /\ fresh[c] # None
               THEN [held EXCEPT ![c] = fresh[c]]
               ELSE held
    /\ Forget({c})
    /\ UNCHANGED <<users, owned, cache, now>>

LoseReply(c) ==
    /\ Faults
    /\ pc[c] = "reply"
    /\ Forget({c})
    /\ UNCHANGED <<users, owned, cache, now, held>>

\* The awaited call to MySQL or Redis rejects: the handler ends there, and
\* what it did before stays done.
Reject(c) ==
    /\ Faults
    /\ pc[c] \notin {"idle", "sign", "reply"}
    /\ Reply(c, 500)
    /\ ReadOnly

\* The process stops and starts again: MySQL and Redis keep their contents.
Crash ==
    /\ Faults
    /\ \E c \in Client : pc[c] # "idle"
    /\ Forget(Client)
    /\ UNCHANGED <<users, owned, cache, now, held>>

(***************************************************************************)
(* The environment                                                         *)
(***************************************************************************)
\* vm-manager adds and removes rows of vm_instances.
VmRowsChange(id) ==
    /\ id \in Registered
    /\ \E names \in SUBSET VmName :
          names # owned[id] /\ owned' = [owned EXCEPT ![id] = names]
    /\ UNCHANGED <<users, cache, now, held, locals>>

\* The foreign key of vm_instances refuses to delete a user who has machines.
DeleteById(id) ==
    /\ Deletions
    /\ id \in Registered
    /\ owned[id] = {}
    /\ users' = [users EXCEPT ![id] = Deleted]
    /\ UNCHANGED <<owned, cache, now, held, locals>>

\* Redis drops the entries whose TTL has passed.
Tick ==
    /\ now < MaxTime
    /\ now' = now + 1
    /\ cache' = [id \in UserId |->
                    IF cache[id] # None /\ cache[id].expires > now'
                    THEN cache[id]
                    ELSE None]
    /\ UNCHANGED <<users, owned, held, locals>>

Handle(c) ==
    \/ FindByUsername(c) \/ FindByEmail(c) \/ Insert(c)
    \/ ValidateUser(c)
    \/ CheckSession(c) \/ Logout(c)
    \/ Authorise(c) \/ CheckConflict(c) \/ Update(c) \/ Evict(c)
    \/ Sign(c) \/ Store(c)
    \/ ReceiveReply(c)

Next ==
    \/ \E c \in Client :
          \/ ReceiveRegister(c) \/ ReceiveLogin(c) \/ ReceiveGuarded(c)
          \/ Handle(c)
          \/ LoseReply(c) \/ Reject(c)
    \/ Crash
    \/ \E id \in UserId : VmRowsChange(id) \/ DeleteById(id)
    \/ Tick

Spec == Init /\ [][Next]_vars
-----------------------------------------------------------------------------
(***************************************************************************)
(* Properties                                                              *)
(***************************************************************************)
Assumption ==
    /\ Lifespan \in Nat \ {0}
    /\ MaxTime \in Nat
    /\ Faults \in BOOLEAN
    /\ Deletions \in BOOLEAN
    /\ None # Deleted
    /\ {None, Deleted} \cap (Row \cup Identity \cup Token \cup Entry \cup Body) = {}

ASSUME AuthAssumption == Assumption

RegisterStep == {"findByUsername", "findByEmail", "insert"}

Label ==
    RegisterStep \cup
    {"idle", "validateUser", "guard", "logout",
     "authorise", "conflict", "update", "evict", "sign", "store", "reply"}

\* The locals a handler has at each of its steps.
HandlerOK(c) ==
    /\ pc[c] \in RegisterStep => call[c] \in RegisterBody
    /\ pc[c] = "validateUser" => call[c] \in LoginBody
    /\ pc[c] = "guard" => /\ call[c] \in ChangeBody \cup TokenBody \cup [op : ChangeOp]
                          /\ held[c] \in Token
    /\ pc[c] \in {"authorise", "conflict", "update", "evict"} => call[c] \in ChangeBody
    /\ pc[c] \in {"sign", "store"} => call[c] \in LoginBody \cup ChangeBody
    /\ pc[c] \in {"logout", "authorise", "conflict", "update", "evict", "sign", "store"}
          => user[c] \in Identity
    /\ pc[c] = "store" => fresh[c] \in Token /\ fresh[c].user.id = user[c].id

\* Every variable has its type, and every handler the body, the user and the
\* token that the rest of it reads: no step of a request finds them missing.
TypeOK ==
    /\ users \in [UserId -> Row \cup {None, Deleted}]
    /\ owned \in [UserId -> SUBSET VmName]
    /\ cache \in [UserId -> Entry \cup {None}]
    /\ now \in Nat
    /\ held \in [Client -> Token \cup {None}]
    /\ pc \in [Client -> Label]
    /\ call \in [Client -> Body \cup {None}]
    /\ user \in [Client -> Identity \cup {None}]
    /\ fresh \in [Client -> Token \cup {None}]
    /\ status \in [Client -> {200, 201, 204, 400, 401, 403, 404, 409, 500, None}]
    /\ \A c \in Client : HandlerOK(c)

\* No two accounts share a username or an e-mail address, whichever requests
\* overlap: register, changeUsername and changeEmail look for a duplicate one
\* or two awaits before they write, so the lookup alone does not ensure it.
UniqueAccounts ==
    \A i, j \in Registered :
        i # j => users[i].username # users[j].username /\ users[i].email # users[j].email

\* A token was signed by now, for an account that was created.  (The row may
\* be gone since: nothing ends the session of a deleted user.)
Traceable(token) == users[token.user.id] # None /\ token.iat <= now

\* Every token and every user a guard has set can be traced to an account.
IdentitiesTraceable ==
    /\ \A c \in Client :
          /\ user[c] # None => users[user[c].id] # None
          /\ held[c] # None => Traceable(held[c])
          /\ fresh[c] # None => Traceable(fresh[c])
    /\ \A id \in UserId : cache[id] # None => Traceable(cache[id].token)

\* The session stored under a user's id is that user's, and Redis keeps it at
\* least until the token expires: a valid token is never refused because its
\* entry timed out first, however late the SET command reached Redis.
SessionCoversToken ==
    \A id \in UserId : cache[id] # None =>
        /\ cache[id].token.user.id = id
        /\ cache[id].token.iat + Lifespan <= cache[id].expires

\* The row a registration is about to insert is a new one.
NewRows ==
    \A c \in Client : pc[c] \in RegisterStep =>
        /\ users[call[c].id] = None
        /\ \A d \in Client \ {c} : pc[d] \in RegisterStep => call[d].id # call[c].id

\* What makes these inductive, and the refinement below hold.
IInv == TypeOK /\ UniqueAccounts /\ IdentitiesTraceable /\ SessionCoversToken /\ NewRows

\* The session the service accepts for id, if any.
Session(id) ==
    IF cache[id] # None /\ Unexpired(cache[id].token, now) THEN cache[id].token ELSE None

Abstract == INSTANCE Accounts WITH
    accounts <- users,
    sessions <- [id \in UserId |-> Session(id)]

\* The service implements a directory of accounts without duplicates where a
\* session starts for an account that exists, lasts as long as its token
\* unless it is revoked or replaced, and ends no later than the token.
AccountsSpec == Abstract!Spec
=============================================================================
