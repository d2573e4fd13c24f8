------------------------------ MODULE Accounts ------------------------------
(***************************************************************************)
(* What the auth service promises, without its database, its Redis cache   *)
(* or its requests: a directory of accounts no two of which share a        *)
(* username or an e-mail address, and at most one session per account.     *)
(* A session is a signed token; once granted it is accepted until the      *)
(* token expires, unless it is revoked or replaced before.                 *)
(***************************************************************************)
EXTENDS Naturals

CONSTANTS
    UserId, Username, Email, Password, VmName,
    Lifespan,       \* seconds a token is valid (config.jwt.lifespan)
    None, Deleted   \* no account / session yet; an account that was removed

VARIABLES
    accounts,       \* accounts[id]: a Row, None or Deleted
    sessions,       \* sessions[id]: the Token accepted for id, or None
    now             \* the time in seconds

vars == <<accounts, sessions, now>>

Row == [username : Username, email : Email, password : Password]

Identity == [id : UserId, username : Username, email : Email, vms : SUBSET VmName]

Token == [user : Identity, iat : Nat]

Unexpired(token, time) == time < token.iat + Lifespan

\* No two accounts in the directory dir share a username or an e-mail.
Distinct(dir) ==
    \A i, j \in UserId :
        /\ i # j
        /\ dir[i] \in Row
        /\ dir[j] \in Row
        => dir[i].username # dir[j].username /\ dir[i].email # dir[j].email

Init ==
    /\ accounts = [id \in UserId |-> None]
    /\ sessions = [id \in UserId |-> None]
    /\ now = 0

\* An account changes as a whole, and the directory stays free of duplicates.
SetAccount(id, value) ==
    /\ accounts' = [accounts EXCEPT ![id] = value]
    /\ Distinct(accounts')
    /\ UNCHANGED <<sessions, now>>

Create(id) == accounts[id] = None /\ \E row \in Row : SetAccount(id, row)

\* One field of an existing account is replaced.
Amend(id) ==
    /\ accounts[id] \in Row
    /\ \/ \E u \in Username : SetAccount(id, [accounts[id] EXCEPT !.username = u])
       \/ \E e \in Email    : SetAccount(id, [accounts[id] EXCEPT !.email = e])
       \/ \E p \in Password : SetAccount(id, [accounts[id] EXCEPT !.password = p])

Remove(id) == accounts[id] \in Row /\ SetAccount(id, Deleted)

\* A session opens, or replaces another one, only for an account that was
\* created, with a token that names it and is valid at this moment.
Grant(id) ==
    /\ accounts[id] # None
    /\ \E identity \in Identity, issued \in 0..now :
          LET token == [user |-> identity, iat |-> issued]
          IN  /\ identity.id = id
              /\ Unexpired(token, now)
              /\ sessions' = [sessions EXCEPT ![id] = token]
    /\ UNCHANGED <<accounts, now>>

Revoke(id) ==
    /\ sessions' = [sessions EXCEPT ![id] = None]
    /\ UNCHANGED <<accounts, now>>

\* Time ends the sessions whose token expires, and no other one.
Tick ==
    /\ now' = now + 1
    /\ sessions' = [id \in UserId |->
                       IF sessions[id] # None /\ Unexpired(sessions[id], now')
                       THEN sessions[id]
                       ELSE None]
    /\ UNCHANGED accounts

Next ==
    \/ \E id \in UserId :
          Create(id) \/ Amend(id) \/ Remove(id) \/ Grant(id) \/ Revoke(id)
    \/ Tick

Spec == Init /\ [][Next]_vars
=============================================================================
