---------------------------- MODULE AuthHistory -----------------------------
(***************************************************************************)
(* The auth service with a memory of two things no variable of it keeps:   *)
(* the passwords an account has ever had, and the accounts for which two   *)
(* requests overlapped, or one was cut short, since they were created.     *)
(***************************************************************************)
EXTENDS AuthSessions

VARIABLES
    past,           \* past[id]: every password the row of id has held
    disturbed       \* the users whose requests did not run one after another

historyVars == <<vars, past, disturbed>>

\* The requests that act for the user id: past the guard or the password check.
InFlight(id) == {c \in Client : user[c] # None /\ user[c].id = id}

Overlapping(id) == \E c, d \in InFlight(id) : c # d

\* A fault ends the request of c between its change of the row and the end.
CutShort(c) ==
    /\ pc[c] \in {"evict", "sign", "store"}
    /\ \/ pc'[c] = "idle"
       \/ pc'[c] = "reply" /\ status'[c] = 500

HistoryInit ==
    /\ Init
    /\ past = [id \in UserId |-> {}]
    /\ disturbed = {}

HistoryNext ==
    /\ Next
    /\ past' = [id \in UserId |->
                   IF users'[id] \in Row THEN past[id] \cup {users'[id].password} ELSE past[id]]
    /\ disturbed' = disturbed
          \cup {id \in UserId : Overlapping(id)'}
          \cup {id \in UserId : \E c \in InFlight(id) : CutShort(c)}

HistorySpec == HistoryInit /\ [][HistoryNext]_historyVars

\* A session starts only for a caller who sent a password the account has or
\* has had, and that the service compared with the row: of an account whose
\* password never changed nobody without it opens a session or renews one.
SessionsAreProven ==
    [][\A id \in UserId :
          cache'[id] # None /\ cache'[id] # cache[id]
          => \E c \in Client :
                /\ pc[c] = "store"
                /\ user[c].id = id
                /\ call[c].password \in past[id]]_historyVars

\* Where requests of a user ran one after another, and none was cut short, the
\* session tells the user's current name and address between requests.
UndisturbedSessionMatches ==
    \A id \in Registered \ disturbed :
        InFlight(id) = {} /\ cache[id] # None
        => /\ cache[id].token.user.username = users[id].username
           /\ cache[id].token.user.email = users[id].email
=============================================================================
