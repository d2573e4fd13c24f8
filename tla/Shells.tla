------------------------------- MODULE Shells -------------------------------
(***************************************************************************)
(* What the ssh-service promises, without connections and without the      *)
(* steps of its handlers: an event that asks for a shell gets one, on the  *)
(* host it names, or none; all that a socket sends reaches all its shells  *)
(* that are open, and no other; and a shell that has ended stays so.       *)
(***************************************************************************)
CONSTANTS
    Event, Host,
    Request,        \* who asks for a shell, and on which host
    Socket,
    Service,        \* types into the consoles of installations
    None

VARIABLES
    asked,          \* asked[e]: the request of event e, or None
    shells          \* shells[e]: the shell it got, or None

vars == <<asked, shells>>

Shell == [host : Host, open : BOOLEAN, input : SUBSET (Socket \cup {Service})]

Init ==
    /\ asked = [e \in Event |-> None]
    /\ shells = [e \in Event |-> None]

Pending == {e \in Event : asked[e] # None /\ shells[e] = None}

Open == {e \in Event : shells[e] # None /\ shells[e].open}

\* An event asks for a shell.  Some that were to get one may get none then.
Ask(e, overtaken) ==
    /\ asked[e] = None /\ shells[e] = None
    /\ overtaken \subseteq Pending
    /\ \E r \in Request :
          asked' = [f \in Event |-> CASE f = e -> r
                                      [] f \in overtaken -> None
                                      [] OTHER -> asked[f]]
    /\ UNCHANGED shells

Grant(e) ==
    /\ e \in Pending
    /\ shells' = [shells EXCEPT ![e] =
                    [host  |-> asked[e].host,
                     open  |-> TRUE,
                     input |-> IF asked[e].op = "installation" THEN {Service} ELSE {}]]
    /\ UNCHANGED asked

\* The shell of e, with more input and open or not.
Now(e, typed, open) ==
    [host |-> shells[e].host, open |-> open, input |-> shells[e].input \cup typed]

\* A command or a signal of a socket goes to all its shells.
Type(s) ==
    /\ shells' = [e \in Event |->
                     IF e \in Open /\ asked[e].socket = s
                     THEN Now(e, {s}, TRUE)
                     ELSE shells[e]]
    /\ UNCHANGED asked

\* Requests fail and shells end, by themselves or with what they depend on.
End(events) ==
    /\ events \subseteq Pending \cup Open
    /\ asked' = [e \in Event |-> IF e \in events \cap Pending THEN None ELSE asked[e]]
    /\ shells' = [e \in Event |->
                     IF e \in events \cap Open THEN Now(e, {}, FALSE) ELSE shells[e]]

Next ==
    \/ \E e \in Event : Grant(e) \/ \E overtaken \in SUBSET Event : Ask(e, overtaken)
    \/ \E s \in Socket : Type(s)
    \/ \E events \in SUBSET Event : End(events)

Spec == Init /\ [][Next]_vars
=============================================================================
