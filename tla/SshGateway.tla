----------------------------- MODULE SshGateway -----------------------------
(***************************************************************************)
(* The ssh-service: a WebSocket gateway that opens a shell on a host for   *)
(* each ssh or ssh-installation event of a socket, and passes on what the  *)
(* socket sends.  One NodeSSH object serves all sockets.  It holds one     *)
(* connection, the one of the latest connect, and a handler that asks it   *)
(* for a shell after an await gets it on whatever connection it holds then.*)
(*                                                                         *)
(* Events are numbered as they arrive, and a connection has the number of  *)
(* the event whose connect made it.                                        *)
(***************************************************************************)
EXTENDS Naturals

CONSTANTS
    Socket, Host,
    MaxEvents,      \* bound on the events that ask for a shell
    Faults,         \* TRUE: the process crashes
    None

VARIABLES
    socket,         \* socket[s]: new, connected or gone
    request,        \* request[e]: what event e asks for, or None
    pc,             \* pc[e]: how far its handler is
    connection,     \* connection[e]: the state of the connection it made
    current,        \* the connection NodeSSH holds, or None
    carrier,        \* carrier[e]: the connection e was served on last, or None
    shell,          \* shell[e]: the shell of e, open or closed, or None
    input,          \* input[e]: who typed into it
    disturbed       \* events before whose shell request another one connected

vars == <<socket, request, pc, connection, current, carrier, shell, input, disturbed>>

Event == 1..MaxEvents

\* An installation has its console on config.hostMachine, unless its payload
\* names a host, too: the payload is spread over the configuration.
Request == [op : {"ssh", "installation"}, socket : Socket, host : Host]

\* The service itself types the command that opens the console.
Service == "service"

\* A shell as its user sees it.
Shell == [host : Host, open : BOOLEAN, input : SUBSET (Socket \cup {Service})]

Init ==
    /\ socket = [s \in Socket |-> "new"]
    /\ request = [e \in Event |-> None]
    /\ pc = [e \in Event |-> "unsent"]
    /\ connection = [e \in Event |-> None]
    /\ current = None
    /\ carrier = [e \in Event |-> None]
    /\ shell = [e \in Event |-> None]
    /\ input = [e \in Event |-> {}]
    /\ disturbed = {}

(***************************************************************************)
(* The ssh and ssh-installation events                                     *)
(***************************************************************************)
Goto(e, label) == pc' = [pc EXCEPT ![e] = label]

\* Handlers that have yet to ask for their shell.
Waiting == {e \in Event : pc[e] \in {"connecting", "probing"}}

Arrives(e) ==
    /\ pc[e] = "unsent"
    /\ \A f \in Event : f < e => pc[f] # "unsent"
    /\ \E r \in Request : socket[r.socket] = "connected" /\ request' = [request EXCEPT ![e] = r]

\* Broken form: the connection at hand is used again.
Reuse(e) ==
    /\ Arrives(e)
    /\ IF current # None /\ connection[current] = "ready"
       THEN /\ carrier' = [carrier EXCEPT ![e] = current]
            /\ Goto(e, "opening")
            /\ UNCHANGED <<connection, current, disturbed>>
       ELSE /\ connection' = [connection EXCEPT ![e] = "pending"]
            /\ current' = e
            /\ disturbed' = disturbed \cup Waiting
            /\ Goto(e, "connecting")
            /\ UNCHANGED carrier
    /\ UNCHANGED <<socket, shell, input>>

\* Broken form: the previous connection is disposed of first.
Dispose(e) ==
    /\ Arrives(e)
    /\ connection' = [f \in Event |-> CASE f = e -> "pending"
                                        [] f = current -> "closed"
                                        [] OTHER -> connection[f]]
    /\ shell' = [f \in Event |->
                    IF shell[f] = "open" /\ carrier[f] = current THEN "closed" ELSE shell[f]]
    /\ current' = e
    /\ disturbed' = disturbed \cup Waiting
    /\ Goto(e, "connecting")
    /\ UNCHANGED <<socket, carrier, input>>

\* connect holds the new connection at once, and forgets the one before
\* without closing it.  A configuration it refuses changes nothing.
Receive(e) ==
    /\ Arrives(e)
    /\ \/ /\ connection' = [connection EXCEPT ![e] = "pending"]
          /\ current' = e
          /\ disturbed' = disturbed \cup Waiting
          /\ Goto(e, "connecting")
       \/ Goto(e, "failed") /\ UNCHANGED <<connection, current, disturbed>>
    /\ UNCHANGED <<socket, carrier, shell, input>>

\* Broken form: nobody looks whether there is a connection.
AskBlindly(e, label) == Goto(e, label) /\ carrier' = [carrier EXCEPT ![e] = current]

\* execCommand and requestShell go to the connection held now; without one
\* they reject.
Ask(e, label) ==
    IF current = None
    THEN Goto(e, "failed") /\ UNCHANGED carrier
    ELSE Goto(e, label) /\ carrier' = [carrier EXCEPT ![e] = current]

\* connect resolves, and the handler goes on to the next awaited call.
Connected(e) ==
    /\ pc[e] = "connecting"
    /\ connection[e] = "pending"
    /\ connection' = [connection EXCEPT ![e] = "ready"]
    /\ Ask(e, IF request[e].op = "ssh" THEN "opening" ELSE "probing")
    /\ UNCHANGED <<socket, request, current, shell, input, disturbed>>

\* NodeSSH lets go of a connection that ends, if it still holds it.
Drop(f) ==
    /\ connection' = [connection EXCEPT ![f] = "closed"]
    /\ current' = IF current = f THEN None ELSE current

\* Broken form: only the event ready ends the wait.
SwallowError(e) ==
    /\ pc[e] = "connecting"
    /\ Drop(e)
    /\ UNCHANGED <<socket, request, pc, carrier, shell, input, disturbed>>

\* connect rejects: refused, not authenticated or timed out.
NotConnected(e) ==
    /\ pc[e] = "connecting"
    /\ Drop(e)
    /\ Goto(e, "failed")
    /\ UNCHANGED <<socket, request, carrier, shell, input, disturbed>>

\* The first virsh console ends, whatever its result; or it rejects.
Probed(e) ==
    /\ pc[e] = "probing"
    /\ connection[carrier[e]] # "pending"
    /\ \/ Ask(e, "opening")
       \/ connection[carrier[e]] = "closed" /\ Goto(e, "failed") /\ UNCHANGED carrier
    /\ UNCHANGED <<socket, request, connection, current, shell, input, disturbed>>

\* The host opens the shell: the socket gets its listeners, an installation's
\* shell its command, and the event its answer.
Opened(e) ==
    /\ pc[e] = "opening"
    /\ connection[carrier[e]] = "ready"
    /\ shell' = [shell EXCEPT ![e] = "open"]
    /\ input' = [input EXCEPT ![e] = IF request[e].op = "installation" THEN {Service} ELSE {}]
    /\ Goto(e, "answered")
    /\ UNCHANGED <<socket, request, connection, current, carrier, disturbed>>

Refused(e) ==
    /\ pc[e] = "opening"
    /\ connection[carrier[e]] # "pending"
    /\ Goto(e, "failed")
    /\ UNCHANGED <<socket, request, connection, current, carrier, shell, input, disturbed>>

(***************************************************************************)
(* What a socket sends, and how shells, connections and sockets end        *)
(***************************************************************************)
\* Broken form: the listeners of a socket's earlier shell are replaced.
NewestShell(s) ==
    {e \in Event : /\ pc[e] = "answered" /\ request[e].socket = s
                   /\ \A f \in Event : f > e /\ pc[f] = "answered" => request[f].socket # s}

\* The shells with a listener on socket s: one for each of its answered events.
ShellsOf(s) == {e \in Event : pc[e] = "answered" /\ request[e].socket = s}

\* A command, SIGINT or SIGTSTP goes to all of them; one that has ended drops it.
Command(s) ==
    /\ socket[s] = "connected"
    /\ input' = [e \in Event |->
                    IF e \in ShellsOf(s) /\ shell[e] = "open"
                    THEN input[e] \cup {s}
                    ELSE input[e]]
    /\ UNCHANGED <<socket, request, pc, connection, current, carrier, shell, disturbed>>

ShellExits(e) ==
    /\ shell[e] = "open"
    /\ shell' = [shell EXCEPT ![e] = "closed"]
    /\ UNCHANGED <<socket, request, pc, connection, current, carrier, input, disturbed>>

\* A host ends an established connection, and the shells on it.
HostCloses(f) ==
    /\ connection[f] = "ready"
    /\ Drop(f)
    /\ shell' = [e \in Event |->
                    IF shell[e] = "open" /\ carrier[e] = f THEN "closed" ELSE shell[e]]
    /\ UNCHANGED <<socket, request, pc, carrier, input, disturbed>>

HandleConnection(s) ==
    /\ socket[s] = "new"
    /\ socket' = [socket EXCEPT ![s] = "connected"]
    /\ UNCHANGED <<request, pc, connection, current, carrier, shell, input, disturbed>>

\* The gateway logs it; shells and connections stay, and requests go on.
HandleDisconnect(s) ==
    /\ socket[s] = "connected"
    /\ socket' = [socket EXCEPT ![s] = "gone"]
    /\ UNCHANGED <<request, pc, connection, current, carrier, shell, input, disturbed>>

\* The process stops, with its sockets and connections, and starts again.
Crash ==
    /\ Faults
    /\ \E e \in Event : pc[e] # "unsent"
    /\ socket' = [s \in Socket |-> IF socket[s] = "connected" THEN "gone" ELSE socket[s]]
    /\ pc' = [e \in Event |->
                 IF pc[e] \in {"connecting", "probing", "opening", "answered"}
                 THEN "lost" ELSE pc[e]]
    /\ connection' = [e \in Event |-> IF connection[e] = None THEN None ELSE "closed"]
    /\ current' = None
    /\ shell' = [e \in Event |-> IF shell[e] = None THEN None ELSE "closed"]
    /\ UNCHANGED <<request, carrier, input, disturbed>>

Next ==
    \/ \E e \in Event :
          \/ Receive(e) \/ Connected(e) \/ NotConnected(e)
          \/ Probed(e) \/ Opened(e) \/ Refused(e)
          \/ ShellExits(e) \/ HostCloses(e)
    \/ \E s \in Socket : HandleConnection(s) \/ HandleDisconnect(s) \/ Command(s)
    \/ Crash

Spec == Init /\ [][Next]_vars

\* connect gives up after a time, and a host answers what it is asked on a
\* connection it has authenticated.  Nothing of the kind is known of what is
\* asked on the connection of another event, which may not be that far.
FairSpec ==
    /\ Spec
    /\ \A e \in Event :
          /\ WF_vars(Connected(e) \/ NotConnected(e))
          /\ WF_vars(carrier[e] = e /\ (Probed(e) \/ Opened(e) \/ Refused(e)))
-----------------------------------------------------------------------------
(***************************************************************************)
(* Properties                                                              *)
(***************************************************************************)
ASSUME GatewayAssumption ==
    /\ MaxEvents \in Nat
    /\ Faults \in BOOLEAN
    /\ None \notin Event \cup Request \cup Shell \cup {"open", "closed", "pending", "ready"}
    /\ Service \notin Socket

Label == {"unsent", "connecting", "probing", "opening", "answered", "failed", "lost"}

\* Every variable has its type; a handler that waits for a host has a
\* connection to wait on, and an open shell one that is established.
TypeOK ==
    /\ socket \in [Socket -> {"new", "connected", "gone"}]
    /\ request \in [Event -> Request \cup {None}]
    /\ pc \in [Event -> Label]
    /\ connection \in [Event -> {"pending", "ready", "closed", None}]
    /\ current \in Event \cup {None}
    /\ carrier \in [Event -> Event \cup {None}]
    /\ shell \in [Event -> {"open", "closed", None}]
    /\ input \in [Event -> SUBSET (Socket \cup {Service})]
    /\ disturbed \subseteq Event
    /\ current # None => connection[current] \in {"pending", "ready"}
    /\ \A e \in Event :
          /\ pc[e] # "unsent" => request[e] \in Request
          /\ pc[e] \in {"probing", "opening"} => carrier[e] \in Event
          /\ shell[e] = "open" => carrier[e] \in Event /\ connection[carrier[e]] = "ready"

\* What reaches the shell of an event reaches the host the event asked for,
\* where no other event connected between its connect and its shell request,
\* whatever connects, fails or closes before and after.
UndisturbedInputOnTarget ==
    \A e \in Event \ disturbed :
        input[e] # {} => request[carrier[e]].host = request[e].host

\* A shell outlives every later connect, though the service forgets the
\* connection it runs on: no step of another event's handler closes it.
EstablishedShellsSurvive ==
    [][\A e, f \in Event :
          shell[e] = "open" /\ pc'[f] \notin {pc[f], "lost"}
          => shell'[e] = "open"]_vars

\* An event is answered, in words or by an error, unless another one connected
\* before it asked for its shell, or the process stopped.
UndisturbedEventAnswered ==
    \A e \in Event :
        pc[e] \in {"connecting", "probing", "opening"}
        ~> pc[e] \in {"answered", "failed", "lost"} \/ e \in disturbed

\* The event asks for a shell, or has got one, and nobody has disturbed it.
Counts(e) ==
    /\ e \notin disturbed
    /\ shell[e] # None \/ pc[e] \in {"connecting", "probing", "opening"}

Asked == [e \in Event |-> IF Counts(e) THEN request[e] ELSE None]

ShellsGiven ==
    [e \in Event |->
        IF Counts(e) /\ shell[e] # None
        THEN [host |-> request[carrier[e]].host, open |-> shell[e] = "open", input |-> input[e]]
        ELSE None]

Abstract == INSTANCE Shells WITH asked <- Asked, shells <- ShellsGiven

\* With one connection at a time for all sockets, events that are not disturbed
\* still get their shells, or none, as if each had a connection of its own: on
\* the host they name, with all the input of their socket from then on, and
\* untouched by whatever is asked for, fails or ends beside them.
ShellsSpec == Abstract!Spec

\* "Connection established": the shell is one on the host the event asked for.
ShellOnRequestedHost ==
    \A e \in Event : pc[e] = "answered" => request[carrier[e]].host = request[e].host
=============================================================================
