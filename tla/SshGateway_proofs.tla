------------------------- MODULE SshGateway_proofs -------------------------
(***************************************************************************)
(* Proofs about the ssh-service, for any number of sockets, hosts and      *)
(* events, with and without crashes.                                       *)
(***************************************************************************)
EXTENDS SshGateway, TLAPS

\* An event has no shell and no input before it is answered, and a shell that is
\* open only then; before its connect ends its connection is pending, and before
\* it arrives it has none.
EventOK(e) ==
    /\ pc[e] = "unsent" => connection[e] = None /\ e \notin disturbed
    /\ pc[e] = "connecting" => connection[e] = "pending"
    /\ pc[e] \in {"unsent", "connecting", "probing", "opening", "failed"} =>
          shell[e] = None /\ input[e] = {}
    /\ shell[e] = "open" => pc[e] = "answered"
    /\ input[e] # {} \/ shell[e] # None => carrier[e] \in Event

\* NodeSSH holds the connection of an event that nobody has disturbed, or none,
\* until the event has asked for its shell: it is served on its own connection.
Served(e) ==
    e \notin disturbed =>
        /\ carrier[e] \in {e, None}
        /\ e \in Waiting => current \in {e, None}

GatewayInv ==
    /\ TypeOK
    /\ \A e \in Event : EventOK(e) /\ Served(e)

\* At first nothing is held, asked for or open.
LEMMA InvInit == Init => GatewayInv
  <1>. SUFFICES ASSUME Init PROVE GatewayInv
    OBVIOUS
  <1>1. TypeOK
    BY GatewayAssumption DEF GatewayAssumption, Init, TypeOK, Label
  <1>2. ASSUME NEW e \in Event
        PROVE  EventOK(e) /\ Served(e)
    BY <1>2, GatewayAssumption
       DEF Init, EventOK, Served, Waiting, GatewayAssumption
  <1>. QED  BY <1>1, <1>2 DEF GatewayInv

\* What an event that arrives changes: its own number, and what NodeSSH holds.
LEMMA ReceiveInv ==
    ASSUME GatewayInv, NEW e \in Event, Receive(e)
    PROVE  GatewayInv'
  <1>1. /\ pc[e] = "unsent"
        /\ UNCHANGED <<socket, carrier, shell, input>>
        /\ \E r \in Request : request' = [request EXCEPT ![e] = r]
    BY DEF Receive, Arrives
  <1>2. TypeOK /\ \A f \in Event : EventOK(f) /\ Served(f)
    BY DEF GatewayInv
  <1>4. CASE /\ connection' = [connection EXCEPT ![e] = "pending"]
             /\ current' = e
             /\ disturbed' = disturbed \cup Waiting
             /\ Goto(e, "connecting")
    <2>1. TypeOK'
      BY <1>1, <1>2, <1>4, GatewayAssumption
         DEF TypeOK, EventOK, Goto, Label, Waiting, GatewayAssumption
    <2>2. \A f \in Event : EventOK(f)'
      BY <1>1, <1>2, <1>4, GatewayAssumption
         DEF TypeOK, EventOK, Goto, Waiting, GatewayAssumption
    <2>3. \A f \in Event : Served(f)'
      BY <1>1, <1>2, <1>4 DEF TypeOK, Served, Goto, Waiting
    <2>. QED  BY <2>1, <2>2, <2>3 DEF GatewayInv
  <1>5. CASE Goto(e, "failed") /\ UNCHANGED <<connection, current, disturbed>>
    <2>1. TypeOK'
      BY <1>1, <1>2, <1>5 DEF TypeOK, EventOK, Goto, Label
    <2>2. \A f \in Event : EventOK(f)'
      BY <1>1, <1>2, <1>5 DEF TypeOK, EventOK, Goto
    <2>3. \A f \in Event : Served(f)'
      BY <1>1, <1>2, <1>5 DEF TypeOK, Served, Goto, Waiting
    <2>. QED  BY <2>1, <2>2, <2>3 DEF GatewayInv
  <1>. QED  BY <1>4, <1>5 DEF Receive

\* A handler that asks for its shell, or for a probe, is served on its own
\* connection if nobody has connected since.
LEMMA AskServed ==
    ASSUME GatewayInv, NEW e \in Event, NEW label \in {"probing", "opening"},
           e \in Waiting, Ask(e, label)
    PROVE  /\ pc' \in [Event -> Label]
           /\ pc'[e] \in {label, "failed"}
           /\ \A f \in Event \ {e} : pc'[f] = pc[f]
           /\ carrier' \in [Event -> Event \cup {None}]
           /\ \A f \in Event \ {e} : carrier'[f] = carrier[f]
           /\ pc'[e] = label => carrier'[e] \in Event
           /\ e \notin disturbed => carrier'[e] \in {e, None}
  <1>1. /\ pc \in [Event -> Label]
        /\ carrier \in [Event -> Event \cup {None}]
        /\ current \in Event \cup {None}
        /\ Served(e)
    BY DEF GatewayInv, TypeOK
  <1>2. CASE current = None
    BY <1>1, <1>2 DEF Ask, Goto, Label, Served
  <1>3. CASE current # None
    BY <1>1, <1>3 DEF Ask, Goto, Label, Served
  <1>. QED  BY <1>2, <1>3

\* The end of a connect, or of a probe, keeps the invariant.
LEMMA AskInv ==
    ASSUME GatewayInv, NEW e \in Event, Connected(e) \/ Probed(e)
    PROVE  GatewayInv'
  <1>1. TypeOK /\ \A f \in Event : EventOK(f) /\ Served(f)
    BY DEF GatewayInv
  <1>2. /\ UNCHANGED <<socket, request, current, shell, input, disturbed>>
        /\ e \in Waiting
    BY DEF Connected, Probed, Waiting
  <1>3. /\ connection' \in [Event -> {"pending", "ready", "closed", None}]
        /\ \A f \in Event \ {e} : connection'[f] = connection[f]
        /\ connection'[e] # connection[e] => connection[e] = "pending" /\ connection'[e] = "ready"
    BY <1>1 DEF Connected, Probed, TypeOK
  <1>4. PICK label \in {"probing", "opening"} :
           \/ Ask(e, label)
           \/ Goto(e, "failed") /\ UNCHANGED carrier
    BY DEF Connected, Probed
  <1>5. /\ pc' \in [Event -> Label]
        /\ pc'[e] \in {label, "failed"}
        /\ \A f \in Event \ {e} : pc'[f] = pc[f]
        /\ carrier' \in [Event -> Event \cup {None}]
        /\ \A f \in Event \ {e} : carrier'[f] = carrier[f]
        /\ pc'[e] = label => carrier'[e] \in Event
        /\ e \notin disturbed => carrier'[e] \in {e, None}
    <2>1. CASE Ask(e, label)
      BY <1>2, <2>1, AskServed
    <2>2. CASE Goto(e, "failed") /\ UNCHANGED carrier
      BY <1>1, <2>2 DEF Goto, TypeOK, Label, Served
    <2>. QED  BY <1>4, <2>1, <2>2
  <1>6. TypeOK'
    <2>1. current' # None => connection'[current'] \in {"pending", "ready"}
      BY <1>1, <1>2, <1>3 DEF TypeOK
    <2>2. ASSUME NEW f \in Event
          PROVE  /\ pc'[f] # "unsent" => request'[f] \in Request
                 /\ pc'[f] \in {"probing", "opening"} => carrier'[f] \in Event
      BY <1>1, <1>2, <1>5 DEF TypeOK, Waiting
    <2>3. ASSUME NEW f \in Event, shell'[f] = "open"
          PROVE  carrier'[f] \in Event /\ connection'[carrier'[f]] = "ready"
      <3>1. f # e
        BY <1>1, <1>2, <2>3, GatewayAssumption DEF EventOK, Waiting, GatewayAssumption
      <3>. QED  BY <1>1, <1>2, <1>3, <1>5, <2>3, <3>1 DEF TypeOK
    <2>. QED  BY <1>1, <1>2, <1>3, <1>5, <2>1, <2>2, <2>3 DEF TypeOK
  <1>7. ASSUME NEW f \in Event
        PROVE  EventOK(f)' /\ Served(f)'
    <2>1. CASE f = e
      BY <1>1, <1>2, <1>5, <2>1 DEF EventOK, Served, Waiting
    <2>2. CASE f # e
      BY <1>1, <1>2, <1>3, <1>5, <2>2 DEF EventOK, Served, Waiting
    <2>. QED  BY <2>1, <2>2
  <1>. QED  BY <1>6, <1>7 DEF GatewayInv

\* So do the ends of a handler: no connection, a shell, none.
LEMMA EndInv ==
    ASSUME GatewayInv, NEW e \in Event, NotConnected(e) \/ Opened(e) \/ Refused(e)
    PROVE  GatewayInv'
  <1>1. TypeOK /\ \A f \in Event : EventOK(f) /\ Served(f)
    BY DEF GatewayInv
  <1>2. CASE NotConnected(e)
    <2>1. /\ pc[e] = "connecting" /\ connection[e] = "pending"
          /\ connection' = [connection EXCEPT ![e] = "closed"]
          /\ current' = IF current = e THEN None ELSE current
          /\ pc' = [pc EXCEPT ![e] = "failed"]
          /\ UNCHANGED <<socket, request, carrier, shell, input, disturbed>>
      BY <1>1, <1>2 DEF NotConnected, Drop, Goto, EventOK
    <2>2. TypeOK'
      BY <1>1, <2>1 DEF TypeOK, Label
    <2>3. ASSUME NEW f \in Event
          PROVE  EventOK(f)' /\ Served(f)'
      BY <1>1, <2>1 DEF TypeOK, EventOK, Served, Waiting
    <2>. QED  BY <2>2, <2>3 DEF GatewayInv
  <1>3. CASE Opened(e)
    <2>1. /\ pc[e] = "opening" /\ connection[carrier[e]] = "ready"
          /\ pc' = [pc EXCEPT ![e] = "answered"]
          /\ shell' = [shell EXCEPT ![e] = "open"]
          /\ UNCHANGED <<socket, request, connection, current, carrier, disturbed>>
      BY <1>3 DEF Opened, Goto
    <2>2. /\ input' \in [Event -> SUBSET (Socket \cup {Service})]
          /\ input'[e] \subseteq {Service}
          /\ \A f \in Event \ {e} : input'[f] = input[f]
      BY <1>1, <1>3 DEF Opened, TypeOK
    <2>3. TypeOK'
      BY <1>1, <2>1, <2>2 DEF TypeOK, Label
    <2>4. ASSUME NEW f \in Event
          PROVE  EventOK(f)' /\ Served(f)'
      BY <1>1, <2>1, <2>2 DEF TypeOK, EventOK, Served, Waiting
    <2>. QED  BY <2>3, <2>4 DEF GatewayInv
  <1>4. CASE Refused(e)
    <2>1. /\ pc[e] = "opening"
          /\ pc' = [pc EXCEPT ![e] = "failed"]
          /\ UNCHANGED <<socket, request, connection, current, carrier, shell, input, disturbed>>
      BY <1>4 DEF Refused, Goto
    <2>2. TypeOK'
      BY <1>1, <2>1 DEF TypeOK, Label
    <2>3. ASSUME NEW f \in Event
          PROVE  EventOK(f)' /\ Served(f)'
      BY <1>1, <2>1 DEF TypeOK, EventOK, Served, Waiting
    <2>. QED  BY <2>2, <2>3 DEF GatewayInv
  <1>. QED  BY <1>2, <1>3, <1>4

\* What sockets send, and the ends of shells, connections and sockets, keep it.
LEMMA TrafficInv ==
    ASSUME GatewayInv,
           \/ \E e \in Event : ShellExits(e) \/ HostCloses(e)
           \/ \E s \in Socket : HandleConnection(s) \/ HandleDisconnect(s) \/ Command(s)
    PROVE  GatewayInv'
  <1>1. TypeOK /\ \A f \in Event : EventOK(f) /\ Served(f)
    BY DEF GatewayInv
  <1>2. ASSUME NEW e \in Event, ShellExits(e)
        PROVE  GatewayInv'
    <2>1. TypeOK'
      BY <1>1, <1>2 DEF ShellExits, TypeOK
    <2>2. ASSUME NEW f \in Event
          PROVE  EventOK(f)' /\ Served(f)'
      BY <1>1, <1>2, GatewayAssumption
         DEF ShellExits, TypeOK, EventOK, Served, Waiting, GatewayAssumption
    <2>. QED  BY <2>1, <2>2 DEF GatewayInv
  <1>3. ASSUME NEW e \in Event, HostCloses(e)
        PROVE  GatewayInv'
    <2>1. TypeOK'
      BY <1>1, <1>3, GatewayAssumption DEF HostCloses, Drop, TypeOK, GatewayAssumption
    <2>2. ASSUME NEW f \in Event
          PROVE  EventOK(f)' /\ Served(f)'
      BY <1>1, <1>3, GatewayAssumption
         DEF HostCloses, Drop, TypeOK, EventOK, Served, Waiting, GatewayAssumption
    <2>. QED  BY <2>1, <2>2 DEF GatewayInv
  <1>4. ASSUME NEW s \in Socket, HandleConnection(s) \/ HandleDisconnect(s)
        PROVE  GatewayInv'
    <2>1. TypeOK'
      BY <1>1, <1>4 DEF HandleConnection, HandleDisconnect, TypeOK
    <2>2. ASSUME NEW f \in Event
          PROVE  EventOK(f)' /\ Served(f)'
      BY <1>1, <1>4 DEF HandleConnection, HandleDisconnect, EventOK, Served, Waiting
    <2>. QED  BY <2>1, <2>2 DEF GatewayInv
  <1>5. ASSUME NEW s \in Socket, Command(s)
        PROVE  GatewayInv'
    <2>1. UNCHANGED <<socket, request, pc, connection, current, carrier, shell, disturbed>>
      BY <1>5 DEF Command
    <2>2. ASSUME NEW f \in Event
          PROVE  \/ input'[f] = input[f]
                 \/ /\ input'[f] = input[f] \cup {s}
                    /\ pc[f] = "answered" /\ request[f].socket = s /\ shell[f] = "open"
      BY <1>5 DEF Command, ShellsOf
    <2>3. input' \in [Event -> SUBSET (Socket \cup {Service})]
      BY <1>1, <1>5 DEF Command, TypeOK
    <2>4. TypeOK'
      BY <1>1, <2>1, <2>3 DEF TypeOK
    <2>5. ASSUME NEW f \in Event
          PROVE  EventOK(f)' /\ Served(f)'
      BY <1>1, <2>1, <2>2, GatewayAssumption
         DEF TypeOK, EventOK, Served, Waiting, GatewayAssumption
    <2>. QED  BY <2>4, <2>5 DEF GatewayInv
  <1>. QED  BY <1>2, <1>3, <1>4, <1>5

\* A restart keeps it.
LEMMA CrashInv ==
    ASSUME GatewayInv, Crash
    PROVE  GatewayInv'
  <1>1. TypeOK /\ \A f \in Event : EventOK(f) /\ Served(f)
    BY DEF GatewayInv
  <1>2. TypeOK'
    <2>1. /\ socket' \in [Socket -> {"new", "connected", "gone"}]
          /\ pc' \in [Event -> Label]
          /\ connection' \in [Event -> {"pending", "ready", "closed", None}]
          /\ shell' \in [Event -> {"open", "closed", None}]
      BY <1>1 DEF Crash, TypeOK, Label
    <2>2. /\ current' = None
          /\ UNCHANGED <<request, carrier, input, disturbed>>
      BY DEF Crash
    <2>3. ASSUME NEW e \in Event
          PROVE  /\ pc'[e] = pc[e] \/ (pc'[e] = "lost" /\ pc[e] # "unsent")
                 /\ shell'[e] # "open"
      BY <1>1, GatewayAssumption DEF Crash, TypeOK, GatewayAssumption
    <2>. QED  BY <1>1, <2>1, <2>2, <2>3 DEF TypeOK
  <1>3. ASSUME NEW f \in Event
        PROVE  EventOK(f)' /\ Served(f)'
    BY <1>1, GatewayAssumption
       DEF Crash, TypeOK, EventOK, Served, Waiting, GatewayAssumption
  <1>. QED  BY <1>2, <1>3 DEF GatewayInv

\* Every step keeps the invariant.
LEMMA InvStep == GatewayInv /\ [Next]_vars => GatewayInv'
  <1>. SUFFICES ASSUME GatewayInv, [Next]_vars PROVE GatewayInv'
    OBVIOUS
  <1>1. CASE UNCHANGED vars
    BY <1>1 DEF vars, GatewayInv, TypeOK, EventOK, Served, Waiting
  <1>2. CASE Next
    BY <1>2, ReceiveInv, AskInv, EndInv, TrafficInv, CrashInv DEF Next
  <1>. QED  BY <1>1, <1>2

\* Whatever overlaps, fails or closes, a handler that waits for a host has a
\* connection to wait on, and an open shell one that is established.
THEOREM TypeCorrect == Spec => []TypeOK
  <1>1. GatewayInv => TypeOK
    BY DEF GatewayInv
  <1>. QED  BY <1>1, InvInit, InvStep, PTL DEF Spec

\* An event that no other one disturbs types on the host it asked for.
THEOREM UndisturbedStayOnTarget == Spec => []UndisturbedInputOnTarget
  <1>1. GatewayInv => UndisturbedInputOnTarget
    <2>. SUFFICES ASSUME GatewayInv, NEW e \in Event \ disturbed, input[e] # {}
                  PROVE  request[carrier[e]].host = request[e].host
      BY DEF UndisturbedInputOnTarget
    <2>1. carrier[e] \in Event /\ carrier[e] \in {e, None}
      BY DEF GatewayInv, EventOK, Served
    <2>2. carrier[e] = e
      BY <2>1, GatewayAssumption DEF GatewayAssumption
    <2>. QED  BY <2>2
  <1>. QED  BY <1>1, InvInit, InvStep, PTL DEF Spec

\* No step of a handler closes a shell, though the service forgets the
\* connection the shell runs on.
THEOREM ShellsOutliveConnects == Spec => EstablishedShellsSurvive
  <1>1. GatewayInv /\ [Next]_vars
        => [\A e, f \in Event :
               shell[e] = "open" /\ pc'[f] \notin {pc[f], "lost"} => shell'[e] = "open"]_vars
    <2>. SUFFICES ASSUME GatewayInv, Next, NEW e \in Event, NEW f \in Event,
                         shell[e] = "open", pc'[f] \notin {pc[f], "lost"}
                  PROVE  shell'[e] = "open"
      OBVIOUS
    <2>1. TypeOK
      BY DEF GatewayInv
    <2>2. ASSUME NEW g \in Event,
                 Receive(g) \/ Connected(g) \/ NotConnected(g) \/ Probed(g) \/ Opened(g) \/ Refused(g)
          PROVE  shell'[e] = "open"
      BY <2>1, <2>2 DEF Receive, Connected, NotConnected, Probed, Opened, Refused, TypeOK
    <2>3. ASSUME NEW g \in Event, ShellExits(g) \/ HostCloses(g)
          PROVE  UNCHANGED pc
      BY <2>3 DEF ShellExits, HostCloses
    <2>4. ASSUME NEW s \in Socket, HandleConnection(s) \/ HandleDisconnect(s) \/ Command(s)
          PROVE  UNCHANGED pc
      BY <2>4 DEF HandleConnection, HandleDisconnect, Command
    <2>5. ~Crash
      BY <2>1 DEF Crash, TypeOK
    <2>. QED  BY <2>2, <2>3, <2>4, <2>5 DEF Next
  <1>. QED  BY <1>1, InvInit, InvStep, PTL DEF Spec, EstablishedShellsSurvive
-----------------------------------------------------------------------------
(***************************************************************************)
(* The service implements Shells                                           *)
(***************************************************************************)
\* What counts has a request, what has a shell counts on the host it names, and
\* neither is None: an event is pending, or its shell open, in both.
LEMMA Views ==
    ASSUME GatewayInv, NEW e \in Event
    PROVE  /\ Counts(e) => Asked[e] = request[e] /\ request[e] \in Request
           /\ Counts(e) /\ shell[e] # None =>
                 ShellsGiven[e] = [host  |-> request[e].host,
                                   open  |-> shell[e] = "open",
                                   input |-> input[e]]
           /\ e \in Abstract!Pending <=> Counts(e) /\ shell[e] = None
           /\ e \in Abstract!Open <=> Counts(e) /\ shell[e] = "open"
  <1>1. TypeOK /\ EventOK(e) /\ Served(e)
    BY DEF GatewayInv
  <1>2. ASSUME Counts(e)
        PROVE  /\ Asked[e] = request[e] /\ request[e] \in Request /\ request[e] # None
    <2>1. pc[e] # "unsent"
      BY <1>1, <1>2, GatewayAssumption DEF Counts, EventOK, TypeOK, GatewayAssumption
    <2>. QED  BY <1>1, <1>2, <2>1, GatewayAssumption DEF Asked, TypeOK, GatewayAssumption
  <1>3. ASSUME Counts(e), shell[e] # None
        PROVE  /\ ShellsGiven[e] = [host  |-> request[e].host,
                                    open  |-> shell[e] = "open",
                                    input |-> input[e]]
               /\ ShellsGiven[e] # None
    <2>1. carrier[e] = e
      BY <1>1, <1>3, GatewayAssumption DEF Counts, EventOK, Served, GatewayAssumption
    <2>2. ShellsGiven[e] = [host |-> request[e].host, open |-> shell[e] = "open", input |-> input[e]]
      BY <1>3, <2>1 DEF ShellsGiven
    <2>3. request[e].host \in Host
      BY <1>2, <1>3, GatewayAssumption DEF Request, GatewayAssumption
    <2>4. ShellsGiven[e] \in Shell
      BY <1>1, <2>2, <2>3 DEF Shell, TypeOK
    <2>. QED  BY <2>2, <2>4, GatewayAssumption DEF GatewayAssumption
  <1>4. ~Counts(e) => Asked[e] = None /\ ShellsGiven[e] = None
    BY DEF Asked, ShellsGiven
  <1>5. shell[e] = None => ShellsGiven[e] = None
    BY DEF ShellsGiven
  <1>6. e \in Abstract!Pending <=> Counts(e) /\ shell[e] = None
    BY <1>2, <1>3, <1>4, <1>5 DEF Abstract!Pending
  <1>7. e \in Abstract!Open <=> Counts(e) /\ shell[e] = "open"
    <2>1. shell[e] = "open" => shell[e] # None
      BY GatewayAssumption DEF GatewayAssumption
    <2>2. CASE Counts(e) /\ shell[e] # None
      <3>1. ShellsGiven[e] # None /\ ShellsGiven[e].open = (shell[e] = "open")
        BY <1>3, <2>2
      <3>2. e \in Abstract!Open <=> ShellsGiven[e] # None /\ ShellsGiven[e].open
        BY DEF Abstract!Open
      <3>3. CASE shell[e] = "open"
        BY <2>2, <3>1, <3>2, <3>3
      <3>4. CASE shell[e] # "open"
        BY <3>1, <3>2, <3>4
      <3>. QED  BY <3>3, <3>4
    <2>3. CASE ~(Counts(e) /\ shell[e] # None)
      BY <1>4, <1>5, <2>1, <2>3 DEF Abstract!Open
    <2>. QED  BY <2>2, <2>3
  <1>. QED  BY <1>2, <1>3, <1>6, <1>7

\* What an event has is as it was.
Same(e) == Asked'[e] = Asked[e] /\ ShellsGiven'[e] = ShellsGiven[e]

\* It was waiting for a shell, and no longer is.
GivenUp(e) ==
    /\ e \in Abstract!Pending
    /\ Asked'[e] = None
    /\ ShellsGiven'[e] = ShellsGiven[e]

\* Its shell was open, and no longer is.
Closed(e) ==
    /\ e \in Abstract!Open
    /\ Asked'[e] = Asked[e]
    /\ ShellsGiven'[e] = Abstract!Now(e, {}, FALSE)

\* A step that does nothing else is one of Shells.
LEMMA Ends ==
    ASSUME \A e \in Event : Same(e) \/ GivenUp(e) \/ Closed(e)
    PROVE  Abstract!Next
  <1>. DEFINE events == {e \in Event : ~Same(e)}
  <1>1. \A e \in Event : ~(e \in Abstract!Pending /\ e \in Abstract!Open)
    BY DEF Abstract!Pending, Abstract!Open
  <1>2. events \subseteq Abstract!Pending \cup Abstract!Open
    BY DEF GivenUp, Closed
  <1>3. Asked' = [e \in Event |-> IF e \in events \cap Abstract!Pending THEN None ELSE Asked[e]]
    <2>1. \A e \in Event :
             Asked'[e] = IF e \in events \cap Abstract!Pending THEN None ELSE Asked[e]
      BY <1>1 DEF Same, GivenUp, Closed
    <2>. QED  BY <2>1 DEF Asked
  <1>4. ShellsGiven' =
           [e \in Event |-> IF e \in events \cap Abstract!Open
                            THEN Abstract!Now(e, {}, FALSE)
                            ELSE ShellsGiven[e]]
    <2>1. \A e \in Event :
             ShellsGiven'[e] = IF e \in events \cap Abstract!Open
                               THEN Abstract!Now(e, {}, FALSE)
                               ELSE ShellsGiven[e]
      BY <1>1 DEF Same, GivenUp, Closed
    <2>. QED  BY <2>1 DEF ShellsGiven
  <1>5. Abstract!End(events)
    BY <1>2, <1>3, <1>4 DEF Abstract!End
  <1>. QED  BY <1>5 DEF Abstract!Next

\* An event keeps what it has where its own request, shell and input stay.
LEMMA Untouched ==
    ASSUME GatewayInv, NEW e \in Event,
           Counts(e)' <=> Counts(e),
           Counts(e) => /\ request'[e] = request[e]
                        /\ shell'[e] = shell[e]
                        /\ input'[e] = input[e]
                        /\ shell[e] # None => carrier'[e] = carrier[e]
    PROVE  Same(e)
  <1>1. CASE ~Counts(e)
    BY <1>1 DEF Same, Asked, ShellsGiven
  <1>2. CASE Counts(e) /\ shell[e] = None
    BY <1>2 DEF Same, Asked, ShellsGiven
  <1>3. CASE Counts(e) /\ shell[e] # None
    <2>1. carrier[e] = e
      BY <1>3, GatewayAssumption
         DEF GatewayInv, Counts, EventOK, Served, GatewayAssumption
    <2>. QED  BY <1>3, <2>1 DEF Same, Asked, ShellsGiven
  <1>. QED  BY <1>1, <1>2, <1>3

\* A handler that fails gives its event up, unless it was disturbed.
LEMMA Fails ==
    ASSUME GatewayInv, NEW e \in Event,
           pc[e] \in {"connecting", "probing", "opening"}, pc'[e] = "failed",
           UNCHANGED <<shell, disturbed>>
    PROVE  Same(e) \/ GivenUp(e)
  <1>1. shell[e] = None
    BY DEF GatewayInv, EventOK
  <1>2. Asked'[e] = None /\ ShellsGiven'[e] = None /\ ShellsGiven[e] = None
    BY <1>1 DEF Asked, ShellsGiven, Counts
  <1>3. CASE Counts(e)
    BY <1>1, <1>2, <1>3, Views DEF GivenUp
  <1>4. CASE ~Counts(e)
    BY <1>2, <1>4 DEF Same, Asked
  <1>. QED  BY <1>3, <1>4

\* A shell that ends leaves its event what it had, but for being open.
LEMMA Closes ==
    ASSUME GatewayInv, NEW e \in Event,
           shell[e] = "open", shell'[e] = "closed",
           UNCHANGED <<request, carrier, input, disturbed>>
    PROVE  Same(e) \/ Closed(e)
  <1>1. "open" # None /\ "closed" # None
    BY GatewayAssumption DEF GatewayAssumption
  <1>2. CASE Counts(e)
    <2>1. Counts(e)'
      BY <1>1, <1>2 DEF Counts
    <2>2. Asked'[e] = Asked[e]
      BY <1>2, <2>1 DEF Asked
    <2>3. carrier[e] = e
      BY <1>1, <1>2, GatewayAssumption
         DEF GatewayInv, Counts, EventOK, Served, GatewayAssumption
    <2>4. ShellsGiven'[e] = [host |-> request[e].host, open |-> FALSE, input |-> input[e]]
      BY <1>1, <2>1, <2>3 DEF ShellsGiven
    <2>5. ShellsGiven[e] = [host |-> request[e].host, open |-> TRUE, input |-> input[e]]
      BY <1>1, <1>2, <2>3 DEF ShellsGiven
    <2>6. e \in Abstract!Open
      BY <1>2, Views
    <2>7. ShellsGiven'[e] = Abstract!Now(e, {}, FALSE)
      BY <2>4, <2>5 DEF Abstract!Now
    <2>. QED  BY <2>2, <2>6, <2>7 DEF Closed
  <1>3. CASE ~Counts(e)
    <2>1. ~Counts(e)'
      BY <1>1, <1>3 DEF Counts
    <2>. QED  BY <1>3, <2>1 DEF Same, Asked, ShellsGiven
  <1>. QED  BY <1>2, <1>3

\* connect: the event asks, and overtakes those that have yet to ask NodeSSH.
LEMMA ReceiveAsks ==
    ASSUME GatewayInv, NEW e \in Event, Receive(e)
    PROVE  Abstract!Next
  <1>. DEFINE overtaken == {f \in Waiting : Counts(f)}
  <1>1. TypeOK /\ \A f \in Event : EventOK(f)
    BY DEF GatewayInv
  <1>2. /\ pc[e] = "unsent" /\ shell[e] = None /\ ~Counts(e)
        /\ UNCHANGED <<carrier, shell, input>>
    BY <1>1 DEF Receive, Arrives, EventOK, Counts
  <1>3. PICK r \in Request : request' = [request EXCEPT ![e] = r]
    BY DEF Receive, Arrives
  <1>4. \A f \in Event \ {e} : request'[f] = request[f]
    BY <1>1, <1>3 DEF TypeOK
  <1>5. CASE disturbed' = disturbed \cup Waiting /\ Goto(e, "connecting")
    <2>1. /\ e \notin disturbed' /\ pc'[e] = "connecting" /\ request'[e] = r
          /\ \A f \in Event \ {e} : pc'[f] = pc[f]
      BY <1>1, <1>2, <1>3, <1>5 DEF Goto, TypeOK, EventOK, Waiting
    <2>2. Asked'[e] = r /\ ShellsGiven'[e] = ShellsGiven[e]
      BY <1>2, <2>1 DEF Asked, ShellsGiven, Counts
    <2>3. Asked[e] = None /\ ShellsGiven[e] = None
      BY <1>2 DEF Asked, ShellsGiven
    <2>4. ASSUME NEW f \in Event \ {e}, f \notin overtaken
          PROVE  Same(f)
      <3>1. Counts(f)' <=> Counts(f)
        BY <1>2, <1>5, <2>1, <2>4 DEF Counts
      <3>. QED  BY <1>2, <1>4, <3>1, Untouched
    <2>5. ASSUME NEW f \in overtaken
          PROVE  f \in Abstract!Pending /\ f # e /\ Asked'[f] = None /\ ShellsGiven'[f] = ShellsGiven[f]
      <3>1. f \in Event /\ shell[f] = None /\ f # e
        BY <1>1, <1>2, <2>5 DEF Waiting, EventOK
      <3>2. ~Counts(f)'
        BY <1>5, <2>5 DEF Counts
      <3>. QED  BY <1>2, <2>5, <3>1, <3>2, Views DEF Asked, ShellsGiven
    <2>6. Asked' = [f \in Event |-> CASE f = e -> r
                                      [] f \in overtaken -> None
                                      [] OTHER -> Asked[f]]
      <3>1. \A f \in Event : Asked'[f] = CASE f = e -> r
                                           [] f \in overtaken -> None
                                           [] OTHER -> Asked[f]
        BY <2>2, <2>4, <2>5 DEF Same
      <3>. QED  BY <3>1 DEF Asked
    <2>7. UNCHANGED ShellsGiven
      <3>1. \A f \in Event : ShellsGiven'[f] = ShellsGiven[f]
        BY <2>2, <2>4, <2>5 DEF Same
      <3>. QED  BY <3>1 DEF ShellsGiven
    <2>8. Abstract!Ask(e, overtaken)
      BY <2>3, <2>5, <2>6, <2>7 DEF Abstract!Ask
    <2>9. overtaken \in SUBSET Event
      BY DEF Waiting
    <2>. QED  BY <2>8, <2>9 DEF Abstract!Next
  <1>6. CASE Goto(e, "failed") /\ UNCHANGED disturbed
    <2>1. ASSUME NEW f \in Event
          PROVE  Same(f)
      <3>1. Counts(f)' <=> Counts(f)
        BY <1>1, <1>2, <1>6 DEF Goto, TypeOK, Counts
      <3>2. Counts(f) => f # e
        BY <1>2
      <3>. QED  BY <1>2, <1>4, <3>1, <3>2, Untouched
    <2>. QED  BY <2>1, Ends
  <1>. QED  BY <1>5, <1>6 DEF Receive

\* The shell is open: it is on the host the event names, with no input but the
\* service's.
LEMMA OpenedGrants ==
    ASSUME GatewayInv, NEW e \in Event, Opened(e)
    PROVE  [Abstract!Next]_(Abstract!vars)
  <1>1. /\ pc[e] = "opening" /\ shell[e] = None /\ "open" # None
        /\ TypeOK /\ EventOK(e) /\ Served(e)
    BY GatewayAssumption DEF Opened, GatewayInv, EventOK, GatewayAssumption
  <1>2. /\ pc' = [pc EXCEPT ![e] = "answered"]
        /\ shell' = [shell EXCEPT ![e] = "open"]
        /\ input' = [input EXCEPT ![e] = IF request[e].op = "installation" THEN {Service} ELSE {}]
        /\ UNCHANGED <<request, carrier, disturbed>>
    BY DEF Opened, Goto
  <1>3. ASSUME NEW f \in Event \ {e}
        PROVE  Same(f)
    <2>1. /\ pc'[f] = pc[f] /\ shell'[f] = shell[f] /\ input'[f] = input[f]
      BY <1>1, <1>2 DEF TypeOK
    <2>. QED  BY <1>2, <2>1, Untouched DEF Counts
  <1>4. Counts(e)' <=> Counts(e)
    BY <1>1, <1>2 DEF Counts, TypeOK
  <1>5. CASE ~Counts(e)
    <2>1. Same(e)
      BY <1>4, <1>5, Untouched
    <2>. QED  BY <1>3, <2>1, Ends
  <1>6. CASE Counts(e)
    <2>1. carrier[e] = e
      BY <1>1, <1>6, GatewayAssumption DEF TypeOK, Counts, Served, GatewayAssumption
    <2>2. e \in Abstract!Pending /\ Asked[e] = request[e]
      BY <1>1, <1>6, Views
    <2>3. Asked'[e] = Asked[e]
      BY <1>2, <1>4, <1>6 DEF Asked
    <2>4. UNCHANGED Asked
      <3>1. \A f \in Event : Asked'[f] = Asked[f]
        BY <1>3, <2>3 DEF Same
      <3>. QED  BY <3>1 DEF Asked
    <2>5. ShellsGiven'[e] =
             [host  |-> Asked[e].host,
              open  |-> TRUE,
              input |-> IF Asked[e].op = "installation" THEN {Service} ELSE {}]
      <3>1. shell'[e] = "open" /\ input'[e] = IF request[e].op = "installation" THEN {Service} ELSE {}
        BY <1>1, <1>2 DEF TypeOK
      <3>. QED  BY <1>1, <1>2, <1>4, <1>6, <2>1, <2>2, <3>1 DEF ShellsGiven
    <2>6. ShellsGiven' = [ShellsGiven EXCEPT ![e] = ShellsGiven'[e]]
      BY <1>3 DEF Same, ShellsGiven
    <2>7. Abstract!Grant(e)
      BY <2>2, <2>4, <2>5, <2>6 DEF Abstract!Grant
    <2>. QED  BY <2>7 DEF Abstract!Next
  <1>. QED  BY <1>5, <1>6

\* What a socket sends reaches all of its shells that are open.
LEMMA CommandTypes ==
    ASSUME GatewayInv, NEW s \in Socket, Command(s)
    PROVE  Abstract!Next
  <1>1. UNCHANGED <<request, pc, carrier, shell, disturbed>>
    BY DEF Command
  <1>2. "open" # None
    BY GatewayAssumption DEF GatewayAssumption
  <1>3. \A e \in Event : Counts(e)' <=> Counts(e)
    BY <1>1 DEF Counts
  <1>4. UNCHANGED Asked
    BY <1>1, <1>3 DEF Asked
  <1>5. ASSUME NEW e \in Event, e \in Abstract!Open, Asked[e].socket = s
        PROVE  ShellsGiven'[e] = Abstract!Now(e, {s}, TRUE)
    <2>1. Counts(e) /\ shell[e] = "open" /\ request[e].socket = s
      BY <1>5, Views
    <2>2. carrier[e] = e /\ pc[e] = "answered"
      BY <1>2, <2>1, GatewayAssumption
         DEF GatewayInv, Counts, EventOK, Served, GatewayAssumption
    <2>3. input'[e] = input[e] \cup {s}
      BY <2>1, <2>2 DEF Command, ShellsOf
    <2>4. ShellsGiven'[e] =
             [host |-> request[e].host, open |-> TRUE, input |-> input[e] \cup {s}]
      BY <1>1, <1>2, <1>3, <2>1, <2>2, <2>3 DEF ShellsGiven
    <2>5. ShellsGiven[e] = [host |-> request[e].host, open |-> TRUE, input |-> input[e]]
      BY <1>2, <2>1, <2>2 DEF ShellsGiven
    <2>. QED  BY <2>4, <2>5 DEF Abstract!Now
  <1>6. ASSUME NEW e \in Event, ~(e \in Abstract!Open /\ Asked[e].socket = s)
        PROVE  ShellsGiven'[e] = ShellsGiven[e]
    <2>1. CASE Counts(e)
      <3>1. ~(shell[e] = "open" /\ request[e].socket = s)
        BY <1>6, <2>1, Views
      <3>2. input'[e] = input[e]
        BY <3>1 DEF Command, ShellsOf
      <3>. QED  BY <1>1, <1>3, <3>2, Untouched DEF Same
    <2>2. CASE ~Counts(e)
      BY <1>3, <2>2 DEF ShellsGiven
    <2>. QED  BY <2>1, <2>2
  <1>7. ShellsGiven' =
           [e \in Event |-> IF e \in Abstract!Open /\ Asked[e].socket = s
                            THEN Abstract!Now(e, {s}, TRUE)
                            ELSE ShellsGiven[e]]
    <2>1. \A e \in Event :
             ShellsGiven'[e] = IF e \in Abstract!Open /\ Asked[e].socket = s
                               THEN Abstract!Now(e, {s}, TRUE)
                               ELSE ShellsGiven[e]
      BY <1>5, <1>6
    <2>. QED  BY <2>1 DEF ShellsGiven
  <1>8. Abstract!Type(s)
    BY <1>4, <1>7 DEF Abstract!Type
  <1>. QED  BY <1>8 DEF Abstract!Next

\* A handler whose connect or probe ends asks on, which its event does not show,
\* or fails.
LEMMA AskEnds ==
    ASSUME GatewayInv, NEW e \in Event, Connected(e) \/ Probed(e)
    PROVE  Abstract!Next
  <1>1. TypeOK /\ EventOK(e)
    BY DEF GatewayInv
  <1>2. UNCHANGED <<request, shell, input, disturbed>>
    BY DEF Connected, Probed
  <1>3. pc[e] \in {"connecting", "probing"} /\ shell[e] = None
    BY <1>1 DEF Connected, Probed, EventOK
  <1>4. PICK label \in {"probing", "opening"} :
           \/ Ask(e, label)
           \/ Goto(e, "failed") /\ UNCHANGED carrier
    BY DEF Connected, Probed
  <1>5. /\ pc'[e] \in {label, "failed"}
        /\ \A f \in Event \ {e} : pc'[f] = pc[f] /\ carrier'[f] = carrier[f]
    BY <1>1, <1>4 DEF Ask, Goto, TypeOK
  <1>6. ASSUME NEW f \in Event \ {e}
        PROVE  Same(f)
    BY <1>2, <1>5, <1>6, Untouched DEF Counts
  <1>7. Same(e) \/ GivenUp(e)
    <2>1. CASE pc'[e] = label
      <3>1. Counts(e)' <=> Counts(e)
        BY <1>2, <1>3, <2>1 DEF Counts
      <3>. QED  BY <1>2, <1>3, <3>1, Untouched
    <2>2. CASE pc'[e] = "failed"
      BY <1>2, <1>3, <2>2, Fails
    <2>. QED  BY <1>5, <2>1, <2>2
  <1>. QED  BY <1>6, <1>7, Ends

\* So does one whose connect is given up or whose shell is refused.
LEMMA FailureEnds ==
    ASSUME GatewayInv, NEW e \in Event, NotConnected(e) \/ Refused(e)
    PROVE  Abstract!Next
  <1>1. /\ pc[e] \in {"connecting", "opening"}
        /\ Goto(e, "failed")
        /\ UNCHANGED <<request, carrier, shell, input, disturbed>>
    BY DEF NotConnected, Refused
  <1>2. pc'[e] = "failed" /\ \A f \in Event \ {e} : pc'[f] = pc[f]
    BY <1>1 DEF Goto, GatewayInv, TypeOK
  <1>3. ASSUME NEW f \in Event \ {e}
        PROVE  Same(f)
    BY <1>1, <1>2, <1>3, Untouched DEF Counts
  <1>4. Same(e) \/ GivenUp(e)
    BY <1>1, <1>2, Fails
  <1>. QED  BY <1>3, <1>4, Ends

\* A shell that exits ends alone, and those on a connection that its host closes
\* end together.
LEMMA ShellsEnd ==
    ASSUME GatewayInv, NEW f \in Event, ShellExits(f) \/ HostCloses(f)
    PROVE  Abstract!Next
  <1>1. UNCHANGED <<request, pc, carrier, input, disturbed>>
    BY DEF ShellExits, HostCloses
  <1>2. ASSUME NEW e \in Event
        PROVE  shell'[e] = shell[e] \/ (shell[e] = "open" /\ shell'[e] = "closed")
    BY DEF ShellExits, HostCloses, GatewayInv, TypeOK
  <1>3. ASSUME NEW e \in Event
        PROVE  Same(e) \/ Closed(e)
    <2>1. CASE shell'[e] = shell[e]
      BY <1>1, <2>1, Untouched DEF Counts
    <2>2. CASE shell[e] = "open" /\ shell'[e] = "closed"
      BY <1>1, <2>2, Closes
    <2>. QED  BY <1>2, <2>1, <2>2
  <1>. QED  BY <1>3, Ends

\* A restart ends every request and every shell.
LEMMA CrashEnds ==
    ASSUME GatewayInv, Crash
    PROVE  Abstract!Next
  <1>1. UNCHANGED <<request, carrier, input, disturbed>>
    BY DEF Crash
  <1>2. ASSUME NEW e \in Event
        PROVE  /\ pc'[e] = IF pc[e] \in {"connecting", "probing", "opening", "answered"}
                           THEN "lost" ELSE pc[e]
               /\ shell'[e] = IF shell[e] = None THEN None ELSE "closed"
               /\ shell[e] \in {"open", "closed", None}
    BY DEF Crash, GatewayInv, TypeOK
  <1>3. "closed" # None
    BY GatewayAssumption DEF GatewayAssumption
  <1>4. ASSUME NEW e \in Event
        PROVE  Same(e) \/ GivenUp(e) \/ Closed(e)
    <2>1. CASE shell[e] = "open"
      <3>1. shell'[e] = "closed"
        BY <1>2, <2>1, GatewayAssumption DEF GatewayAssumption
      <3>. QED  BY <1>1, <2>1, <3>1, Closes
    <2>2. CASE shell[e] = "closed"
      <3>1. shell'[e] = "closed"
        BY <1>2, <1>3, <2>2
      <3>2. Counts(e)' <=> Counts(e)
        BY <1>1, <1>3, <2>2, <3>1 DEF Counts
      <3>. QED  BY <1>1, <2>2, <3>1, <3>2, Untouched
    <2>3. CASE shell[e] = None
      <3>1. shell'[e] = None /\ ~Counts(e)'
        BY <1>2, <2>3 DEF Counts
      <3>2. CASE Counts(e)
        BY <2>3, <3>1, <3>2, Views DEF GivenUp, Asked, ShellsGiven
      <3>3. CASE ~Counts(e)
        BY <3>1, <3>3, Untouched
      <3>. QED  BY <3>2, <3>3
    <2>. QED  BY <1>2, <2>1, <2>2, <2>3
  <1>. QED  BY <1>4, Ends

\* A socket that comes or goes changes nothing.
LEMMA SocketsPass ==
    ASSUME NEW s \in Socket, HandleConnection(s) \/ HandleDisconnect(s)
    PROVE  UNCHANGED Abstract!vars
  <1>1. UNCHANGED <<request, pc, carrier, shell, input, disturbed>>
    BY DEF HandleConnection, HandleDisconnect
  <1>. QED  BY <1>1 DEF Abstract!vars, Asked, ShellsGiven, Counts

\* With one connection at a time for all, whatever the interleaving of handlers,
\* failures and restarts, events that are not disturbed get their shells, or
\* none, as if each had a connection of its own.
THEOREM ShellsImplemented == Spec => ShellsSpec
  <1>1. Init => Abstract!Init
    BY DEF Init, Abstract!Init, Asked, ShellsGiven, Counts
  <1>2. GatewayInv /\ [Next]_vars => [Abstract!Next]_(Abstract!vars)
    <2>. SUFFICES ASSUME GatewayInv, [Next]_vars
                  PROVE  [Abstract!Next]_(Abstract!vars)
      OBVIOUS
    <2>1. CASE UNCHANGED vars
      BY <2>1 DEF vars, Abstract!vars, Asked, ShellsGiven, Counts
    <2>2. ASSUME NEW e \in Event,
                 \/ Receive(e) \/ Connected(e) \/ NotConnected(e)
                 \/ Probed(e) \/ Opened(e) \/ Refused(e)
                 \/ ShellExits(e) \/ HostCloses(e)
          PROVE  [Abstract!Next]_(Abstract!vars)
      BY <2>2, ReceiveAsks, AskEnds, FailureEnds, OpenedGrants, ShellsEnd
    <2>3. ASSUME NEW s \in Socket, HandleConnection(s) \/ HandleDisconnect(s) \/ Command(s)
          PROVE  [Abstract!Next]_(Abstract!vars)
      BY <2>3, SocketsPass, CommandTypes
    <2>4. CASE Crash
      BY <2>4, CrashEnds
    <2>. QED  BY <2>1, <2>2, <2>3, <2>4 DEF Next
  <1>. QED  BY <1>1, <1>2, InvInit, InvStep, PTL DEF Spec, ShellsSpec, Abstract!Spec
=============================================================================
