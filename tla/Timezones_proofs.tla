-------------------------- MODULE Timezones_proofs --------------------------
(***************************************************************************)
(* Proofs about the time zones of the vm-manager, for any zones, names and *)
(* clients and whatever grep matches.                                      *)
(***************************************************************************)
EXTENDS Timezones, TLAPS

\* At first the cache is empty and nobody waits.
LEMMA TypeInit == Init => TypeOK
  BY DEF Init, TypeOK, Answered

\* An answer changes what its client sees, and nothing else.
LEMMA Replies ==
    ASSUME TypeOK, NEW c \in Client, NEW code \in {200, 404, 409, 500}, NEW zones \in SUBSET Line,
           Reply(c, code, zones)
    PROVE  /\ pc' \in [Client -> {"idle", "list", "grep", "reply"}]
           /\ status' \in [Client -> {200, 404, 409, 500, None}]
           /\ found' \in [Client -> SUBSET Line]
           /\ pc'[c] = "reply" /\ status'[c] = code /\ found'[c] = zones
           /\ \A d \in Client \ {c} : pc'[d] = pc[d] /\ status'[d] = status[d] /\ found'[d] = found[d]
  BY DEF TypeOK, Reply

\* What a client that names its zone by one plain word is told: the zone it
\* names, or the only one the name is found in.
Meant(c) ==
    Answered(c, "create", 200) /\ call[c].timezone \in Pattern =>
        \E z \in Zone :
            /\ found[c] = {z}
            /\ z = call[c].timezone \/ Matches[call[c].timezone] = {z}

\* Where failed commands say so, an answer misses no zone.
Missed(c) ==
    \/ Answered(c, "create", 404) /\ call[c].timezone \in Zone
    \/ Answered(c, "list", 200) /\ found[c] # Zone

\* What a step may do: to the cache, and to each client.
ClientOK(c) ==
    /\ pc[c] # "idle" => call[c] \in Body
    /\ pc[c] = "grep" => call[c].op = "create"
    /\ pc[c] = "list" => call[c].op = "list"
    /\ Answered(c, "list", 200) => found[c] \in {{}, Zone}
    /\ Meant(c)
    /\ "silent" \notin Outcome => ~Missed(c)

ZonesInv == TypeOK /\ \A c \in Client : ClientOK(c)

\* A client that a step leaves alone keeps what it knows.
LEMMA OthersKeep ==
    ASSUME NEW c \in Client, ClientOK(c),
           pc'[c] = pc[c], call'[c] = call[c], status'[c] = status[c], found'[c] = found[c]
    PROVE  ClientOK(c)'
  BY DEF ClientOK, Meant, Missed, Answered

\* The guards of the cache: an answer from it, or a command.
LEMMA ReceiveInv ==
    ASSUME ZonesInv, NEW c \in Client, NEW body \in Body, NEW label \in {"list", "grep"},
           body.op = (IF label = "grep" THEN "create" ELSE "list"), Receive(c, body, label)
    PROVE  ZonesInv'
  <1>1. TypeOK /\ \A d \in Client : ClientOK(d)
    BY DEF ZonesInv
  <1>2. /\ call' = [call EXCEPT ![c] = body]
        /\ UNCHANGED timezones
    BY DEF Receive
  <1>3. CASE timezones = {}
    <2>1. pc' = [pc EXCEPT ![c] = label] /\ UNCHANGED <<status, found>>
      BY <1>3 DEF Receive
    <2>2. \A d \in Client \ {c} : ClientOK(d)'
      BY <1>1, <1>2, <2>1, OthersKeep DEF TypeOK
    <2>3. ClientOK(c)'
      BY <1>1, <1>2, <2>1 DEF TypeOK, ClientOK, Meant, Missed, Answered
    <2>4. TypeOK'
      BY <1>1, <1>2, <2>1, <2>2, <2>3 DEF TypeOK, ClientOK
    <2>. QED  BY <2>2, <2>3, <2>4 DEF ZonesInv
  <1>4. CASE timezones # {}
    <2>1. timezones = Zone
      BY <1>1, <1>4 DEF TypeOK
    <2>2. body.op \in {"list", "create"}
      BY DEF Body
    <2>3. PICK code \in {200, 404}, zones \in SUBSET Line :
             /\ Reply(c, code, zones)
             /\ body.op = "list" => code = 200 /\ zones = Zone
             /\ body.op = "create" /\ code = 200 => body.timezone \in Zone /\ zones = {body.timezone}
             /\ body.op = "create" /\ code = 404 => body.timezone \notin Zone
      <3>. USE ZonesAssumption DEF ZonesAssumption
      <3>1. FromCache(c, body)
        BY <1>4 DEF Receive
      <3>2. CASE body.op = "list"
        BY <2>1, <3>1, <3>2 DEF FromCache
      <3>3. CASE body.op = "create" /\ body.timezone \in timezones
        BY <2>1, <3>1, <3>3 DEF FromCache
      <3>4. CASE body.op = "create" /\ body.timezone \notin timezones
        BY <2>1, <3>1, <3>4 DEF FromCache
      <3>. QED  BY <2>2, <3>2, <3>3, <3>4
    <2>4. /\ pc' \in [Client -> {"idle", "list", "grep", "reply"}]
          /\ status' \in [Client -> {200, 404, 409, 500, None}]
          /\ found' \in [Client -> SUBSET Line]
          /\ pc'[c] = "reply" /\ status'[c] = code /\ found'[c] = zones
          /\ \A d \in Client \ {c} : pc'[d] = pc[d] /\ status'[d] = status[d] /\ found'[d] = found[d]
      BY <1>1, <2>3, Replies
    <2>5. \A d \in Client \ {c} : ClientOK(d)'
      BY <1>1, <1>2, <2>4, OthersKeep DEF TypeOK
    <2>6. call'[c] = body
      BY <1>1, <1>2 DEF TypeOK
    <2>7. ClientOK(c)'
      BY <2>3, <2>4, <2>6 DEF ClientOK, Meant, Missed, Answered
    <2>8. call' \in [Client -> Body \cup {None}] /\ timezones' \in {{}, Zone}
      BY <1>1, <1>2 DEF TypeOK
    <2>9. TypeOK'
      BY <2>4, <2>5, <2>7, <2>8 DEF TypeOK, ClientOK
    <2>. QED  BY <2>5, <2>7, <2>9 DEF ZonesInv
  <1>. QED  BY <1>3, <1>4

\* What grep printed is told to its client: nothing, too many, or the zone.
LEMMA GrepInv ==
    ASSUME ZonesInv, NEW c \in Client, Grep(c)
    PROVE  ZonesInv'
  <1>. DEFINE n == call[c].timezone
  <1>1. TypeOK /\ \A d \in Client : ClientOK(d)
    BY DEF ZonesInv
  <1>2. /\ UNCHANGED <<timezones, call>>
        /\ call[c] \in Body /\ call[c].op = "create"
    BY <1>1 DEF Grep, ClientOK
  <1>3. /\ n \in Name
        /\ n \in Pattern => Printed(n) = {Matches[n]} /\ Matches[n] \in SUBSET Zone
        /\ \A lines \in Printed(n) : lines \in SUBSET Line
    BY <1>2, ZonesAssumption DEF Body, ZonesAssumption, Printed
  <1>4. PICK code \in {200, 404, 409, 500}, lines \in SUBSET Line :
           /\ Reply(c, code, lines)
           /\ code = 200 /\ n \in Pattern => \E z \in Zone : lines = {z} /\ Matches[n] = {z}
           /\ code = 404 /\ "silent" \notin Outcome /\ n \in Pattern => Matches[n] = {}
    <2>1. PICK outcome \in Outcome, printed \in Printed(n) :
             IF outcome \in {"error", "warned"}
             THEN Reply(c, 500, {})
             ELSE Verdict(c, Stdout(outcome, printed))
      BY DEF Grep
    <2>2. CASE outcome \in {"error", "warned"}
      BY <2>1, <2>2
    <2>3. CASE outcome = "silent"
      BY <2>1, <2>3 DEF Verdict, Stdout
    <2>4. CASE outcome = "ok"
      <3>1. Verdict(c, printed)
        BY <2>1, <2>4 DEF Stdout
      <3>2. n \in Pattern => printed = Matches[n]
        BY <1>3
      <3>3. CASE printed = {} /\ Reply(c, 404, {})
        BY <3>2, <3>3
      <3>4. CASE Reply(c, 409, {})
        BY <3>4
      <3>5. CASE (\E z \in printed : printed = {z}) /\ Reply(c, 200, printed)
        BY <1>3, <3>2, <3>5
      <3>. QED  BY <3>1, <3>3, <3>4, <3>5 DEF Verdict
    <2>. QED  BY <2>2, <2>3, <2>4, ZonesAssumption DEF ZonesAssumption
  <1>5. /\ pc' \in [Client -> {"idle", "list", "grep", "reply"}]
        /\ status' \in [Client -> {200, 404, 409, 500, None}]
        /\ found' \in [Client -> SUBSET Line]
        /\ pc'[c] = "reply" /\ status'[c] = code /\ found'[c] = lines
        /\ \A d \in Client \ {c} : pc'[d] = pc[d] /\ status'[d] = status[d] /\ found'[d] = found[d]
    BY <1>1, <1>4, Replies
  <1>6. \A d \in Client \ {c} : ClientOK(d)'
    BY <1>1, <1>2, <1>5, OthersKeep
  <1>7. n \in Zone => n \in Pattern /\ Matches[n] # {}
    BY ZonesAssumption DEF ZonesAssumption
  <1>8. ClientOK(c)'
    BY <1>2, <1>4, <1>5, <1>7 DEF ClientOK, Meant, Missed, Answered
  <1>9. TypeOK'
    BY <1>1, <1>2, <1>5, <1>6, <1>8 DEF TypeOK, ClientOK
  <1>. QED  BY <1>6, <1>8, <1>9 DEF ZonesInv

\* A list is complete, or, where its command failed in silence, empty.
LEMMA ListInv ==
    ASSUME ZonesInv, NEW c \in Client, List(c)
    PROVE  ZonesInv'
  <1>1. TypeOK /\ \A d \in Client : ClientOK(d)
    BY DEF ZonesInv
  <1>2. UNCHANGED call /\ call[c] \in Body /\ call[c].op = "list"
    BY <1>1 DEF List, ClientOK
  <1>3. PICK code \in {200, 500}, zones \in {{}, Zone} :
           /\ Reply(c, code, zones)
           /\ timezones' \in {{}, Zone}
           /\ code = 200 /\ "silent" \notin Outcome => zones = Zone
    <2>1. PICK outcome \in Outcome :
             IF outcome \in {"error", "warned"}
             THEN Reply(c, 500, {}) /\ UNCHANGED timezones
             ELSE /\ timezones' = Stdout(outcome, Zone)
                  /\ Reply(c, 200, timezones')
      BY DEF List
    <2>2. CASE outcome \in {"error", "warned"}
      BY <1>1, <2>1, <2>2 DEF TypeOK
    <2>3. CASE outcome = "silent"
      <3>1. timezones' = {} /\ Reply(c, 200, {})
        BY <2>1, <2>3 DEF Stdout
      <3>. QED  BY <2>3, <3>1
    <2>4. CASE outcome = "ok"
      <3>1. timezones' = Zone /\ Reply(c, 200, Zone)
        BY <2>1, <2>4 DEF Stdout
      <3>. QED  BY <3>1
    <2>. QED  BY <2>2, <2>3, <2>4, ZonesAssumption DEF ZonesAssumption
  <1>4. /\ pc' \in [Client -> {"idle", "list", "grep", "reply"}]
        /\ status' \in [Client -> {200, 404, 409, 500, None}]
        /\ found' \in [Client -> SUBSET Line]
        /\ pc'[c] = "reply" /\ status'[c] = code /\ found'[c] = zones
        /\ \A d \in Client \ {c} : pc'[d] = pc[d] /\ status'[d] = status[d] /\ found'[d] = found[d]
    <2>1. zones \in SUBSET Line
      BY <1>3, ZonesAssumption DEF ZonesAssumption
    <2>. QED  BY <1>1, <1>3, <2>1, Replies
  <1>5. \A d \in Client \ {c} : ClientOK(d)'
    BY <1>1, <1>2, <1>4, OthersKeep
  <1>6. ClientOK(c)'
    BY <1>1, <1>2, <1>3, <1>4 DEF ClientOK, Meant, Missed, Answered
  <1>7. TypeOK'
    BY <1>1, <1>2, <1>3, <1>4, <1>5, <1>6 DEF TypeOK, ClientOK
  <1>. QED  BY <1>5, <1>6, <1>7 DEF ZonesInv

\* Answers received, a cleared cache and a restart keep the invariant.
LEMMA EnvironmentInv ==
    ASSUME ZonesInv,
           (\E c \in Client : ReceiveReply(c)) \/ ClearCachedTimezones \/ Restart
    PROVE  ZonesInv'
  <1>1. TypeOK /\ \A d \in Client : ClientOK(d)
    BY DEF ZonesInv
  <1>2. ASSUME NEW C \in SUBSET Client, Forget(C), timezones' \in {{}, Zone}
        PROVE  ZonesInv'
    <2>1. /\ pc' \in [Client -> {"idle", "list", "grep", "reply"}]
          /\ call' \in [Client -> Body \cup {None}]
          /\ status' \in [Client -> {200, 404, 409, 500, None}]
          /\ found' \in [Client -> SUBSET Line]
      BY <1>1, <1>2 DEF Forget, TypeOK
    <2>2. ASSUME NEW d \in Client \ C
          PROVE  ClientOK(d)'
      BY <1>1, <1>2, <2>2, OthersKeep DEF Forget
    <2>3. ASSUME NEW d \in C
          PROVE  ClientOK(d)'
      BY <1>2, <2>3 DEF Forget, ClientOK, Meant, Missed, Answered
    <2>4. TypeOK'
      BY <1>2, <2>1, <2>2, <2>3 DEF TypeOK, ClientOK
    <2>. QED  BY <2>2, <2>3, <2>4 DEF ZonesInv
  <1>3. ASSUME NEW c \in Client, ReceiveReply(c)
        PROVE  ZonesInv'
    BY <1>1, <1>2, <1>3 DEF ReceiveReply, TypeOK
  <1>4. CASE ClearCachedTimezones
    <2>1. timezones' = {} /\ UNCHANGED <<pc, call, status, found>>
      BY <1>4 DEF ClearCachedTimezones
    <2>2. \A d \in Client : ClientOK(d)'
      BY <1>1, <2>1, OthersKeep
    <2>3. TypeOK'
      BY <1>1, <2>1, <2>2 DEF TypeOK, ClientOK
    <2>. QED  BY <2>2, <2>3 DEF ZonesInv
  <1>5. CASE Restart
    BY <1>2, <1>5 DEF Restart
  <1>. QED  BY <1>3, <1>4, <1>5

\* Every step keeps the invariant.
LEMMA InvStep == ZonesInv /\ [Next]_vars => ZonesInv'
  <1>. SUFFICES ASSUME ZonesInv, [Next]_vars PROVE ZonesInv'
    OBVIOUS
  <1>1. CASE UNCHANGED vars
    <2>1. \A c \in Client : ClientOK(c)'
      BY <1>1, OthersKeep DEF vars, ZonesInv
    <2>. QED  BY <1>1, <2>1 DEF vars, ZonesInv, TypeOK, ClientOK
  <1>2. ASSUME NEW c \in Client, GetAllTimezones(c)
        PROVE  ZonesInv'
    BY <1>2, ReceiveInv DEF GetAllTimezones, Body
  <1>3. ASSUME NEW c \in Client, ValidateTimezone(c)
        PROVE  ZonesInv'
    <2>1. PICK n \in Name : Receive(c, [op |-> "create", timezone |-> n], "grep")
      BY <1>3 DEF ValidateTimezone
    <2>2. [op |-> "create", timezone |-> n] \in Body
      BY DEF Body
    <2>. QED  BY <2>1, <2>2, ReceiveInv
  <1>. QED  BY <1>1, <1>2, <1>3, ListInv, GrepInv, EnvironmentInv DEF Next

\* At first nothing was answered.
LEMMA InvInit == Init => ZonesInv
  <1>. SUFFICES ASSUME Init PROVE ZonesInv
    OBVIOUS
  <1>1. \A c \in Client : ClientOK(c)
    BY DEF Init, ClientOK, Meant, Missed, Answered
  <1>. QED  BY <1>1, TypeInit DEF ZonesInv

\* The cache is empty or complete, and so is every list that is answered,
\* whichever lists and validations overlap and whatever is cleared or restarted.
THEOREM CacheIsWhole == Spec => []TypeOK
  <1>1. ZonesInv => TypeOK
    BY DEF ZonesInv
  <1>. QED  BY <1>1, InvInit, InvStep, PTL DEF Spec

\* Requests that name their zone by the same plain word, and are accepted,
\* configure the same zone, with the cache and without it.
THEOREM OneZoneIsConfigured == Spec => []OneZoneForOneName
  <1>1. ASSUME ZonesInv, NEW c \in Client, NEW d \in Client,
               Answered(c, "create", 200), Answered(d, "create", 200),
               call[c].timezone = call[d].timezone, call[c].timezone \in Pattern
        PROVE  found[c] = found[d]
    <2>. DEFINE n == call[c].timezone
    <2>1. PICK y \in Zone : found[c] = {y} /\ (y = n \/ Matches[n] = {y})
      BY <1>1 DEF ZonesInv, ClientOK, Meant
    <2>2. PICK z \in Zone : found[d] = {z} /\ (z = n \/ Matches[n] = {z})
      BY <1>1 DEF ZonesInv, ClientOK, Meant
    <2>3. n \in Zone => n \in Matches[n]
      BY ZonesAssumption DEF ZonesAssumption
    <2>4. y = z
      BY <2>1, <2>2, <2>3
    <2>. QED  BY <2>1, <2>2, <2>4
  <1>2. ZonesInv => OneZoneForOneName
    BY <1>1 DEF OneZoneForOneName
  <1>. QED  BY <1>2, InvInit, InvStep, PTL DEF Spec

\* Where failed commands say so, no zone that exists is unknown to a create
\* request, and no list lacks one.
THEOREM NoZoneIsMissed == "silent" \notin Outcome => (Spec => []NoZoneMissed)
  <1>. SUFFICES ASSUME "silent" \notin Outcome PROVE Spec => []NoZoneMissed
    OBVIOUS
  <1>1. ZonesInv => NoZoneMissed
    BY DEF ZonesInv, ClientOK, Missed, NoZoneMissed
  <1>. QED  BY <1>1, InvInit, InvStep, PTL DEF Spec
=============================================================================
