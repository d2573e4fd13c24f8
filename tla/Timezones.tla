------------------------------ MODULE Timezones ------------------------------
(***************************************************************************)
(* The time zones of the vm-manager.  A request that lists them fills a    *)
(* cache; a create request names one.  Without the cache the name is put   *)
(* as it is into a command line, after grep, and the only line printed is  *)
(* taken for the zone; with it the name is looked up as it stands.  The    *)
(* kickstart file gets the zone found, the table the name that was sent.   *)
(***************************************************************************)
CONSTANTS
    Client,
    Zone,       \* what timedatectl lists
    Name,       \* what a create request may name
    Pattern,    \* the names that are one plain word to the shell and to grep
    Matches,    \* Matches[n]: the zones grep finds for the pattern n
    Line,       \* what the command may print for another name
    Outcome,    \* how a command may end, as in VmProvisioning
    None

VARIABLES
    timezones,      \* the cache: {} as long as nobody listed them
    pc, call,       \* per client: next step of the request it waits for, its body
    status,         \* status[c]: the HTTP status of the answer
    found           \* found[c]: the zones listed, or what to configure as the zone

vars == <<timezones, pc, call, status, found>>

Body == [op : {"list"}] \cup [op : {"create"}, timezone : Name]

Init ==
    /\ timezones = {}
    /\ pc = [c \in Client |-> "idle"]
    /\ call = [c \in Client |-> None]
    /\ status = [c \in Client |-> None]
    /\ found = [c \in Client |-> {}]

Reply(c, code, zones) ==
    /\ pc' = [pc EXCEPT ![c] = "reply"]
    /\ status' = [status EXCEPT ![c] = code]
    /\ found' = [found EXCEPT ![c] = zones]

\* The cached list answers at once: for a create request, by its exact name.
FromCache(c, body) ==
    CASE body.op = "list" -> Reply(c, 200, timezones)
      [] body.op = "create" /\ body.timezone \in timezones ->
            Reply(c, 200, {body.timezone})
      [] OTHER             -> Reply(c, 404, {})

Receive(c, body, label) ==
    /\ pc[c] = "idle"
    /\ call' = [call EXCEPT ![c] = body]
    /\ IF timezones # {}
       THEN FromCache(c, body)
       ELSE pc' = [pc EXCEPT ![c] = label] /\ UNCHANGED <<status, found>>
    /\ UNCHANGED timezones

GetAllTimezones(c) == Receive(c, [op |-> "list"], "list")

ValidateTimezone(c) ==
    \E n \in Name : Receive(c, [op |-> "create", timezone |-> n], "grep")

\* What a command that would print these lines leaves on stdout.
Stdout(outcome, lines) == IF outcome \in {"ok", "warned"} THEN lines ELSE {}

\* timedatectl ends: anything on stderr is a 500, and no output is a list.
List(c) ==
    /\ pc[c] = "list"
    /\ \E outcome \in Outcome :
          IF outcome \in {"error", "warned"}
          THEN Reply(c, 500, {}) /\ UNCHANGED timezones
          ELSE /\ timezones' = Stdout(outcome, Zone)
               /\ Reply(c, 200, timezones')
    /\ UNCHANGED call

\* Broken form: the first line is taken, however many there are.
FirstMatch(c, lines) ==
    IF lines = {} THEN Reply(c, 404, {}) ELSE \E z \in lines : Reply(c, 200, {z})

\* What a create request is told for the lines on stdout.
Verdict(c, lines) ==
    \/ lines = {} /\ Reply(c, 404, {})
    \/ (\E y, z \in lines : y # z) /\ Reply(c, 409, {})
    \/ (\E z \in lines : lines = {z}) /\ Reply(c, 200, lines)

\* What the command prints for a name: a name with an option, with more words
\* or with anything the shell reads for itself can make it print any lines.
Printed(n) == IF n \in Pattern THEN {Matches[n]} ELSE SUBSET Line

\* Broken form: what grep found is kept, as the list is.
GrepCached(c) ==
    /\ pc[c] = "grep"
    /\ \E outcome \in Outcome, lines \in Printed(call[c].timezone) :
          IF outcome \in {"error", "warned"}
          THEN Reply(c, 500, {}) /\ UNCHANGED timezones
          ELSE /\ Verdict(c, Stdout(outcome, lines))
               /\ timezones' = Stdout(outcome, lines)
    /\ UNCHANGED call

Grep(c) ==
    /\ pc[c] = "grep"
    /\ \E outcome \in Outcome, lines \in Printed(call[c].timezone) :
          IF outcome \in {"error", "warned"}
          THEN Reply(c, 500, {})
          ELSE Verdict(c, Stdout(outcome, lines))
    /\ UNCHANGED <<timezones, call>>

Forget(C) ==
    /\ pc' = [c \in Client |-> IF c \in C THEN "idle" ELSE pc[c]]
    /\ call' = [c \in Client |-> IF c \in C THEN None ELSE call[c]]
    /\ status' = [c \in Client |-> IF c \in C THEN None ELSE status[c]]
    /\ found' = [c \in Client |-> IF c \in C THEN {} ELSE found[c]]

ReceiveReply(c) ==
    /\ pc[c] = "reply"
    /\ Forget({c})
    /\ UNCHANGED timezones

\* Only tests call it.
ClearCachedTimezones ==
    /\ timezones # {}
    /\ timezones' = {}
    /\ UNCHANGED <<pc, call, status, found>>

\* The process starts again, with an empty cache.
Restart ==
    /\ \E c \in Client : pc[c] # "idle"
    /\ timezones' = {}
    /\ Forget(Client)

Next ==
    \/ \E c \in Client :
          \/ GetAllTimezones(c) \/ ValidateTimezone(c)
          \/ List(c) \/ Grep(c) \/ ReceiveReply(c)
    \/ ClearCachedTimezones
    \/ Restart

Spec == Init /\ [][Next]_vars
-----------------------------------------------------------------------------
(***************************************************************************)
(* Properties                                                              *)
(***************************************************************************)
\* Every zone has a plain name, and grep finds it by that, perhaps with others.
ASSUME ZonesAssumption ==
    /\ Zone \subseteq Pattern /\ Pattern \subseteq Name
    /\ Zone \subseteq Line
    /\ Matches \in [Pattern -> SUBSET Zone]
    /\ \A z \in Zone : z \in Matches[z]
    /\ Outcome \subseteq {"ok", "error", "warned", "silent"}
    /\ None \notin Body

Answered(c, op, code) == pc[c] = "reply" /\ call[c].op = op /\ status[c] = code

\* Every variable has its type; the cache is empty or complete, and with it
\* what every list that was answered shows.
TypeOK ==
    /\ timezones \in {{}, Zone}
    /\ pc \in [Client -> {"idle", "list", "grep", "reply"}]
    /\ call \in [Client -> Body \cup {None}]
    /\ status \in [Client -> {200, 404, 409, 500, None}]
    /\ found \in [Client -> SUBSET Line]
    /\ \A c \in Client :
          /\ pc[c] # "idle" => call[c] \in Body
          /\ pc[c] = "grep" => call[c].op = "create"
          /\ Answered(c, "list", 200) => found[c] \in {{}, Zone}

\* Of two create requests that name their zone by the same plain word, and are
\* both accepted, both configure the same zone, whichever of them was compared
\* with the cache, and whichever searched: the name in the table still tells
\* which zone a machine has.
OneZoneForOneName ==
    \A c, d \in Client :
        /\ Answered(c, "create", 200) /\ Answered(d, "create", 200)
        /\ call[c].timezone = call[d].timezone /\ call[c].timezone \in Pattern
        => found[c] = found[d]

\* Where a command that fails says so, no zone that exists is not found, and
\* no list lacks one, whatever was cached, cleared or restarted in between.
NoZoneMissed ==
    \A c \in Client :
        /\ Answered(c, "create", 404) => call[c].timezone \notin Zone
        /\ Answered(c, "list", 200) => found[c] = Zone
=============================================================================
