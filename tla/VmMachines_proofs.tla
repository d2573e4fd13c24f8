-------------------------- MODULE VmMachines_proofs --------------------------
(***************************************************************************)
(* Table, network and libvirt implement Machines, where failed commands    *)
(* say so and nothing is cloned: with queries that reject, commands that   *)
(* warn, and crashes between any two steps.                                *)
(***************************************************************************)
EXTENDS VmProvisioning_proofs

\* A machine and its row have the same addresses.
Agree == \A n \in Rows \cap Domains : Recorded(n)

MachinesInv == KnownInv /\ InstalledInv /\ NamesNew /\ MachinesHeld /\ Agree

\* The name of a row is in a list, those of the machines to come are in none.
LEMMA RowIsOld ==
    ASSUME KnownInv, NamesNew, NEW c \in Client, pc[c] \in {"reserve", "install", "insert"}
    PROVE  plan[c].name \notin Rows
  <1>1. \A n \in Rows : n \in had[rows[n].owner] /\ rows[n].owner \in User
    BY DEF KnownInv, LeaseInv, NamesOwned, RowsListed, Rows, TypeOK, Instance
  <1>. QED  BY <1>1 DEF NamesNew

\* No step gives a machine and its row different addresses.
LEMMA AgreeStep ==
    ASSUME KnownInv, NamesNew, MachinesHeld, Agree, [Next]_vars
    PROVE  Agree'
  <1>1. TypeOK /\ \A n \in VmName : RowChanges(n)
    BY HadStep DEF KnownInv, LeaseInv
  <1>2. SUFFICES ASSUME NEW n \in Rows' \cap Domains'
                 PROVE  domains'[n].mac = rows'[n].mac /\ domains'[n].ip = rows'[n].ip
    BY DEF Agree, Recorded
  <1>3. n \in VmName /\ rows'[n] # None
    BY DEF Rows
  <1>4. CASE rows'[n] = rows[n]
    <2>1. n \in Rows
      BY <1>3, <1>4 DEF Rows
    <2>2. CASE domains'[n] = domains[n]
      BY <1>3, <1>4, <2>1, <2>2 DEF Agree, Recorded, Domains
    <2>3. CASE Switches(n)
      BY <1>4, <2>1, <2>3 DEF Agree, Recorded, Switches
    <2>4. ASSUME NEW c \in Client
          PROVE  ~Clone(c) /\ ~(Install(c) /\ n = plan[c].name)
      BY <2>1, RowIsOld DEF KnownInv, NothingCloned, Clone, Install, At
    <2>. QED  BY <1>1, <1>3, <2>2, <2>3, <2>4, DomainsStep DEF Touches
  <1>5. ASSUME NEW c \in Client, Insert(c), n = plan[c].name,
               rows'[n] = [mac |-> plan[c].mac, ip |-> plan[c].ip, owner |-> who[c]]
        PROVE  domains'[n].mac = rows'[n].mac /\ domains'[n].ip = rows'[n].ip
    BY <1>5 DEF Insert, At, MachinesHeld
  <1>6. RowChanges(n)
    BY <1>1, <1>3
  <1>. QED  BY <1>3, <1>4, <1>5, <1>6 DEF RowChanges

\* All of it is inductive.
LEMMA MachinesInvStep ==
    ASSUME "silent" \notin Outcome, "clone" \notin Op, MachinesInv, [Next]_vars
    PROVE  MachinesInv'
  <1>1. KnownInv'
    <2>1. NothingCloned' /\ ClonesAreOwn'
      BY NothingClonedStep DEF MachinesInv, KnownInv, LeaseInv, NothingCloned, ClonesAreOwn
    <2>. QED  BY <2>1, LeaseInvStep, LeasesStep, NamesOwnedStep DEF MachinesInv, KnownInv, LeaseInv
  <1>2. InstalledInv'
    BY InstalledStep DEF MachinesInv, KnownInv
  <1>3. NamesNew' /\ MachinesHeld' /\ Agree'
    BY NamesNewStep, MachinesHeldStep, AgreeStep DEF MachinesInv
  <1>. QED  BY <1>1, <1>2, <1>3 DEF MachinesInv

LEMMA MachinesInvInit == Init => MachinesInv
  <1>. SUFFICES ASSUME Init PROVE MachinesInv
    OBVIOUS
  <1>1. /\ \A c \in Client : pc[c] = "idle"
        /\ Rows = {} /\ Domains = {}
    BY DEF Init, Rows, Domains
  <1>2. NothingCloned /\ NamesNew /\ MachinesHeld /\ ReservedBeforeInstalled /\ Agree
    BY <1>1 DEF NothingCloned, NamesNew, MachinesHeld, ReservedBeforeInstalled, Agree
  <1>. QED  BY <1>2, LeaseInit, NamesInit DEF KnownInv, InstalledInv, MachinesInv
-----------------------------------------------------------------------------
(***************************************************************************)
(* The steps                                                               *)
(***************************************************************************)
\* A step that changes a domain changes one, and neither rows nor lists.
LEMMA OneDomain ==
    ASSUME TypeOK, [Next]_vars, domains' # domains
    PROVE  /\ UNCHANGED <<rows, had>>
           /\ \E n \in VmName :
                 /\ domains'[n] # domains[n]
                 /\ \A m \in VmName \ {n} : domains'[m] = domains[m]
  <1>1. UNCHANGED <<rows, had>>
    <2>1. \A c \in Client : ~Insert(c) /\ ~DeleteRow(c)
      BY DEF Insert, DeleteRow
    <2>. QED  BY <2>1, Writers
  <1>2. ASSUME NEW n, NEW value, domains' = [domains EXCEPT ![n] = value]
        PROVE  \E k \in VmName :
                  /\ domains'[k] # domains[k]
                  /\ \A m \in VmName \ {k} : domains'[m] = domains[m]
    BY <1>2 DEF TypeOK
  <1>3. \E n, value : domains' = [domains EXCEPT ![n] = value]
    <2>1. CASE UNCHANGED vars \/ Crash
      BY <2>1 DEF vars, Crash
    <2>2. ASSUME NEW n \in VmName, GuestStops(n)
          PROVE  \E value : domains' = [domains EXCEPT ![n] = value]
      BY <2>2 DEF GuestStops
    <2>3. ASSUME NEW c \in Client, Install(c)
          PROVE  \E n, value : domains' = [domains EXCEPT ![n] = value]
      BY <2>3 DEF Install
    <2>4. ASSUME NEW c \in Client, Clone(c)
          PROVE  \E n, value : domains' = [domains EXCEPT ![n] = value]
      BY <2>4 DEF Clone
    <2>5. ASSUME NEW c \in Client, Start(c) \/ ForceOff(c) \/ Undefine(c)
          PROVE  \E n, value : domains' = [domains EXCEPT ![n] = value]
      BY <2>5 DEF Start, ForceOff, Undefine
    <2>6. ASSUME NEW c \in Client,
                 \/ Receive(c) \/ FindOs(c) \/ FindMacs(c) \/ CreateMac(c)
                 \/ FindIps(c) \/ CreateIp(c) \/ Prepare(c)
                 \/ Reserve(c) \/ Insert(c) \/ FindOriginal(c)
                 \/ ShutDown(c) \/ DeleteRow(c) \/ ReceiveReply(c) \/ Reject(c)
          PROVE  UNCHANGED domains
      BY <2>6 DEF Receive, FindOs, FindMacs, CreateMac, FindIps, CreateIp, Prepare, Reserve,
                  Insert, FindOriginal, ShutDown, DeleteRow, ReceiveReply, Reject
    <2>. QED  BY <2>1, <2>2, <2>3, <2>4, <2>5, <2>6 DEF Next, Handle
  <1>. QED  BY <1>1, <1>2, <1>3

\* What is recorded has the form of a machine, and nothing else has.
LEMMA RecordedIs ==
    ASSUME TypeOK, NEW n \in VmName
    PROVE  /\ RecordedMachines[n] # None <=> Recorded(n)
           /\ Recorded(n) => /\ RecordedMachines[n] \in Recording
                            /\ RecordedMachines[n].owner = rows[n].owner
                            /\ RecordedMachines[n].mac = domains[n].mac
                            /\ RecordedMachines[n].ip = domains[n].ip
                            /\ RecordedMachines[n].running = domains[n].running
  <1>1. CASE Recorded(n)
    <2>1. rows[n] \in Instance /\ domains[n] \in Machine
      BY <1>1 DEF Recorded, Rows, Domains, TypeOK
    <2>2. RecordedMachines[n] =
             [owner |-> rows[n].owner, mac |-> domains[n].mac,
              ip |-> domains[n].ip, running |-> domains[n].running]
      BY <1>1 DEF RecordedMachines
    <2>3. RecordedMachines[n] \in Recording
      BY <2>1, <2>2 DEF Instance, Machine, Recording
    <2>4. RecordedMachines[n] # None
      BY <2>3, ProvisioningAssumption DEF Assumption
    <2>. QED  BY <1>1, <2>2, <2>3, <2>4
  <1>2. CASE ~Recorded(n)
    BY <1>2 DEF RecordedMachines
  <1>. QED  BY <1>1, <1>2

\* What is recorded of a machine changes only where its row or its domain does.
LEMMA OnlyOne ==
    ASSUME NEW n \in VmName,
           \A m \in VmName \ {n} : rows'[m] = rows[m] /\ domains'[m] = domains[m]
    PROVE  RecordedMachines' = [RecordedMachines EXCEPT ![n] = RecordedMachines'[n]]
  <1>1. ASSUME NEW m \in VmName \ {n}
        PROVE  RecordedMachines'[m] = RecordedMachines[m]
    <2>1. Recorded(m)' <=> Recorded(m)
      BY DEF Recorded, Rows, Domains
    <2>. QED  BY <2>1 DEF RecordedMachines
  <1>. QED  BY <1>1 DEF RecordedMachines

\* Without either recorded before and after, nothing changes.
LEMMA Unrecorded ==
    ASSUME NEW n \in VmName,
           \A m \in VmName \ {n} : rows'[m] = rows[m] /\ domains'[m] = domains[m],
           ~Recorded(n), ~Recorded(n)'
    PROVE  UNCHANGED RecordedMachines
  <1>1. RecordedMachines'[n] = None /\ RecordedMachines[n] = None
    BY DEF RecordedMachines
  <1>. QED  BY <1>1, OnlyOne DEF RecordedMachines

\* A row that is saved is a machine created: it is there as a whole, new, and
\* its addresses are its own.
LEMMA InsertCreates ==
    ASSUME MachinesInv, MachinesInv', NEW c \in Client, Insert(c), rows' # rows
    PROVE  Abstract!Create(who[c], plan[c].name)
  <1>0. PICK n \in VmName : n = plan[c].name
    BY DEF MachinesInv, KnownInv, LeaseInv, TypeOK, HandlerOK, Lease, Insert, At
  <1>. DEFINE machine == RecordedMachines'[n]
  <1>1. /\ pc[c] = "insert" /\ UNCHANGED domains
        /\ rows' = [rows EXCEPT ![n] =
                       [mac |-> plan[c].mac, ip |-> plan[c].ip, owner |-> who[c]]]
        /\ had' = [had EXCEPT ![who[c]] = @ \cup {n}]
    BY <1>0 DEF Insert, At
  <1>2. TypeOK /\ TypeOK' /\ who[c] \in User /\ plan[c] \in Lease
    BY <1>1 DEF MachinesInv, KnownInv, LeaseInv, TypeOK, HandlerOK, Lease
  <1>3. n \in Domains /\ n \notin Rows
    BY <1>0, <1>1, RowIsOld DEF MachinesInv, MachinesHeld
  <1>4. \A u \in User : n \notin had[u]
    BY <1>0, <1>1 DEF MachinesInv, NamesNew
  <1>5. RecordedMachines[n] = None
    BY <1>2, <1>3, RecordedIs DEF Recorded
  <1>6. rows'[n] = [mac |-> plan[c].mac, ip |-> plan[c].ip, owner |-> who[c]]
    BY <1>1, <1>2 DEF TypeOK
  <1>7. Recorded(n)'
    <2>1. n \in Rows'
      <3>1. rows'[n] \in Instance
        BY <1>2, <1>6 DEF Lease, Instance
      <3>2. rows'[n] # None
        BY <3>1, ProvisioningAssumption DEF Assumption
      <3>. QED  BY <1>2, <3>2 DEF Rows
    <2>2. n \in Domains'
      BY <1>1, <1>3 DEF Domains
    <2>. QED  BY <2>1, <2>2 DEF MachinesInv, Agree
  <1>8. /\ machine \in Recording /\ machine.owner = who[c]
        /\ machine.mac = domains[n].mac /\ machine.ip = domains[n].ip
    <2>1. machine = [owner |-> rows'[n].owner, mac |-> domains'[n].mac,
                     ip |-> domains'[n].ip, running |-> domains'[n].running]
      BY <1>7 DEF RecordedMachines
    <2>2. domains[n] \in Machine
      BY <1>2, <1>3 DEF TypeOK, Domains
    <2>. QED  BY <1>1, <1>2, <1>6, <2>1, <2>2 DEF Recording, Machine
  <1>9. ASSUME NEW m \in VmName, RecordedMachines[m] # None
        PROVE  RecordedMachines[m].mac # machine.mac /\ RecordedMachines[m].ip # machine.ip
    <2>1. Recorded(m)
      BY <1>2, <1>9, RecordedIs
    <2>2. m \in Domains /\ m # n
      BY <1>3, <2>1 DEF Recorded
    <2>3. domains[m].mac # domains[n].mac /\ domains[m].ip # domains[n].ip
      BY <1>3, <2>2, LeasesKeepApart
         DEF AddressesNotShared, MachinesInv, KnownInv, InstalledInv
    <2>. QED  BY <1>2, <1>8, <2>1, <2>3, RecordedIs
  <1>10. RecordedMachines' = [RecordedMachines EXCEPT ![n] = machine]
    <2>1. \A m \in VmName \ {n} : rows'[m] = rows[m] /\ domains'[m] = domains[m]
      BY <1>1, <1>2 DEF TypeOK
    <2>. QED  BY <1>2, <2>1, OnlyOne
  <1>. HIDE DEF machine
  <1>. QED  BY <1>0, <1>1, <1>4, <1>5, <1>8, <1>9, <1>10 DEF Abstract!Create, Abstract!Machine, Recording

\* What libvirt does to a machine is, where it is recorded, going on or off, or
\* going away once it is off; what it does to others Machines does not see.
LEMMA DomainSteps ==
    ASSUME MachinesInv, [Next]_vars, domains' # domains
    PROVE  [Abstract!Next]_(Abstract!vars)
  <1>1. TypeOK /\ TypeOK'
    BY TypeStep DEF MachinesInv, KnownInv, LeaseInv
  <1>2. PICK n \in VmName :
           /\ domains'[n] # domains[n]
           /\ \A m \in VmName \ {n} : domains'[m] = domains[m]
    BY <1>1, OneDomain
  <1>3. UNCHANGED <<rows, had>> /\ Rows' = Rows
    BY <1>1, OneDomain DEF Rows
  <1>4. RecordedMachines' = [RecordedMachines EXCEPT ![n] = RecordedMachines'[n]]
    BY <1>2, <1>3, OnlyOne
  <1>5. CASE ~Recorded(n)
    <2>1. n \notin Rows
      <3>. SUFFICES ASSUME n \in Rows PROVE FALSE
        OBVIOUS
      <3>1. n \notin Domains
        BY <1>5 DEF MachinesInv, Agree
      <3>2. PICK c \in Client : Install(c) /\ n = plan[c].name
        BY <1>1, <1>2, <3>1, DomainsStep
           DEF Touches, Switches, MachinesInv, KnownInv, NothingCloned, Clone, At
      <3>. QED  BY <3>2, RowIsOld DEF MachinesInv, Install, At
    <2>2. ~Recorded(n)'
      BY <1>3, <2>1 DEF Recorded
    <2>3. UNCHANGED RecordedMachines
      BY <1>2, <1>3, <1>5, <2>2, Unrecorded
    <2>. QED  BY <1>3, <2>3 DEF Abstract!vars
  <1>6. CASE Recorded(n)
    <2>1. /\ n \in Domains /\ n \in Rows
          /\ domains[n] \in Machine
          /\ RecordedMachines[n] = [owner |-> rows[n].owner, mac |-> domains[n].mac,
                                    ip |-> domains[n].ip, running |-> domains[n].running]
          /\ RecordedMachines[n] # None
      BY <1>1, <1>6, RecordedIs DEF Recorded, Domains, TypeOK, RecordedMachines
    <2>2. CASE Switches(n)
      <3>1. domains'[n] \in Machine
        BY <1>1, <2>2 DEF Switches, Domains, TypeOK
      <3>2. domains'[n].running = ~domains[n].running
        BY <1>2, <2>1, <2>2, <3>1 DEF Switches, Machine
      <3>3. Recorded(n)'
        BY <1>3, <1>6, <2>2 DEF Recorded, Switches
      <3>4. RecordedMachines'[n] = [owner |-> rows[n].owner, mac |-> domains[n].mac,
                                    ip |-> domains[n].ip, running |-> ~domains[n].running]
        BY <1>3, <2>2, <3>2, <3>3 DEF RecordedMachines, Switches
      <3>5. RecordedMachines'[n] = [RecordedMachines[n] EXCEPT !.running = ~@]
        BY <2>1, <3>4
      <3>6. RecordedMachines' = [RecordedMachines EXCEPT ![n].running = ~@]
        BY <1>4, <3>5
      <3>7. Abstract!Switch(n)
        BY <1>3, <2>1, <3>6 DEF Abstract!Switch
      <3>. QED  BY <3>7 DEF Abstract!Next
    <2>3. ASSUME NEW c \in Client, Undefine(c), n = call[c].vmName, n \notin Domains'
          PROVE  [Abstract!Next]_(Abstract!vars)
      <3>1. Off(n)
        BY <1>2, <2>3 DEF Undefine, Exec, Took
      <3>2. ~RecordedMachines[n].running
        BY <2>1, <3>1 DEF Off
      <3>3. RecordedMachines'[n] = None
        BY <2>3 DEF RecordedMachines, Recorded
      <3>4. Abstract!Remove(n)
        BY <1>3, <1>4, <2>1, <3>2, <3>3 DEF Abstract!Remove
      <3>. QED  BY <3>4 DEF Abstract!Next
    <2>. QED  BY <1>1, <1>2, <2>1, <2>2, <2>3, DomainsStep
              DEF Touches, MachinesInv, KnownInv, NothingCloned
  <1>. QED  BY <1>5, <1>6

\* Deleting the row of a machine that is gone is nothing Machines sees.
LEMMA DeleteRowStutters ==
    ASSUME MachinesInv, NEW c \in Client, DeleteRow(c)
    PROVE  UNCHANGED Abstract!vars
  <1>1. PICK n \in VmName : n = call[c].vmName
    BY DEF MachinesInv, KnownInv, LeaseInv, TypeOK, HandlerOK, DeleteRow, At
  <1>2. /\ n \notin Domains /\ UNCHANGED <<domains, had>>
        /\ rows' = [rows EXCEPT ![n] = None]
    BY <1>1 DEF DeleteRow, At, MachinesInv, MachinesHeld
  <1>3. \A m \in VmName \ {n} : rows'[m] = rows[m] /\ domains'[m] = domains[m]
    BY <1>2 DEF MachinesInv, KnownInv, LeaseInv, TypeOK
  <1>4. ~Recorded(n) /\ ~Recorded(n)'
    BY <1>2 DEF Recorded, Domains
  <1>5. UNCHANGED RecordedMachines
    BY <1>3, <1>4, Unrecorded
  <1>. QED  BY <1>2, <1>5 DEF Abstract!vars

\* Every step of the vm-manager is one of Machines, or none.
LEMMA MachinesStep ==
    ASSUME MachinesInv, MachinesInv', [Next]_vars
    PROVE  [Abstract!Next]_(Abstract!vars)
  <1>1. ASSUME NEW c \in Client, Insert(c), rows' # rows
        PROVE  [Abstract!Next]_(Abstract!vars)
    <2>1. who[c] \in User /\ plan[c].name \in VmName
      BY <1>1 DEF MachinesInv, KnownInv, LeaseInv, TypeOK, HandlerOK, Lease, Insert, At
    <2>2. Abstract!Create(who[c], plan[c].name)
      BY <1>1, InsertCreates
    <2>. QED  BY <2>1, <2>2 DEF Abstract!Next
  <1>2. ASSUME NEW c \in Client, DeleteRow(c)
        PROVE  [Abstract!Next]_(Abstract!vars)
    BY <1>2, DeleteRowStutters
  <1>3. CASE domains' # domains
    BY <1>3, DomainSteps
  <1>4. CASE UNCHANGED <<rows, had, domains>>
    <2>1. UNCHANGED RecordedMachines
      BY <1>4 DEF RecordedMachines, Recorded, Rows, Domains
    <2>. QED  BY <1>4, <2>1 DEF Abstract!vars
  <1>5. \A c \in Client : Insert(c) /\ rows' = rows => UNCHANGED <<rows, had>>
    <2>. SUFFICES ASSUME NEW c \in Client, Insert(c), rows' = rows
                  PROVE  UNCHANGED had
      OBVIOUS
    <2>1. CASE Duplicates(plan[c])
      BY <2>1 DEF Insert
    <2>2. CASE ~Duplicates(plan[c])
      <3>1. plan[c].name \in Rows'
        <4>1. plan[c] \in Lease /\ who[c] \in User /\ TypeOK
          BY DEF MachinesInv, KnownInv, LeaseInv, TypeOK, HandlerOK, Insert, At
        <4>2. rows'[plan[c].name] = [mac |-> plan[c].mac, ip |-> plan[c].ip, owner |-> who[c]]
          BY <2>2, <4>1 DEF Insert, TypeOK, Lease
        <4>3. rows'[plan[c].name] \in Instance
          BY <4>1, <4>2 DEF Lease, Instance
        <4>4. rows'[plan[c].name] # None
          BY <4>3, ProvisioningAssumption DEF Assumption
        <4>. QED  BY <4>1, <4>4 DEF Rows, Lease
      <3>2. Rows' = Rows
        BY DEF Rows
      <3>. QED  BY <2>2, <3>1, <3>2 DEF Duplicates
    <2>. QED  BY <2>1, <2>2
  <1>. QED  BY <1>1, <1>2, <1>3, <1>4, <1>5, Writers

\* At first there is no machine.
LEMMA MachinesInit == Init => Abstract!Init
  BY DEF Init, Abstract!Init, RecordedMachines, Recorded, Rows

\* Where failed commands say so and nothing is cloned, the table, the network and
\* libvirt are together what Machines promises: a machine is there from its row
\* on, whole, under a name that was never used and with addresses nobody else
\* has; it stays what it is, and goes only when it is off.  Queries that reject,
\* commands that warn, and crashes between any two of the three change nothing.
THEOREM MachinesImplemented ==
    "silent" \notin Outcome /\ "clone" \notin Op => (Spec => MachinesSpec)
  <1>. SUFFICES ASSUME "silent" \notin Outcome, "clone" \notin Op
                PROVE  Spec => MachinesSpec
    OBVIOUS
  <1>1. Init => MachinesInv /\ Abstract!Init
    BY MachinesInvInit, MachinesInit
  <1>2. MachinesInv /\ [Next]_vars => MachinesInv'
    BY MachinesInvStep
  <1>3. MachinesInv /\ MachinesInv' /\ [Next]_vars => [Abstract!Next]_(Abstract!vars)
    BY MachinesStep
  <1>. QED  BY <1>1, <1>2, <1>3, PTL DEF Spec, MachinesSpec, Abstract!Spec
=============================================================================
