# Formal model of linux-web-terminal-api

TLA+ specifications of the three services of this repository, TLC
configurations that check them on small instances, and TLAPS proofs that hold
for every size: of the auth service, the vm-manager, the ssh-service, the time
zones and the two HTTP services together.

## The system

Three NestJS services share a library (`shared/`); two share a MySQL database.

| Component | State | Operations | Interacts with |
|---|---|---|---|
| **auth** (`auth/src`) | `users` table; one Redis entry per user (key: user id, value: the JWT, TTL: `config.jwt.lifespan`) | register, login, logout, validate-token, change-username, change-email, change-password; `deleteById` (no route) | MySQL, Redis; its `validate-token` is called by vm-manager; login reads `vm_instances` |
| **vm-manager** (`vm-manager/src`) | `vm_instances` table; through `virsh`, `virt-install` and `virt-clone`: libvirt domains, disks and the host entries of the DHCP network; kickstart files; a cache of time zones | create, clone, start, shutdown, forced shutdown, destroy; list and validate time zones; read-only lists | MySQL, libvirt (shell), auth over HTTP |
| **ssh-service** (`ssh-service/src`) | one `NodeSSH` object, with one connection at a time, for all sockets; listeners on each socket | `ssh`, `ssh-installation`, `command`, `SIGINT`, `SIGTSTP` | SSH hosts, WebSocket clients |
| **shared** | entities with their unique columns, the errors and their statuses, bearer-token parsing, validation pipe | — | all |
| ISO seed script, configuration, bootstrap, Swagger documents | — | — | — |

What is hard here is never inside one call. Node runs one handler at a time,
but a handler is cut at every `await`, and between the pieces any other handler
may run; MySQL, Redis and libvirt are changed one after another with no
transaction, so a rejected call, a command that fails or a restart leaves the
earlier changes in place; and what a request knows about its user is a copy
made when a token was signed.

- *Concurrency*: look-up-then-write in register and the change operations,
  draw-then-reserve of addresses, a session stored over a newer one, a logout
  that overlaps a change, a connect between another event's connect and its
  shell, a list of time zones that fills the cache under a validation.
- *Failure*: a rejected query after a command, a command after a command, a
  warning that is taken for an error, an error that is taken for success, a
  connection that ends while a handler waits on it.
- *Time*: token expiry against Redis TTL, a token as old as a day that says
  which machines a user owns.
- *Limits*: a loop that draws until an address is free.

What makes each component correct: *auth* — accounts never collide, a session is
opened only with a password, is filed under its own user, lasts exactly as long
as its token unless it is revoked or replaced. *vm-manager* — a machine exists
only with its lease, no two share an address, table and libvirt agree outside
of requests, nobody touches another user's machine, every request is answered
while addresses last, one name of a time zone is one zone. *ssh-service* — what
a socket types reaches the shell it asked for, on the host it named, and every
event is answered.

## Modules

| Module | Extends or instantiates | Models |
|---|---|---|
| `Accounts` | — | what the auth service promises (abstract) |
| `AuthSessions` | instance of `Accounts` | the auth service |
| `AuthHistory` | `AuthSessions` | the same with history variables |
| `Machines` | — | what the vm-manager promises about machines (abstract) |
| `VmProvisioning` | instance of `Machines` | the vm-manager: requests about machines |
| `VmClaims` | `VmProvisioning` | what messages of it say where the code does otherwise |
| `Timezones` | — | the vm-manager: time zones and their cache |
| `Shells` | — | what the ssh-service promises about shells (abstract) |
| `SshGateway` | instance of `Shells` | the ssh-service |
| `Platform` | instances of `AuthSessions` and `VmProvisioning` | both services together |
| `AuthSessions_proofs`, `AuthHistory_proofs`, `VmProvisioning_proofs`, `SshGateway_proofs`, `Timezones_proofs` | the module they are named after | theorems and proofs |
| `VmMachines_proofs` | `VmProvisioning_proofs` | the vm-manager implements `Machines` |
| `Platform_proofs` | `Platform`, instances of `VmMachines_proofs` and `AuthSessions_proofs` | theorems about both services together |
| `MCAuthSessions`, `MCAuthHistory`, `MCVmProvisioning`, `MCPlatform`, `MCTimezones` | the module they are named after | symmetry sets and constants for TLC |

Definitions commented *Broken form* are not part of any specification. Each is a
definition of the code with one plausible mistake in it, used to see that a
property notices the mistake.

### Accounts, AuthSessions, AuthHistory

`Accounts` is what the auth service promises, without cache, requests or faults:
a directory of accounts without duplicates, and at most one session per account
that lasts until its token expires unless revoked or replaced.

`AuthSessions` is the service. Variables: `users` (the table; `Deleted` marks an
id that will not come back), `owned` (the user's rows of `vm_instances`, which
login copies into the session), `cache` (Redis), `now` (seconds), `held` (the
token each client has), and per client the request it waits for: `pc`, `call`
(body), `user` (`req.user`), `fresh` (token signed), `status` (answer). A
request is one client's; to have one user twice is to have two clients.

| Actions | Code |
|---|---|
| `ReceiveRegister`, `FindByUsername`, `FindByEmail`, `Insert` | `AuthService.register` |
| `ReceiveLogin`, `ValidateUser` | `LocalAuthGuard`, `AuthService.validateUser` |
| `ReceiveGuarded`, `CheckSession` | `JwtAuthGuard.canActivate`, up to and after the read of Redis; then validation pipe and handler (`EnterHandler`) |
| `Logout` | `AuthService.logout` |
| `Authorise`, `CheckConflict`, `Update`, `Evict` | `UserService.changeUsername`, `changeEmail`, `changePassword` |
| `Sign`, `Store` | the end of these, and of login: `jwtService.sign`, then `cacheManager.set` |
| `ReceiveReply`, `LoseReply`, `Reject`, `Crash` | the answer arrives or is lost; an awaited call rejects; the process restarts |
| `VmRowsChange`, `DeleteById`, `Tick` | vm-manager's rows, `deleteById`, time and Redis TTL |

A token is the record of the session user and its time of issue in seconds:
that is all the JWT library puts into the string, so two tokens signed for equal
data in one second are equal, as they are in the code. A password is compared
as a value; bcrypt is the time it takes, that is a step boundary. Bodies that
validation refuses are one value per operation (`Malformed`).

`AuthHistory` adds two history variables to `AuthSessions` — the passwords an
account has had, and the accounts whose requests overlapped or were cut short —
to state whom a session was opened for, and what it tells of its account where
requests do not overlap.

### Machines, VmProvisioning

`Machines` is what the vm-manager promises, without table, libvirt, leases,
requests or faults: machines with an owner, created as a whole under a name that
was never used and with addresses no other machine has; they go on and off, stay
what they are otherwise, and are removed only when they are off. `VmProvisioning`
maps to it by `RecordedMachines`: a machine is there when it has both a row and a
domain and their addresses agree (`Recorded`). A domain that is about to get its
row, one that a failed request left without, and a row whose domain is gone are
no machines yet, or no longer.

In `VmProvisioning`, variables: `rows` (table), `domains` (libvirt), `reserved` (DHCP host entries),
`had` (the names of the machines ever recorded as a user's: the most a token of
the user can list, whenever it was made), `blocked` (the handlers that a loop
without an end keeps from going on), and per client `pc`, `call`, `who`, `plan`
(name and addresses of the row to save), `seen` (the addresses its loop has read
from the table), `status`.

| Actions | Code |
|---|---|
| `Receive` | `JwtAuthGuard`, `PermissionsGuard`, validation pipe |
| `FindOs`, `Prepare`, `Reserve`, `Install`, `Insert` | `VirtInstallService.createVirtualMachine` and the services it calls |
| `FindMacs`, `CreateMac`, `FindIps`, `CreateIp` | `NetworkService.createMacAddress`, `createIpAddress`: the `SELECT`, and the loop that draws against what it returned |
| `Clone`, `FindOriginal`, `Insert` | `VirtCloneService.cloneVirtualMachine` |
| `Start`, `ShutDown`, `ForceOff`, `Undefine`, `DeleteRow` | `VirshService` |
| `Reject`, `Crash`, `GuestStops` | a query rejects, the process restarts, a guest powers off |

A command ends in one of four ways (`Exec`, from `ExecService.run`): in silence
with its effect, with an error message and none, with its effect and a warning,
or without effect and without a message. The handler sees only whether stderr is
empty. What libvirt itself refuses (a lease that repeats a name or an address, a
second domain of one name, a start of a running machine, ...) is modelled from
the commands that are sent, and marked external.

An address is drawn again and again, without an `await`, until it is none of
those the `SELECT` returned. Rows come and go between the two, so the loop draws
against a list that may be old; and if every address is on it, it never ends
(`Spin`). Nothing else in the process runs then, but what was sent before it
began still takes effect: a `DELETE` on its way frees the addresses of its row,
and the loop does not see it. So `Spin` picks the handlers whose next step was
not sent; each of the others takes that one step and joins them (`Hold`).
`createIp` always has the octet 256 left, which is in no row because libvirt
refuses its lease, so only MAC addresses can hold the event loop.

The guard looks at `body.vmName` alone (`permissions.guard.ts:10`). A clone
request names its machine in `originalVMName` and the copy in `name`; a
client that adds a `vmName` of its own passes with any original, because the
validation pipe does not refuse the extra field. `Body` has these requests. What
depends on their absence says so: `ClonesAreOwn`.

### Timezones

Variables: `timezones` (the cache, empty until somebody lists the zones), and
per client `pc`, `call`, `status` and `found` (the zones listed, or what the
kickstart file gets). `GetAllTimezones` and `ValidateTimezone` look at the
cache, `List` and `Grep` are the commands when it is empty. The name is then put
without quotes into a line for the shell (`timezone.service.ts:31`). For a name
that is one plain word (`Pattern`), grep prints the zones that have it in them
(`Matches`); a name with an option or with more words can make the line print
anything (`Line`), and a single line is accepted as the zone, whatever it says.
What else such a line does is not modelled. `Restart` empties the cache, as `ClearCachedTimezones` does,
which only tests call. `VmProvisioning` has the verdict as a choice of `Prepare`.

### Shells, SshGateway

`Shells` is what the ssh-service promises, without connections and without the
steps of its handlers: an event that asks for a shell gets one on the host it
names, or none; what a socket sends reaches all its shells that are open, and no
other; a shell that has ended stays so. `SshGateway` maps to it by the events that
nobody has disturbed (`Counts`): `Asked` has the requests of those that wait for a
shell or have one, `ShellsGiven` the shells, each with the host that it really
runs on. An event that is disturbed is dropped from both, as if it had failed.
An installation, too, may ask for any host: the payload is spread over the
configured one (`ssh.service.ts:19`).

In `SshGateway`, events that ask for a shell are numbered as they arrive; a connection has the
number of the event that made it. Variables: `socket`, `request`, `pc` (how far
the event's handler is), `connection`, `current` (the one `NodeSSH` holds),
`carrier` (the connection an event was served on), `shell`, `input` (who typed
into it), and the history variable `disturbed` (events that another one's
connect overtook before they had asked for their shell).

| Actions | Code |
|---|---|
| `Receive`, `Connected`, `NotConnected` | `SSHService.establishSSHConnection`, `establishSSHConnectionForInstallation` up to `connect` and after it |
| `Probed` | the `virsh console` that the installation event runs first |
| `Opened`, `Refused` | `requestShell`, and the listeners that are added for it |
| `Command` | `command`, `SIGINT`, `SIGTSTP`: a socket's listeners, one for each of its shells |
| `HandleConnection`, `HandleDisconnect` | `AppGateway` |
| `ShellExits`, `HostCloses`, `Crash` | the host, the process |

`NodeSSH` is modelled from how the service uses it, and marked external: it
holds a new connection as soon as `connect` is called, forgets the one before
without closing it, and lets go of one that ends.

### Platform

Both services over one table. `Owned` is what login reads of it; `Admit` and
`TurnAway` are the vm-manager's guards with auth's answer to `validate-token`:
the list that `VmProvisioning` bounds by `had` is here the one in a session.
Users have registered before, and no route deletes one. A restart or a rejected
query of one service (`AuthFault`, `Vm!Crash`, `Vm!Reject`) leaves the other as it
is: the vm-manager goes on with an answer it had, or gets none.

## Runs

| Run (`.cfg`) | Shows | Bounds |
|---|---|---|
| `AuthRegister` | `TypeOK`, `UniqueAccounts`: registrations and changes of name or address, overlapping in any way, never make two accounts collide | 2 clients, 2 users, 2 names, 2 addresses: the smallest instance in which two requests can collide on either column; no time |
| `AuthSession` | `IInv` (the inductive invariant), `SessionCoversToken`, `AccountsSpec` (the refinement of `Accounts`) | 2 clients, 1 user, lifespan 1, clock 0..2, all faults, deletions, one machine name, one user name, two passwords: changes of the password succeed, a token can expire while its request is at work, and be stored after it did |
| `AuthOverlap` | `SessionsAreProven` in every behaviour; `UndisturbedSessionMatches` where a user's requests do not overlap | 2 clients, 1 user, 2 names, addresses and passwords, faults |
| `VmRecords` | `EveryMachineRecorded`, `EveryRowHasItsMachine`, `TypeOK` where commands tell how they end; `OthersMachinesUntouched`; `SpinsOnlyWhenExhausted` | 2 users, 2 clients, 3 names, 2 MACs, 2 addresses and a draw that is none; everything but clone: both users have machines, one can be created after another was destroyed, and with both MACs in rows a loop begins to spin while a destroy is anywhere in its course |
| `VmFaults` | `ReservedBeforeInstalled`, `AddressesNotShared`, `MachinesSpec` (the refinement of `Machines`) with warnings, rejected queries, crashes and invalid draws | the same; create, start, destroy |
| `VmAnswers` | `RowsReserved`; `EveryCallAnswered` under fairness | 1 user, 2 clients, 2 names, 2 MACs, 1 address and a draw that is none; create, clone, destroy: with one address for two machines a MAC is always left, so every request must be answered, while the address is free, drawn by both, leased to nothing, or in use |
| `Platform` | `TokensListOwnMachines`; `VmSpec` (the vm-manager with real sessions implements `VmProvisioning`), `AuthSteps` (the auth service beside it takes only steps of `AuthSessions`) | 2 users, 2 clients, 1 machine name, 1 MAC, 1 address and a draw that is none, clock 0..1, lifespan 1, faults of both services, logins and requests to the vm-manager: a session outlives its machine, another is granted meanwhile, and sessions end by expiry or by a newer login |
| `Timezones` | `TypeOK`, `OneZoneForOneName`, `NoZoneMissed` | 3 clients, 3 zones, one of them part of another's name, names found in one, two and none of them, and one with an option for grep |
| `SshShells` | `TypeOK`, `UndisturbedInputOnTarget`, `EstablishedShellsSurvive`; `ShellsSpec` (the refinement of `Shells`); `UndisturbedEventAnswered` under fairness | 2 sockets, 2 hosts, 2 events, crashes: one event is enough to disturb another |
| `ClaimReserved`, `ClaimCloneRecorded`, `ClaimShellHost` | each a statement of a comment or a message that the code does not keep; TLC prints how | small |

Two clients are enough for the races the code has, which are between two
requests: each step rests on one condition that another request may have
changed. `Timezones` has three, so that a list that fills the cache can end
between two validations. Sets are symmetric, except in the liveness runs, in
`SshShells` and in `Timezones`: ids, names, addresses and passwords are compared
for equality only.

Deadlock is not checked in three runs. In `VmRecords` the service really stops
for good once the loop spins: nothing in it runs again. In `SshShells` and `ClaimShellHost` the sockets and events of the instance run out.

What the violated runs show:

- `ClaimReserved`: a reservation that fails with nothing on stderr (a killed
  command) counts as done, and the machine is installed without a lease.
- `ClaimCloneRecorded`: the row saved for a clone is the original's, with the
  original's name and addresses. As long as the original has its row, the
  insert is refused and clone answers 500; when the original is destroyed
  between the look-up and the insert, clone succeeds, the original's row is
  back without a machine, and the copy has none.
- `ClaimShellHost`: two events connect at the same time; the first asks for its
  shell when `NodeSSH` holds the connection of the second, is told that its
  connection is established, and types on the other host.

Other behaviours of the models that a reader may not expect, and that no text
of the repository excludes: of two registrations of one name that overlap the
second gets 500 from the unique column, not 409; a login that read the row
before a change of name stores its session after the change ended, and
`validate-token` tells the old name until the token expires; with every MAC
address in a row, one create request stops the whole process, and a row deleted
meanwhile does not help; the time zone in the table is the name that was sent,
which need not be the zone that was configured, nor need that be one.

Fairness. `VmAnswers` assumes weak fairness of each handler: Node's event
loop runs what is ready in turn and every awaited query or command ends; a
handler whose next step is enabled forever is run. The step of a handler in
`blocked` is not enabled, which is how a loop that never awaits starves all
handlers.
`SshShells` assumes that `connect` ends, which its timeout ensures, and that a
host answers what is asked on a connection it has authenticated; nothing is
assumed of a request that went to another event's connection, which may not be
established and whose failure is reported to that event only. Nothing is assumed
of the environment: no client has to send anything, no guest to stop, no host to
close a connection.

## Proofs

The theorems hold for every set of clients, users, names, addresses and so on.
Each module names what it assumes of its constants (`AuthAssumption`,
`ProvisioningAssumption`, `ZonesAssumption`, `GatewayAssumption`,
`PlatformAssumption`): bounds are numbers, flags are Booleans, `None` is no data.
What a theorem needs besides — that failed commands say so, that nothing is
cloned — is a hypothesis in its statement.

### AuthSessions_proofs

With all faults and deletions, for any lifespan: `TypeCorrect`; `Invariance`
(`Spec => []IInv`); `AccountsStayUnique` and `SessionsCoverTokens`, the two
conjuncts that matter to a user of the service; `Refinement` (`Spec =>
AccountsSpec`).

`TypeOK` carries `HandlerOK`: which locals a handler has at each
step, without which the types of what it writes are unknown. `UniqueAccounts` is
inductive by itself, given the types, because every write passes `Duplicates`;
the look-ups before it play no part, which is what the theorem says about the
code. For the refinement more is needed. A session may only be granted to an
account that was created, so users, tokens and entries must be traceable to one
(`IdentitiesTraceable`). An entry must not disappear before its token expires, or
time would revoke a session, so Redis must keep it long enough
(`SessionCoversToken`, which holds because a token is stored after it was
signed). A registration must insert a new row and not overwrite one (`NewRows`).

The steps are first summed up (`UsersStepped`, `CacheStepped`): what a step can do
to the table, and to Redis. The preservation lemmas and the refinement then have
one case per way to change a store instead of one per action. In the refinement a
step maps to one step of `Accounts` or to a stutter: a row written creates or
amends an account (`UsersRefine`); an entry stored or deleted grants or revokes a
session, or stutters when the token has expired already (`CacheRefines`); time
passes in both.

### AuthHistory_proofs

With all faults and deletions: `OnlyProvenSessions`, `UndisturbedSessionsMatch`.

For the first, `past` holds the password of every row (`Remembered`), and a
handler past the comparison carries a password that was the row's at that moment
(`Proven`); `past` only grows, so neither another change of the password nor the
end of the account matters. For the second, `UndisturbedCurrent` says of an
account whose requests did not overlap what each step of its one handler has to
carry: the user as the row has it until `Update`, the renamed user until the token
is signed, and the token until it is stored; and that the session tells the row
unless a handler is between `Update` and `Evict`. The guard is where it is
needed that nothing overlaps: the entry it accepts may be one that another request
has outdated (`GuardCurrent`), and then both are past the guard.

### VmProvisioning_proofs

| Theorem | States | Where |
|---|---|---|
| `TypeCorrect` | `TypeOK` | always |
| `NobodyTouchesOthersMachines` | `OthersMachinesUntouched` | as long as users clone machines of their own (`ClonesAreOwn`) |
| `RowsKeepTheirLeases` | `RowsReserved` | no command fails in silence |
| `MachinesHoldTheirLeases` | `ReservedBeforeInstalled` | no command fails in silence, no clones |
| `MachinesKeepTheirAddresses` | `AddressesNotShared` | no command fails in silence, no clones |
| `MachinesAreRecorded` | `EveryMachineRecorded` | `Orderly`: commands tell how they end, no faults, no clones |
| `RowsHaveTheirMachines` | `EveryRowHasItsMachine` | `Orderly` |
| `OnlyExhaustionHoldsTheLoop` | `SpinsOnlyWhenExhausted` | no command fails in silence |

The hypotheses are needed: `ClaimReserved` is the counterexample without the
first, a clone has the address its original has inside the guest, and a rejected
`INSERT` leaves a machine without a row. Without `ClonesAreOwn` a clone of
another user's machine whose row is deleted meanwhile saves that row again, under
a new owner, and the old owner's token still lists its name.

The steps are again summed up: how a handler gets to its next step (`Arrival`),
who writes which store (`Writers`), what a step does to a domain (`DomainsStep`)
and to the table (`HadStep`). Leases: between `Reserve` and `Insert` the plan is in
`reserved` (`PlansReserved`), and leases differ pairwise (`LeasesDiffer`), because
libvirt refuses one that repeats anything; addresses of machines are then apart
because their leases are. Ownership: lists of different users are disjoint, each
row's name is in its owner's list, and a handler works with a name of its own
user or of nobody (`NamesOwned`, where `ClonesAreOwn` is needed: a clone saves the original's name);
names are never used again, so an old list is too short at worst. Agreement of the stores: a name that is about to be recorded
is in no list yet (`NamesNew`), its machine is there with the planned addresses,
and a machine whose row is about to be deleted is gone (`MachinesHeld`). The event
loop: every row has its lease and no lease is removed, so what a loop has read
keeps its leases, whatever becomes of the rows before or while it draws
(`SeenStep`); when nothing else is left to draw, every MAC address has a lease
(`BeginsToSpin`), and goes on having one (`LoopStep`). No row has an `InvalidIp`,
so the draw of IP addresses always ends.

### VmMachines_proofs

`MachinesImplemented` proves `MachinesSpec`, where failed commands say so and
nothing is cloned, and with warnings, rejected queries and crashes: `Orderly` is
not needed, because what these leave behind — a domain without a row, a row
without its domain — is nothing that `Machines` sees. The invariant
(`MachinesInv`) is that of the leases and of the lists, with `NamesNew` and
`MachinesHeld`, and that a machine and its row, where both are there, have the
same addresses (`Agree`).

| Step | In `Machines` |
|---|---|
| `Insert` that saves a row | `Create`: the domain is there with the planned addresses (`MachinesHeld`), the name is in no list (`NamesNew`), the addresses are nobody else's (leases) |
| `Start`, `ForceOff`, `GuestStops` of a recorded machine | `Switch` |
| `Undefine` of a recorded machine | `Remove`: libvirt undefines a machine that is off |
| `DeleteRow` | none: the domain is gone already (`MachinesHeld`) |
| any change of a domain without a row | none |
| all others | none |

That a domain cannot come into being under the name of an old row, which would
be a machine with the wrong owner or addresses, is `RowIsOld`: names of requests
that have yet to install are in no list, those of rows are. The hypotheses are
needed, and TLC finds what happens without each: an install that fails in silence
gets its row without a machine, and a clone can be made under the name of an old
row whose domain is gone, with the addresses of that row.

### SshGateway_proofs, Timezones_proofs

`GatewayInv` strengthens `TypeOK` by what an event knows of its connection: an
event whose shell is not open yet has no input, and its connection is pending
until `connect` ends (`EventOK`); an undisturbed event is served on its own
connection, and until it has asked for its shell `NodeSSH` holds that one or none
(`Served`). From it follow `UndisturbedStayOnTarget` and `ShellsOutliveConnects`.

`ShellsImplemented` proves `ShellsSpec`, with and without crashes. `Served` is
what makes it true: the connection that `carrier` names is the event's own as
long as nobody disturbed it, so the shell it gets is on the host it asked for.

| Step | In `Shells` |
|---|---|
| `Receive` that connects | `Ask`: its event asks, and the events that it overtakes get no shell |
| `Receive` that is refused, sockets that come or go | none |
| `Connected`, `Probed` | none, or `End` of the request when nothing is left to ask |
| `Opened` | `Grant`, or none for a disturbed event |
| `NotConnected`, `Refused` | `End` of the request, or none for a disturbed event |
| `Command` | `Type`: all open shells of the socket |
| `ShellExits`, `HostCloses`, `Crash` | `End` of one shell, of all on a connection, of everything |

Each step is looked at event by event: it is the same as before (`Untouched`), no
longer waits (`Fails`) or has lost its shell (`Closes`); a step that does nothing
else is an `End` (`Ends`).

For the time zones, `ZonesInv` says of every
answer what it was made of, whichever of cache and command that was;
`CacheIsWhole`, `OneZoneIsConfigured` and `NoZoneIsMissed` (no command fails in
silence) follow. The assumption is of plain names only: grep finds each zone by
its own, perhaps with others, and then the answer is 409 without the cache. Of
the others nothing is assumed but that the line prints something or nothing.

### Platform_proofs

| Theorem | States |
|---|---|
| `SessionsListOwnMachines` | `TokensListOwnMachines` |
| `PlatformImplementsProvisioning` | `VmSpec` |
| `PlatformImplementsSessions` | `AuthSteps` |
| `PlatformLeavesOthersMachines` | `OthersMachinesUntouched` of `VmProvisioning`, with real sessions, as long as users clone machines of their own |
| `PlatformKeepsAccounts` | `UniqueAccounts` and `SessionCoversToken` of `AuthSessions`, beside the vm-manager |
| `PlatformImplementsMachines` | `MachinesSpec` of `VmProvisioning`, with real sessions (no command fails in silence, no clones) |

The specification of each service assumes something of the other: `AuthSessions`,
that the machines of one registered user at a time change under it
(`VmRowsChange`); `VmProvisioning`, that a token lists only machines its user has
had (`Permitted`). Here both assumptions are proved, each from what the other
service keeps, so that the theorems about each hold of the two together. The
invariant (`PlatformInv`) joins both: types, `IInv` of `AuthSessions` (its
`NewRows` is why a registration overwrites nobody), `RowsListed` of
`VmProvisioning` (each row's name is in its owner's list), that every user has an account (`EveryoneRegistered`, since
`Platform` starts so and no route deletes one), that sessions list machines their
user has had, and that a token found valid is answered with a user.

For the vm-manager, a login reads names off rows, which are in `had`, and every
other step copies a session or leaves it; that makes the guard with a session
(`Admit`) a case of the guard that only knows `had` (`Receive`). For the auth
service, the row that an `Insert` or a `DeleteRow` changes is one user's
(`OwnedStep`), and `Admit` and `TurnAway` are for it an answer received. Every
other step on auth's variables (`OthersStep`), its faults included, is one of
`AuthSessions` as it stands. A
theorem about a service is then cited from its own proofs, instantiated
(`ProvisioningDone`).

### Only model-checked

Both liveness properties (`EveryCallAnswered`, `UndisturbedEventAnswered`), which
are out of the proof system's reach: they need fairness and what is enabled. Of
the first, `OnlyExhaustionHoldsTheLoop` proves the part that is a safety
property. Every other property of the passing runs is proved.

## Not modelled

- Read-only endpoints, which change nothing: lists of machines, images, rows.
- The seed script: one loop over a file, run by hand before the services start.
  The table it fills is read-only afterwards; `FindOs` finds an entry or does not.
- Configuration, bootstrap, modules, Swagger documents: constants and wiring.
- Disk sizes, CPU counts, kickstart contents, HTTP: pure data or I/O.
- The output of a shell, which goes to the socket of its event and nowhere else.
- The text of MACs and IPs. Addresses are values that can be equal or not; a draw
  that is no address (`getRandomInt(2, 255)` reaches 256) is a member of
  `InvalidIp`. The MAC comparison is the code's, exact, and generated MACs are all
  of one spelling.
- MySQL's collation: names are equal or not.
- In `Platform`, registrations and changes of name: an identity's list is what the
  composition is about, and `AuthSessions` has the rest.

## Plan

The modules of the plan are written, and the theorems it listed are proved. What
would add most from here:

1. Registrations in `Platform`: the invariant rests on `EveryoneRegistered`, which
   would become a statement about the users who own rows or requests.
2. `Machines` with clones: the abstract specification would have to say what a
   copy without a row is, which the code leaves open (`ClaimCloneRecorded`).
