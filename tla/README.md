# A specification of rv-tx

rv-tx is a WireGuard mesh with a Traefik front: a control plane keeps a table of
nodes, gives each a mesh address, tells every agent who its peers are, and turns
a table of resources into Traefik configuration. This directory holds TLA+
modules of it, the TLC runs that check them on small instances, and proofs that
TLAPS checks for every instance.

Read it in this order: the inventory, what each module models, the runs, the
proofs, what is left out, the known deviations, what remains.

## Inventory

| part | source | state it keeps | operations | talks to |
|---|---|---|---|---|
| Agent endpoint | `wsserver.go`, `protocol/` | `Server.conns` (key to connection) under `Server.mu`; locals of one goroutine per connection | `HandleWS`, `handleRegister`, `handleHeartbeat`, `broadcastPeerLists` | node table (SQL), agents (WebSocket) |
| Node table | `db.go`, `0001_nodes.sql`, `0009` | one row per node name | `UsedMeshIPs`, `UpsertNode`, `TouchLastSeen`, `ListNodes` | endpoint, resources |
| Mesh arithmetic | `mesh.go` | none | `AllocateIP`, `PeerListFor` | endpoint |
| Agent's connection | `wsclient.go` | the back-off delay, the connection | `Run`, `connectOnce`, `heartbeatLoop` | endpoint, WireGuard manager |
| WireGuard manager | `wgmanager.go` | none of its own: the kernel's interface, peers and routes | `EnsureInterface`, `Reconcile`, `currentPeers` | shell commands `wg` and `ip` |
| Agent start | `cmd/agent/main.go` | the key file | `loadOrCreateKeypair` | the file system |
| Resources | `resources.go`, migrations 0002-0004 | resources and their targets | create, update, delete, list, in transactions | node table |
| Traefik configuration | `traefikconfig.go` | none | `Generate`, `selectMasterBackupTarget` | resources, `last_seen` |
| Accounts | `users.go`, `auth.go` | users with their tokens; cookies held by browsers | bootstrap, invite, accept, reset, login, delete, change role | mail |
| Migrations | `migrate.go` | `schema_migrations` | `Migrate` | every table |
| Dashboard | `dashboard/src` | forms being edited | resource form, name server wizard, users page | HTTP handlers |

What is hard about it:

* one goroutine per connection, with queries, a lock and socket writes that
  interleave with those of every other connection, and an old connection's
  goroutine that outlives its agent's new one;
* state read early and used late: a free address chosen before the row is
  written, a table listed before the lock is taken;
* a kernel whose state survives the agent, changed by one command at a time;
* deadlines that race with heartbeats, back-off and lost connections;
* blocking writes under a lock, between two parties who both read and write.

What makes each part correct is stated with the properties below.

## What the modules model

| module | role |
|---|---|
| `MeshServer` | the agent endpoint with the node table and the mesh arithmetic it uses |
| `MeshRegistry` | abstract: what the endpoint promises the agents |
| `MeshServerRegistry` | the mapping from one to the other |
| `Pushes` | the same endpoint and its agents, seen as who waits for whom |
| `Allocation` | `AllocateIP` on octets, against "the lowest free host" |
| `WgManager` | one agent's start with its key file, its WireGuard manager and the kernel it configures |
| `Failover` | one agent's connection, in time, against the freshness of `last_seen` |
| `Accounts` | the dashboard's accounts, links, cookies and admin requests |
| `Resources` | resources, their transactions, the forms that edit them, the target Traefik gets |
| `ResourceStore` | abstract: what the control plane promises about its resources |
| `MCMeshServer`, `MCAllocation`, `MCWgManager`, `MCResources` | values of the constants for TLC |
| `MeshRegistryProofs`, `MeshServerProofs`, `PushesProofs`, `AllocationProofs`, `WgManagerProofs`, `FailoverProofs`, `AccountsProofs`, `ResourcesProofs` | theorems |

Definitions with a comment that begins with "A slip of" are not part of any
next-state relation. Each is a plausible mistake in the code next to it;
substituting it for the definition makes a property fail, which is how we know
that the property says something about that code.

### MeshServer

A connection `c` stands for one WebSocket and the goroutine that serves it; it is
used once, so the number of connections bounds the number of dials. `pc[c]` is
where the goroutine is between two points at which another one may run: a
statement of SQL, a critical section of `Server.mu`, or a write to a socket.

| state | code |
|---|---|
| `nodes`, `fresh` | the `nodes` table; `fresh` holds the names whose `last_seen` is recent |
| `conns` | `Server.conns` |
| `agent[c]` | the register message of the connection, hence `publicKey` in `HandleWS` |
| `meshIP[c]`, `snap[c]` | locals of a handler: the address, the rows of `ListNodes` |
| `alive`, `hb` | sockets that are up; sockets with an unread heartbeat |
| `reply`, `list` | what the agent was told: by `registered`, and last of all |

| action | code |
|---|---|
| `Dial`, `AgentGone`, `SendHeartbeat` | the agents, as the server sees them |
| `ReadRegister`, `Upsert`/`UpsertFails`, `Join`, `List`, `Reply`, `Broadcast` | `handleRegister`, in this order; every early return leads back to `serve` |
| `ReadHeartbeat`, `List`, `Broadcast` | `handleHeartbeat` |
| `ReadError` | the end of `HandleWS`, with the `delete` of the connection's key |
| `WriteCollision`, `WriteGarbled` | the two outcomes of a reply written without the lock while another goroutine pushes to the same socket |
| `ServerRestart` | the process ends: sockets and map are lost, the table is not |
| `Age` | time passes without an update of `last_seen` |

The CIDR is a number of addresses (`Hosts`); `AllocateIP` returns the first that
is free, which is what `Allocation` shows of the arithmetic. What remains of a
registration (endpoint, subnets) is one value, `Attrs`. A write to a socket is one
step here that does not block; `Pushes` is about those that do.

### MeshRegistry and MeshServerRegistry

A session is admitted (its name is enrolled, with an address for ever), looks
once at who is enrolled, and is answered with what it saw; until then it may be
dropped. `MeshServerRegistry` maps a connection to a session: admitted at
`Upsert`, looked at `List`, answered at `Reply`. That the mapping works is the
point: the row is written before the table is listed, and neither step is
covered by the lock.

### Pushes

The goroutines of the server and the two goroutines of each agent, with sockets
that hold `Room` messages in each direction. Messages are counted, not read.
`stage[c]` is where the goroutine of connection `c` is, `mu` who holds
`Server.mu`, `todo` and `at` the rest of its broadcast and the connection it is
writing to. No write has a deadline, so `Reply`, `Push` and `WriteBeat` wait for
room or for the socket to go down. `Panic` is gorilla's answer to two writers at
once, with the deferred `Unlock`. A connection that is closed and in nobody's
broadcast stands for the next one, so there is no end to connections. Keys are not
modelled: a connection that joins may replace any other one in the map, and one
that leaves without being there may take another one out (`wsserver.go:104`).

### Allocation

`AllocateIP` with `incIP`, `lastAddr` and `IPNet.Contains`, octet by octet; one
step is one turn of the loop. A mask is the size of the block it leaves to the
hosts in each octet. `used` is what `UsedMeshIPs` returned. `Hosts` is the
reference: what lies strictly between a network's first and last address.

### WgManager

One agent's process, its key file and the kernel. A process that starts loads its
key (`LoadKey`), or makes one in two steps, because `os.WriteFile` creates the file
before it fills it (`CreateKey`, `SaveKey`); a process that cannot start is started
again. Any error of the read, not only a missing file, leads to a new key over
the old one. `joined` says that a registered message has come, hence that the
control plane knows the key. The file survives `Crash` and `Reboot`.

In the read loop a step is one command (`ip link add`,
`wg set`, `ip route add`, ...) together with the reads it depends on. The kernel
(`link`, `configured`, `peers`, `routes`) survives `Crash`, and is lost in a
`Reboot`. `Registered` and `PeerList` are the two messages that start
`EnsureInterface`+`Reconcile` and `Reconcile` alone. The order in which
`Reconcile` goes through peers is that of a Go map, hence any. An address given
to a second peer is taken from the first one by the kernel, as cryptokey routing
has it. `Lan` is the set of subnets the host already routes elsewhere, whose
`ip route add` is refused.

### Failover

Discrete time, in seconds. `age` is the age of the primary's `last_seen`; `clock`
is the agent's ticker, its current reconnection delay or the rest of a dial's
timeout; `msg` and `due` are the message under way and its deadline. `missed`,
`losses` and `waited` are history: what has gone wrong since `last_seen` was
written. The delay doubles up to `MaxBackoff` and is never reset, as in `Run`.

| action | code |
|---|---|
| `StartDial`, `Dial`, `DialFails` | `connectOnce` up to the register message; a dial may take until the `HandshakeTimeout` of `DefaultDialer` (`MaxDial`), and the delay begins after it |
| `Heartbeat`, `HeartbeatFails` | the ticker of `heartbeatLoop`, which returns when a write fails: the link is `mute` until the reader notices, for which there is no deadline |
| `Lose` | `ReadJSON` fails, and `Run` backs off |
| `Handle` | the control plane handles a message, with or without writing `last_seen` |

### Accounts

One statement of SQL per handler. Where a handler looks at something before that
statement or does something after it, these are steps of their own: `call[q]` is
the request that goroutine `q` has under way. A login reads the account
(`ReadAccount`), compares the password, and issues a cookie with the role it read
(`IssueCookie`); what admins do is allowed by the cookie (`Authorize`) and done
later (`InviteUser`, `DeleteUser`, `SetUserRole`), whatever has become of the cookie
or its account. A mail is sent after the row was written (`SendInvite`,
`SendReset`). Tokens are random and one per row, so a link is a stage of its row:
none, being sent, open. The cookies are a set of claims that the code never looks
up again; `Sessions` are these and the claims of the requests under way.

### Resources and ResourceStore

A client has one request under way. `pc` is the next statement of its
transaction; `lock[n]` the transaction that has written the row of `n`; `gone`
and `new` what it has deleted and inserted and not committed. `InsertRow` and
`UpdateRow` wait for the lock as PostgreSQL does at READ COMMITTED; an insert of
a name that is being inserted waits as well. Every statement may fail (`Fault`,
if `DbFaults`), also one that waits, upon which the deferred `Rollback` runs; a
failed commit may have been one (`CommitUnheard`). `OpenForm` and `SaveForm` are
the dashboard's edit form, which reads what the API lists and sends all of it
back; `StartWizard` is the name server wizard with its two requests.
`SelectTarget` and `Servers` are the part of the Traefik generator that chooses
targets.

`ResourceStore` has no transactions: one of the requests under way takes effect,
whole, or none does.

## The runs

| run | properties | instance and bounds | what it shows |
|---|---|---|---|
| `MeshServer_safety` | `TypeOK`, `AddressIsIdentity`, `MutualDiscovery`, `ListsUsable` | 2 names, 3 keys (one agent lost its key file), 3 connections, 2 addresses, failing SQL, restarts, 1 unread heartbeat | identities and lists survive every interleaving |
| `MeshServer_live` | `KeyIsIdentity`, `Convergence`, `ImplementsRegistry`, `FreshFollowsAgents` | 3 names, two of them those of one node that was renamed and keeps its key, 2 values of what they advertise, 2 connections, 2 unread heartbeats, the other node's name ages, no failing SQL | lists become right again, a key has one name, the endpoint implements the registry, and `last_seen` follows the agents |
| `MeshServer_unmapped` | `ConnectedAgentsMapped` (violated) | 2 names with one key each, 3 connections, no failing SQL | deviation 1 |
| `Pushes` | `TypeOK`, `LockComesFree`, `HeartbeatsHeard`, `ConnectionsEnd` | 2 connections at a time, 1 message in each direction of a socket | full sockets hold nobody up for ever |
| `Allocation` | `TypeOK`, `FirstFreeHost`, `ExhaustedMeansFull`, `LoopClimbs`, `Returns` | octets of 4 values; every network of up to 8 addresses with every set of used ones, and the network of all 256 addresses filled from below but for one | what the octet arithmetic computes is the lowest free host, and that the loop only goes up |
| `WgManager_exact` | `SuccessMeansEstablished`, `NoRouteLeft`, `Recovers` | 3 keys, 2 relays of one subnet, one of which may change its key, 2 crashes | success means what it says, and interface and peers get there, from any death on the way, also while the key file is written |
| `WgManager_faults` | `TypeOK`, `IdentitySaved`, `SuccessMeansServing`, `Undisturbed` | 3 keys, a relay whose subnets change, a route the host has elsewhere, failing commands, reads and writes, 1 crash | unchanged peers keep working while others change or fail; success serves every wanted peer, whatever failed unnoticed; a key is on the disk before it is used |
| `WgManager_dropped` | `NoRouteLeft` (violated) | a relay whose subnets change, nothing fails | deviation 2 |
| `Failover_budget` | `TypeOK`, `StaysPrimary`, `Returns` | the code's own numbers: 15 s, 45 s, 2 s to 30 s, dials of up to 45 s; a second for a message; 2 missed, 4 losses | when the primary is kept, and that it returns |
| `Failover_flaps` | `CoupleTolerated` (violated) | the same | deviation 3 |
| `Accounts` | `TypeOK`, `AdminsRemain`, `RightsAreGranted`, `Onboarding`, `RightsEnd` | 2 addresses, 2 requests under way, one role too many in requests; one owner forgets the password | who can get in, who can be put out, and that rights do not come from nowhere |
| `Resources` | `TypeOK`, `ServersReal`, `ImplementsStore`, `EditsKeepTargets`, `Finishes` | 2 names, 2 clients, 1 node and an external address, 4 requests (one refused at once, one refused by the table) and the wizard's, failing statements | requests are atomic, end, and leave something to serve |

Why the bounds are enough:

* Two names race for an address, a row or a place in a list; a third adds a new
  relation only when it shares a key, as in `MeshServer_live`, for every property
  of `MeshServer` speaks of at most two registrations. Three connections give
  one agent an old and a new connection beside somebody else's. Two addresses
  fill the CIDR. That the safety properties do not depend on these numbers is
  proved.
* `MaxBeats` bounds messages in the sockets' buffers, not heartbeats: they go on
  for ever, as the liveness runs need.
* `WgManager` starts from any interface that two crashes and any earlier lists
  can leave behind; three keys give two owners of a subnet and a successor.
* In `Failover` two missed updates and four losses already exceed the freshness
  in every combination, so both sides of `StaysPrimary` occur; `MaxDial` is the
  real one, and a single dial may take all of the freshness. `waited` and `age`
  stop counting one second past the freshness, when they decide nothing any more.
  Proved for all numbers.
* In `Accounts` two requests are enough for one that looks early and acts late
  beside one that changes what it saw. `Forgetful` says whose owner asks for
  resets; the other account is the bootstrapped one, which has its password.
* In `Resources` two transactions meet on one name while the second name is
  free, and every form of request is there: a primary with a backup, a pool (two
  ports of one node), two primaries, which validation must refuse, and a role that
  only the table refuses. Rows come back in any order the query allows.
* In `Pushes` two connections suffice for a circle: one goroutine writes to the
  other's agent under the lock while the other waits for the lock. `Room = 1` makes
  every second message wait.
* In `Allocation` octets of four values have blocks of one, two and four, hence
  prefixes that end within an octet or between two, and /31 and /32 at the end of
  the address space. The invariants are proved for octets and networks of any size.

Deadlock is checked in every run but `Allocation`, where the function returns.

## Fairness

* `MeshServer`: goroutines are scheduled (`WF` of `Serve(c)`, a step of which is
  always possible for a connection that has something to read); a ticker sends
  while its connection is up (`WF` of `SendHeartbeat`); time passes (`WF` of
  `Age`). Nothing is assumed of dials, losses or restarts.
* `Pushes`: goroutines run (`WF` of `Run`); `sync.Mutex`, which hands the lock to
  whoever has waited a millisecond, and the lock `net.Conn` has for writers starve
  nobody (`SF` of `Acquire` and `Reply`); an agent whose connection is up reads on
  and writes its heartbeats sooner or later (`WF`). The last is an assumption about
  agents: a process that is stopped while its host keeps the TCP connection
  acknowledged would hold up the lock, and with it everybody, for as long.
* `Allocation`: the loop runs (`WF`).
* `WgManager`: commands end (`WF`); heartbeats are answered with peer lists again
  and again (`WF`); a started agent is answered once at least (`SF`, since a
  crash may intervene).
* `Failover`: `WF` of the whole next-state relation: time does not stop. That a
  heartbeat is handled is not assumed; it is in the antecedent of `Returns`.
* `Accounts`: the process is started again and cookies expire (`WF`). For
  `Onboarding` also that the owner asks for resets again and again, that one of
  the mails arrives and that one of the links is opened in time (`SF`). The code
  cannot guarantee that; the property says that nothing else is needed, in
  particular no admin. A request under way ends (`WF` of `Answer`), with or without
  effect.
* `Resources`: `SF` of a handler's statements, for PostgreSQL queues those who wait
  for a row lock. With less, others could take the lock in turn for ever while one
  waits. A fault ends a request too but is never forced, so that a lock which is
  not given up leaves its waiters waiting. Nobody waits in a circle, since a
  transaction locks one row.

## What is proved

TLAPS checks every proof down to its leaves; there is no assumption beyond the
`ASSUME`s of the modules and those that the statements below name.

| theorem | for every ... | provided |
|---|---|---|
| `MeshServerProofs!Typed`, `AddressIsIdentityThm`, `ListsUsableThm` | number of names, keys, addresses, connections; keys change at will | |
| `MeshServerProofs!KeyIsIdentityThm`, `ImplementsRegistryThm`, `MutualDiscoveryThm` | the same | a key that two names share is the only key of both (`SharedKeysAlone`) |
| `MeshRegistryProofs!RegistryDistinct`, `RegistryDiscovery` | names, addresses, sessions | "nothing" is neither an address nor a name |
| `PushesProofs!Typed` | connections, room in a socket | |
| `AllocationProofs!Typed`, `FirstFreeHostThm`, `ExhaustedMeansFullThm`, `LoopClimbsThm` | octet size, networks, sets of used addresses | a block of a mask divides the octet |
| `WgManagerProofs!Typed`, `IdentitySavedThm`, `SuccessMeansServingThm`, `UndisturbedThm` | keys, addresses, lists, foreign routes, crashes, failing commands | |
| `WgManagerProofs!SuccessMeansEstablishedThm` | the same | no command fails without a reason (`CmdFaults = FALSE`) |
| `WgManagerProofs!NoRouteLeftThm` | the same | moreover, no peer ever changes its allowed-ips (`Keeps(F)`) |
| `FailoverProofs!Typed`, `StaysPrimaryThm` | interval, freshness, back-off, dial timeout, delay | a message is handled within an interval and within the first delay |
| `AccountsProofs!Typed`, `AdminsRemainThm`, `RightsAreGrantedThm` | addresses, asked roles, requests under way | |
| `ResourcesProofs!Typed`, `ServersRealThm`, `ImplementsStoreThm`, `EditsKeepTargetsThm` | names, nodes, clients, requests of any length, failing statements | |

The arguments:

* *Addresses.* `AddressIsIdentity` speaks of replies, which are sent long after
  the address was chosen, so it is not inductive. `AddressInv` adds that the
  table has no key and no address twice (`TableOK`, by the UNIQUE constraints),
  that a handler between its upsert and its reply has the address of its own row
  (`HandlersOK`), and that so has each reply (`RepliesOK`). It is kept because a
  row's address never changes again (`AddressStays`).
* *Lists.* A list is sent from a snapshot that may be old by then. `ListInv`
  says that every snapshot and list is coherent (no address or key twice) and
  that each entry is an address the table still gives to a name that had the
  entry's key. Coherence comes from `TableOK` at the moment of `ListNodes`, and
  the second part is stable because addresses are for life.
* *Shared keys.* Keys are generated at random, so two names share one only when a
  node was renamed and kept its key file. UNIQUE then keeps the second name out of
  the table for as long as the first is there, which is for ever: if the row of
  one name held a key that the agent of another, enrolled name has, both rows
  would hold it (`KeysApart`). Hence `KeyIsIdentity`, and hence a snapshot from
  which the receiver's key was left out lacks nobody else. Some such hypothesis
  is needed: when a shared key is one of several, an agent that lost the key of
  its row can be answered with a list that lacks the new holder of it.
* *Refinement.* `RefInv` adds that a connection is answered once. A reply shows
  addresses; the mapping turns them into names through the table, which is sound
  since what an address means never changes (`NamesStay`). Every action then maps
  to one action of the registry or to a stutter.
* *Discovery.* Of two connections, the one that lists the table last finds the
  row of the other (`ListKnows`). `DiscoveryInv` states the property for everyone
  who has listed the table, answered or not, which makes it inductive; and what
  was shown keeps its meaning.
* *Allocation.* While the loop runs, `Searched` holds: its address lies in the
  network and every host below it is used, unless the network has no host at all
  (`LoopInv`). `Inc` is the successor in the order of addresses (`a \prec b`),
  nothing lies between the two, and a network is an interval of that order; these
  are lemmas about octets, without any arithmetic on whole addresses. `LoopClimbs`
  is one more use of them: inside the loop the address is
  below the network's last one (`AtHost`), so its successor is no wrap.
* *WireGuard.* `StageInv` says what the variables hold at each stage. `ReconcileInv`
  follows a `Reconcile`: nobody unwanted is left once removals are done, and each
  address of a peer that is set belongs to some peer that is set and wants it, so
  that a relay which takes a subnet from another one does no harm. That holds with
  any failing commands and is `SuccessMeansServing`; that nobody else is left
  (`OthersInv`) is what needs `wg show` to answer. `RouteInv` says
  that each route belongs to a peer or is about to go. `OwnersInv` says that an
  address belongs to one peer, a route under deletion to none, and that nobody who
  is wanted is removed; a step can then reach only the addresses of the peer it
  is about. `KeyInv` puts the whole key file between a start and its use.
* *Freshness.* `Accounted` bounds the age of `last_seen` in each of the agent's
  situations by what is spent so far: an interval per missed beat, the delays, the
  seconds of dials and of connections without heartbeats, a message's time per
  loss; while a dial runs, what is spent is what has passed of it, not its
  timeout. `Timers` says that a message is handled before the next one is written,
  and before the next dial, without which the deadlines could overlap.
* *Admins.* Whoever may act as an admin was one by the cookie that `requireAdmin`
  looked at (`Rightful`). While cookies and requests agree with the table, whoever
  deletes or demotes is an admin of the table and cannot be the target.
  Invariance of types is needed to tell an account from "no account". A lock-out
  is kept by the same reading of the guards the other way round
  (`LockedOutStays`): a role is written by a request that is an admin's or into a
  table without rows, a login copies the role that it read, which was an admin's
  only if the request already counted as one, and everything else leaves roles
  and sessions alone (`SameRole`).
* *Resources.* `ResInv` says for a name (`NameInv`) that its committed rows are
  `Whole`, none or all of one valid request's, and that its lock is held by a
  transaction that writes it; for a client (`ClientInv`) that its transaction has
  deleted every row it found and `Inserted` the first few targets of its request.
  `gone` stays equal to what is committed since nobody else holds the lock, so a
  commit replaces the whole. `Valid` allows one primary at most, which is why
  `SelectTarget` finds a real row. For the store, every statement before a commit
  is a stutter, and a commit is the one step of the request.
* *Forms.* An edit is saved long after its listing was read, and others may have
  written the resource meanwhile, so `EditInv` speaks of the request only: it asks
  for the targets that its form was filled with, as many of each (`FormKept`). A
  listing numbers the rows it has; as many numbers as rows into a finite set leave
  no row out (`ListingComplete`), and rows that differ stay different without the
  tag of their transaction (`UntaggedSize`). Only the holder of the lock writes
  rows (`HolderWrites`), those of its own request, which stores what it sent
  (`RowsKept`).

A proof of "every step keeps this" repeats one argument: steps that leave the
variables in question alone. `MeshServerProofs` states it once (`Framed`), the
others as lemmas of their own (`OwnersKept`, `RouteKept`, `KeyKept`).

## What is only model-checked

* Liveness (`Convergence`, `FreshFollowsAgents`, `Recovers`, `Returns`,
  `Onboarding`, `RightsEnd`, `Finishes` and all of `Pushes`' properties but its type
  invariant): fairness and `ENABLED` are beyond what TLAPS can treat here. Every
  invariant and every action property that a run shows to hold is proved.

## What is not modelled

* Migrations: each file is one batch in one transaction with its record, run once
  before the server listens. A crash rolls back both and nothing runs beside it,
  so that a model would restate PostgreSQL's transactions.
* Mail: one SMTP exchange that works or does not, which is all `Accounts` needs.
* A mesh CIDR that does not parse: `AllocateIP` returns the error at once.
* HTTP routing, static files, listings, JSON decoding, passwords' hashes, the
  signature of cookies, and the rendering of the dashboard: they keep no state.
* Rules, certificates, schemes, stickiness and entry points in the Traefik
  output: layout of what the tables hold.

## Known deviations

Three are shown by runs, against what the repository itself says.

1. `MeshServer_unmapped`: `HandleWS` deletes `conns[publicKey]` when it ends,
   whichever connection the entry is for (`wsserver.go:104`). When an agent has
   reconnected before its old goroutine notices, the agent's new connection is
   unmapped and is not pushed to until it reconnects; `wsserver.go:173` says that
   every connected agent is. Its own heartbeats do not help: they broadcast to
   the map.
2. `WgManager_dropped`: routes are deleted only with their peer
   (`wgmanager.go:151`), so a subnet that a listed relay no longer advertises keeps
   its kernel route, into an interface where no peer takes that traffic.
   `wgmanager.go:123` says that routes are removed for each entry.
3. `Failover_flaps`: the freshness is exactly three intervals, so after two missed
   beats the third one arrives when the primary is just going stale
   (`traefikconfig.go:279`); the comment at line 14 promises to tolerate a couple.

Others were met while modelling. They are in the models and have no run of their
own. Four of them also contradict a comment:

* A late registration with the key an agent used before puts that key back into
  the table (`wsserver.go:133`), and the agent, which is known by its key only,
  is then listed to itself; `wsserver.go:173` says "everyone except itself" and
  `mesh.go:62` "excluding itself". There is no such property here: where every
  name keeps its key it is the filter of `PeerListFor`, and elsewhere it does
  not hold. An old endpoint is put back the same way.
* `AcceptInvite` replaces the password of an account that is active by then
  (`users.go:63`); `users.go:56` says that it "sets a pending user's password".
* An agent that dies between removing a peer and deleting its routes never
  deletes them (`wgmanager.go:151`), although `wgmanager.go:123` has `Reconcile`
  remove them; hence `crashes = 0` in `NoRouteLeft`.
* Any error of reading the key file makes a new identity over the old one
  (`cmd/agent/main.go:67`), where the comment at line 61 generates a key only
  "if none exists yet" and wants the identity to survive restarts. The node
  comes back under its name with another key, as in `MeshServer_safety`.

The rest contradicts nothing that is written down:

* With the CIDR full, a node that has had an address for long is refused,
  because an address is allocated before the row is looked at
  (`wsserver.go:114`).
* A broadcast that waited for the lock may take back what a later one announced
  (`wsserver.go:169`); the next heartbeat repairs it (`Convergence`).
* A connection is mapped before its `registered` message is written
  (`wsserver.go:138`), so a peer list may come first, when the agent has no
  interface yet; `Recovers` covers it.
* A node that is renamed and keeps its key file is refused for ever, because the
  row of its old name has the key (`db.go:83`), and is not told. Its heartbeats
  go by key (`TouchLastSeen`), so they keep the old name fresh although no agent
  of that name is there; `FreshFollowsAgents` is therefore checked for a name
  that shares its key with none.
* A node that is gone for good stays in every list (`wsserver.go:102`); only
  `last_seen` tells.
* `wg show` that fails reads as an interface without peers (`wgmanager.go:205`);
  a refused route ends `Reconcile` before the other peers are set
  (`wgmanager.go:180`).
* A dial may hang for its 45 s, as long as the freshness (`wsclient.go:68`), and
  a heartbeat that cannot be written ends the heartbeats but not the connection
  (`wsclient.go:151`): nothing bounds the time until it is noticed.
* A login that has read the role of an admin issues an admin's cookie after the
  role was taken away (`cmd/controlplane/main.go:187`), and an admin's request
  that was let through is carried out after its cookie ended (line 161): rights
  end, but not at once.
* Saving the form of a tcp resource drops the domain it was given by the API
  (`Resources.jsx:91`); of two editors the last one wins.
* The wizard's second request may fail after its first was stored
  (`Resources.jsx:252`), and then repeating it fails at the first.
* An agent that dies, or cannot write, between the two steps of `os.WriteFile`
  (`cmd/agent/main.go:83`) leaves an empty key file, upon which every later
  start fails; hence the exception in `Recovers`.
* An agent that stops reading but keeps its connection holds up the broadcast
  that writes to it, and by the lock every handler (`wsserver.go:186`): no write
  has a deadline. `Pushes` shows that it needs an agent that never reads again.

## What remains

* `Failover` with several resources and nodes, and the dynamic choice of
  `SelectTarget` between them: each resource is chosen for on its own, so this
  would compose what is modelled rather than add to it.
* `Recovers` and `MeshServer`'s re-keyed agents as one composed specification, in
  which the key file of an agent decides with which key it registers.
