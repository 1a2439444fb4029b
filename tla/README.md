# Verification of exordos_core

TLA+ models of the control plane of exordos_core, the TLC instances that check
them and TLAPS proofs about them. Paths of code are relative to
`src/exordos_core/`.

Contents: [inventory](#inventory), [modules](#modules), [runs](#runs),
[proofs](#proofs), [disagreements](#disagreements-between-code-and-documentation),
[what is not modelled](#what-is-not-modelled), [plan](#plan).

## Inventory

exordos_core is a declarative platform: users write desired state into rows of a
PostgreSQL database through REST APIs, a *general service* turns rows into target
resources, agents on hypervisors and inside machines apply target resources and
report actual ones, and the general service carries the reports back into statuses.
Nothing in the system is told that something happened; everything is polled.

| Component | State | Operations | Depends on |
|---|---|---|---|
| User API (`user_api/`), 4 worker processes | none of its own | CRUD and actions on all rows, one transaction per request | every table |
| General service (`gservice/service.py`) | when each service runs next | one pass over some 25 services, in a fixed order, each iteration a transaction | all services below |
| Scheduler (`compute/scheduler/`) | capacities and spare volumes in memory during an iteration | places nodes and volumes, assigns pools to builders | pool reports, node rows |
| Node, volume, pool builders (`compute/builders/`) | rows of nodes, volumes, machines, machine volumes; target resources | create, update and delete hooks, hooks on reports | scheduler, network, agents |
| Node sets (`compute/builders/node_set.py`) | a row per set | grow, shrink, derive status | nodes |
| Network service, IPAM (`network/`) | ports, addresses | allocate, actualise the data plane | nodes, drivers |
| Load balancers, border (`network/lb`, `network/border`) | balancers, vhosts, routes, pools, node sets they own | validate and write, build machines, tell agents what to serve | node sets, agents |
| Element manager (`elements/`) | elements, requirements, imports, exports, resources, target resources | install, upgrade, uninstall; render links; derive statuses | API workers, agents |
| Configs (`config/`) | configs, one render per node | create, update, delete, status | nodes, agents |
| Secrets (`secret/`) | passwords, certificates, SSH keys | create, renew, status | nodes, agents |
| IAM (`user_api/iam`, `iam/`, `janitor/`) | users, tokens, codes | authorize, refresh, renew, confirm, clean up | API workers |
| Repositories (`repo/`) | repositories, versions of elements, bindings | closure of dependencies, installation, release | element manager |
| Values store (`vs/`) | profiles, variables, values | select, activate, derive | API workers |
| Quotas (`quota/`) | limits, usage | check before insert | API workers |
| DNS mirror (`dns_sync/`) | synchronised records, windows in time | fast and full synchronisation | remote API |
| Bootstrap (`cmd/bootstrap.py`, `bootstrap/`) | rows, files under /etc and their copies | a script of sixteen steps at every boot, repeated until it gets through | repositories, element manager, values store |

What makes the system hard to test:

* **Interleaving.** Four API workers and the general service share rows under
  READ COMMITTED; a request decides on rows it read earlier.
* **Separate transactions.** One user action travels through three or four builders.
  A restart or an exception between two of them leaves the first half committed.
* **Reports that are late.** Decisions to flash, to place, to reboot compare rows with
  the last report, which may belong to an earlier target.
* **All or nothing.** An iteration fails for all instances when one raises.
* **In-memory bookkeeping** of the scheduler and of the address pool that must be undone
  when a step fails.
* **Effects outside of the transaction**: DHCP is restarted, requests are sent to the
  ecosystem, certificates are ordered, files are written; a roll back or a crash does not
  undo them.
* **Validation without locks.** A request checks other rows with a query and writes later.

What makes each component correct is listed with its module below, and for the
components left out under [what is not modelled](#what-is-not-modelled).
`PROJECT.json` lists all hazards at their lines.

## Modules

### NodeLifecycle

One compute node from the moment the scheduler placed it.

* `node`, `vol`, `mvol`, `machine` are the rows; `nres`, `pm`, `gm` target
  resources; `apm`, `agm` what the pool agent and the guest agent report; `disk`
  the real content of the root disk. `dirty` stands for "updated_at is newer than the
  target resource", `seen` for "the node has tracked the last change of its
  machine", `fresh` for "a derivative has changed since the pool builder looked".
* `stage` is the program counter of the general service: pool builder (specification,
  then reports), node builder (specification, then tracked hook), volume builder, in the
  order of `gservice/service.py:245`. Each stage is one hook of the base builder: new or
  changed instances first, then instances whose reports changed. `held` says that the
  open transaction has written the node row, which blocks writers in the API.
* A power action is two steps, `LoadNode` and `SetTargetPowerState`: the worker
  decides on what it loaded.
* `SkipService` is an iteration that was rolled back, by an exception of any other
  node in it or by a restart.
* The agents are external (gcl_sdk). They follow the use the builders make of their
  reports: a machine booted from the network writes the image and reports FLASHED, one
  booted from its disk reports what the disk holds, a reboot is performed once and
  reported as REBOOTED until the target changes.
* `env` holds what may still come from outside: whether the node is of the core set
  (boots from its disk, updated in place), how patient clients are, and the bounds on
  power requests, image updates and faults. `Scenarios` gives its initial values.
* `credit` is a history variable: reboots granted less reboots performed.

### Placement

The scheduler, the capacity checks of the pool builder, the volume builder and the
API, for several nodes, volumes and pools.

* An iteration of the scheduler is one transaction in several steps. `mem` is what it
  keeps in memory, `placed` and `taken` its uncommitted rows. API requests and
  agents act between the steps; builders do not, they run in the same process.
  `Locked` is the foreign key lock that the open transaction holds on a node row.
* `AllocateFails` is the exception handler of `_allocate_node_volumes`. `PlaceNode`
  writes the rows; a key that exists or a node that is gone breaks the transaction and
  ends the iteration, as PostgreSQL refuses all following statements.
* The pool builder's `_can_create_*` checks are `CreateMachineResource` and
  `CreateVolumeResource`, with rescheduling in their failing branches.
* Capacity comes back only with `ReportPool`.

Abstractions: cores and RAM are compared in the same way everywhere and are one
quantity; the ephemeral policy of a storage pool is mandatory and is `Class`; tier and
weight only order candidates and are an open choice; keys of nodes are never reused.

### ElementManager

Manifests, the element engine and the reconciliation of declared resources.

* `installed` maps an element to its manifest; rows of resources and exports are the
  ones that manifest declares, so only import rows are a variable. `linked` and
  `seen` are the foreign keys to target and actual resources.
* A request loads an engine (`StartRequest`) and writes on its strength
  (`FinishRequest`) or raises (`RefuseRequest`). `Writes` collects the lookups in the
  engine, which may be stale, and the unique and foreign keys, which are checked
  against current rows. An upgrade compares current rows with the manifest and takes the
  difference into the engine, which refuses what contradicts it (`Follows`).
* `LoadEngine`, `Actualize` and `RollBack` are one iteration. `done` are the resources
  whose report was found earlier in the same iteration; the order of resources is that of
  a query without ORDER BY, hence open. A link is rendered with the report that was loaded
  with the row it leads to, or fetched in between (`Known`). `Lost` are rows that requests deleted
  meanwhile; writing one of them raises.
* Statuses follow the two views of `migrations/0000-squashed-current-7f2e4a.py`.

Abstractions: loading the engine is one snapshot; links go one level deep and carry one
fact; a resource keeps its key over upgrades; `Requires` is the set of manifests that
the version comparison of `_check_no_dependents` accepts.

### Api, Tokens, Accounts

IAM. `Api` holds what requests of the user API share: workers, and that saving an object
writes the columns the request has changed (`Saved`).

* `Tokens`: `token` are rows, `values` the signed values handed out, `Accepted` what
  introspection says of one of them. A refresh, a regeneration, a change of lifetime and an
  iteration of the renewal service load a row and write it later; revocation comes in
  between. The authorization code flow locks its row (`get_token_by_authorization_code`),
  so that redeeming is one step. `now` is a clock; the renewal service lags behind it by at
  most `MaxLag`. The signing key rotates.
* `Accounts`: a user row with its code, the mail that was sent, organizations, projects and
  bindings. Confirming provisions a workspace under the lock of the user row. The janitor
  loads users and clears their codes one step later. `overlap` remembers that two requests
  for one user were under way at once.

### Ipam, Leases, Network

* `Ipam`: free addresses of a subnet as a sequence of intervals, with the operators of
  `network/ipam.py` (`OccupyIp`, `CalculatePool`, `AllocateIp`, `DeallocateIp`).
* `Network`: an iteration of the network service, from its snapshot over one step per node
  to the driver and the commit. `iter` is what it keeps in memory, `dhcp` the files of the
  flat driver, `Handled` the exception handler. `reserved` are addresses of older nodes.
* `Leases` is the abstract specification: nodes without an address get one nobody else
  holds, and keep it until they are deleted. `Network!LeasesHonoured` is
  `Book!LeasesSpec` for the refinement mapping `leaseOf`: the addresses of committed
  port rows that the service has chosen itself (a target address is the client's).

### LoadBalancer

A load balancer, or a border, which is built alike from fewer parts.

* `vhost`, `route`, `pool`, `rules` are the tables. A request that validates against other
  rows is two actions (`SubmitVhost`, `SubmitRoute`, `SubmitPoolDelete`, `SubmitType`, then
  `Write`), as nothing locks what it has looked at.
* `BuildInfra` is the builder of machines, `NodeSetReports` the node set, `GetVhosts` and
  `TellAgents` the two readings of the builder of what agents serve, `Serve` an agent. Both
  builders write the row `lb`; `wake` says for which of them it, or a report, is new.

### RepoElements, Catalogue

* `RepoElements`: rows of versions (`row`), bindings between them, the derivatives of the
  builder (`target`), and the manifests that its agent has installed with the element
  manager (`em`). Install, upgrade and uninstall are requests; the builder resolves
  dependencies, waits for them, releases the old version when the new one has taken over.
  An iteration of the builder is one transaction: `builder.before` are the tables that an
  exception (`Raises`) brings back. Each row is read when its turn comes; the library loads
  the rows of a pass once, so a dependency that the same pass has installed is handled there
  as it was before, and again in the next iteration, as its row has changed.
* `Catalogue`: the versions a source offers, the rows that mirror them, which of them the
  store serves, and refreshes, periodic and requested, that may fail half way.

### ValuesStore

A variable that shows the selected or the latest of its values, and one that shows what it
has for the active profile. Select, release and activate load rows and write them later;
every write touches the variable, and the builder sets it anew.

### Delivery

A node set that grows and shrinks, and a config or an SSH key for all of its nodes: the
services of configs and of SSH keys take the same four passes. `host` are the resources per
node, `held` what nodes hold, `read` what a pass has read before it writes.

### Secrets

One secret, password or certificate: row, target resource, store of the agent, report.
`asked` is what the client wanted, `count` bounds requests and counts the values made and
the reasons for them. An agent may die between ordering a value and storing it.

### DnsMirror

The thread that mirrors records of a realm in the ecosystem. A run is a set of requests
(`job`) that are sent one by one and may fail, be lost or meet an older ecosystem that
knows no marks; rows of others share the zone.

### Bootstrap

The script as a sequence of steps: the rows and files that a step writes in order, those
that let it be skipped, and whether its errors are swallowed. `there` is what exists;
services make some of it of the rest.

### Composition

Modules share rows where the code does (NodeLifecycle with its scheduler, volumes and
agents, Delivery with node sets and nodes, LoadBalancer with its node set). Where parts
share nothing that either decides on, an MC module composes them with a variable `part`:
a behaviour exercises one of them and leaves the others where they start.

### Assumptions about gcl_sdk, restalchemy and PostgreSQL

The hook for tracked instances does not swallow a pending update of the instance; a
changed derivative is due for the report hook in the same pass; an iteration of a
service is one transaction; `update` writes changed columns only and raises when it
meets no row; requests run under READ COMMITTED; a builder that changes a row makes it new
for another builder of that row, and a target resource that is made anew takes up the report
there is. What stands for these libraries is marked external in `PROJECT.json`.

## Runs

| Run | Instance | Checks |
|---|---|---|
| `node_any` | two images, two workers, ordinary and core machine, 2 power requests, 1 image update, 1 fault, clients that never wait | `RebootOnlyOnRequest`, `BootAndPortAgree` |
| `node_settled` | clients that wait for ACTIVE: ordinary and core machine with 2 power requests and 1 update; ordinary machine with 2 power requests and 2 faults | `BootsWhatWasFlashed`, `ActiveMeansDesired`, `Converges` |
| `node_new_machine` | one power request as soon as the target resource exists | violates `NewMachineBootsFromNetwork` |
| `placement_pair` | two nodes with three volumes that keep apart, two pools, two spares, two layouts of storage | `NeverOverdrawn`, `MemoryBalanced`, `VolumeInPoolOfMachine`, `PeersApart` |
| `placement_one_pool` | two nodes that keep apart and one pool; a volume is detached and attached | `EventuallyPlaced`, `AttachmentFollowed` |
| `placement_returned` | two nodes, two pools that take one each | violates `ReturnedIsPlacedAgain` |
| `elements` | a provider and an importer. *grow*: an upgrade adds a resource, one worker, 3 requests, a fact that changes. *replace*: an upgrade replaces a resource and its export, two workers, 4 requests | `RowsConsistent`; `ElementsConverge` (of *grow*) |
| `elements_uninstall` | *replace* | violates `RequiredStays` |
| `iam` | *tokens*: two sessions and a code with 5 requests, 3 ticks and a new key, or a managed token with 3 requests and 5 ticks; two workers. *accounts*: two users, organizations and projects, 3 codes, 4 requests | `CodeRedeemedOnce`, `RegeneratedRefused`, `StandingTokenServed`, `SessionBounded`, `RevokedStaysRevoked`; `OneWorkspace`, `EmailedCodeWorks`, `CodesCleared` |
| `network` | *ports*: two virtual nodes and a hardware node, three addresses of which older nodes hold any one, 2 faults. *balancer*: a balancer or border of each type, two vhosts, a route, a pool, up to two machines, two workers, 2 requests or errors | `PoolExcludesTaken`, `LeasesHonoured`, `PortsConverge`; `BalancerSound`, `BalancerConverges` |
| `repository` | *elements*: an application and its library in two versions, an element whose dependencies clash, 5 requests. *catalogue*: four versions of which three are stable, 2 changes of the source, 2 requests, 1 failure. *values*: two values, three profiles, two workers, 4 requests | `DependencyKept`, `NoGapInUpgrade`, `RepoConverges`; `LatestIsGreatest`, `CatalogueConverges`; `ValuesSettle` |
| `services` | *delivery*: a set of up to two nodes, resized once, two versions of an item. *secrets*: each kind, 2 edits, 1 expiry, 1 agent that dies. *mirror*: two records, a foreign row, 3 edits, 1 fault. *bootstrap*: new and old stands, 3 errors or reboots | `ActiveMeansReached`, `RolloutConverges`; `NewValueForAReason`, `StoreConverges`; `ForeignKept`, `RecordsConverge`; `ThroughMeansComplete`, `ScriptEnds` |

**Bounds.** Two power requests are the least that can meet each other (a reboot pending
when the next request arrives), two workers the least that can race, one image update
suffices for a change to overtake the report on its predecessor, and two faults can
hit two stages of one pass. In `placement_pair` one layout lets both nodes fit into the same
pool in one iteration (so that anti affinity within an iteration matters), the other
makes a stale report overcommit the pool so that root and other volumes are taken back;
in both, the volumes of one node fail half way in the first pool. Three requests are
needed to install a provider and an importer and to disturb one of them; four let
two workers do so at the same time. In `iam` two requests load a row, a third revokes it and
the other two write; five ticks let a managed token of lifetime 5 be renewed more than once.
In `network` three nodes compete for two free addresses in any layout, one of which a client
asks for, and one fault can follow another within an iteration; two requests of the balancer
are those that could invalidate each other. In `repository` an upgrade of the application
pulls one of the library while older versions run; five requests install, upgrade and remove
both; a source starts with one or three of its versions, and two changes withdraw the greatest after
another one has been published, two of three with refreshes between them, or all there are. In `services` a config is edited once while a set grows or shrinks, and an edit,
an expiry and a crash may come between an order and its report.

**What the constants leave out.** `Careful`, `Racing`, `Early`, `Careless`, `Torn`,
`Overlapping`, `Unlocked` and `ToCore` keep clients, and `Bulk` the source of a repository,
from doing what the code is known not to survive. Each is one guard; with the other value TLC shows what happens, as told
[below](#disagreements-between-code-and-documentation).

**Symmetry** is used for the workers of `node_any`, which checks invariants only.

**Fairness.** The loop of the general service never blocks (an exception is logged and
the next service runs), agents poll, a request that was started is answered: weak
fairness of each. A builder is disabled while the scheduler's iteration is open, again and
again, hence strong fairness for builders and agents in Placement, where agents' reports
wait likewise; so do those of agents and node sets in LoadBalancer and Secrets, and of the
agent in RepoElements, whose model disables them while a builder reads. Of the network
service infinitely many steps are asked for, which is weak fairness, as a step is always
possible; of the builder in RepoElements, that iterations end and start, for the same reason. The bootstrap goes on, its waits end, and services make what it waits for.
Requests, faults, ticks and changed facts are never fair; tokens need no fairness but a
bound on the lag of the renewal service, in the guard of the clock. `Converges` of
NodeLifecycle does not promise ACTIVE to a node that is switched OFF: nobody runs in
it to flash a changed image.

**What the passing runs mean.** `BootsWhatWasFlashed`, `ActiveMeansDesired` and `Converges`
hold for clients that wait for ACTIVE before the next request, `ElementsConverge` for
requests to the element manager that come one at a time, with manifests that keep what
others import; see below for the rest.
`RebootOnlyOnRequest`, `BootAndPortAgree` and `RowsConsistent` hold for all clients.
Deadlock is checked except in `iam` and `services`, where a behaviour has a last request and
tokens and a finished bootstrap have no loop of their own.

## Proofs

Checked by TLAPS with SMT, Zenon and LS4: `NodeLifecycleProofs`, `ElementManagerProofs`,
`PlacementProofs`, `IamProofs` (Tokens, Accounts), `NetworkProofs`, `ServicesProofs`
(DnsMirror, Secrets, Delivery, LoadBalancer, Bootstrap), `RepositoryProofs` (RepoElements,
Catalogue), and `FoldTheorems`, which others rest on. They hold for any images, workers,
scenarios, elements, manifests, versions, pools, nodes, volumes, tokens, users, ranges of
addresses, records, vhosts and bounds (the script of the bootstrap is the code's), from the
assumptions named in the modules (the constants are functions and sets of the right kind,
sets that are counted or summed over are finite, None is no other value,
`LinkAssumption`: a manifest declares resources of its own element, links are one level
deep). A theorem that holds for some clients or some sizes only says so in its statement.

| Theorem | Property | Under |
|---|---|---|
| `NodeLifecycleProofs!BootConsistent` | `BootAndPortAgree` | |
| `NodeLifecycleProofs!RebootsOnlyOnRequest` | `RebootOnlyOnRequest` | |
| `NodeLifecycleProofs!DiskHoldsTheTarget` | `BootsWhatWasFlashed` | `Patient`: clients wait for ACTIVE, and either no image update or no fault comes |
| `NodeLifecycleProofs!ActiveIsDesired` | `ActiveMeansDesired` | `Patient` |
| `ElementManagerProofs!RowsStayConsistent` | `RowsConsistent` | |
| `PlacementProofs!NothingOverdrawn` | `NeverOverdrawn` | |
| `PlacementProofs!MemoryInBalance` | `MemoryBalanced` | |
| `PlacementProofs!VolumesFollowMachines` | `VolumeInPoolOfMachine` | `NoMoves`: no volume is attached or detached |
| `PlacementProofs!GroupKeptApart` | `PeersApart` | `RoomForGroup`: as many pools as the group has nodes have room for all nodes twice |
| `IamProofs!CodesRedeemedOnce` | `CodeRedeemedOnce` | |
| `IamProofs!RevocationIsFinal` | `RevokedStaysRevoked` | |
| `IamProofs!RegenerationRefuses` | `RegeneratedRefused` | `~ Overlapping` |
| `IamProofs!SessionsEnd` | `SessionBounded` | |
| `IamProofs!StandingTokensServed` | `StandingTokenServed` | `LongLifetimes`: every lifetime exceeds `4 * MaxLag` |
| `IamProofs!OneWorkspaceEach` | `OneWorkspace` | |
| `IamProofs!MailedCodeAccepted` | `EmailedCodeWorks` | |
| `NetworkProofs!PoolNeverOffersTaken` | `PoolExcludesTaken` | `NoTargets`: clients ask for no addresses |
| `NetworkProofs!PoolWithTargets` | `PoolExcludesTaken` | `EnoughRoom` |
| `NetworkProofs!LeasesKept` | `LeasesHonoured` (refinement of `Leases`) | `EnoughRoom`: `Careful`, and at most one node more than addresses |
| `ServicesProofs!ForeignRowsKept` | `ForeignKept` | |
| `ServicesProofs!ValuesForAReason` | `NewValueForAReason` | `~ Careless`: requests come between iterations, when the last one has settled |
| `ServicesProofs!ActiveWasReached` | `ActiveMeansReached` | `~ Racing`: no request falls into an iteration |
| `ServicesProofs!BalancersSound` | `BalancerSound` | `~ Unlocked`: requests that validate what the other writes do not overlap |
| `ServicesProofs!BootstrapCompletes` | `ThroughMeansComplete` | `~ Torn`: no error or reboot between two writes of one step, nor an error of the write of a machine pool, whose key is out of the spec by then |
| `ServicesProofs!BootstrapWritesOnce` | no row or file is written twice, and the types | |
| `RepositoryProofs!DependenciesStay` | `DependencyKept` | `Careful`: clients wait until upgrades and removals have ended |
| `RepositoryProofs!ElementKeepsRunning` | `NoGapInUpgrade` | `Careful` |
| `RepositoryProofs!CatalogueServesGreatest` | `LatestIsGreatest` | `~ Racing`, `~ Bulk`: clients leave what is being removed alone, one stable version at a time is on its way out |

The types of NodeLifecycle, ElementManager, Placement, Tokens, Network and Secrets are a
theorem as well (`TypeCorrect`, `TokensTypeCorrect`, `NetworkTypeCorrect`,
`ValuesForAReason`). The hypotheses are needed: with the other value of the constant TLC
violates each of the properties on the instances above. Two are sets of scenarios or sizes.
`Patient`: one image update and one fault violate `ActiveMeansDesired`, two and three
`BootsWhatWasFlashed`. `RoomForGroup` is sufficient; where there are fewer pools than nodes in
the group the property is false, in between it depends on what the agents still run.

**NodeLifecycle.** `TypeOK` is not inductive: the hooks read `gm` or `machine.image` because
a pool machine exists, and the agents read `gm` because a report exists. `IInv` adds that
(`Born`). `BootAndPortAgree` is inductive relative to `IInv`: only `BuildDerivatives` and the
way out of flashing write a boot mode, and each writes all three records. `credit >= 0` is
not inductive. A granted reboot sits in the node row, in the machine row or at the
hypervisor, and while one is below the next may be above, so `RebootsCovered` asks for
credit for each level (`AtNode`, `AtMachine`, `AtAgent`).

For patient clients the argument is that a request is only written while nothing moves.
`RowsInv` says so of rows and power: as long as node or machine is shown ACTIVE, or an image
that a client wrote has not been read by the node builder, target, report and row of the power
state agree and nothing waits for the pool builder (`Shown => Steady`); before the first
report and before the target resource nobody can have sent a request (`Quiet`). `GuestInv` ties
the report of the guest to the disk, and says that a guest told to flash never reports that it
runs the target. For images there are two cases, each inductive. Without faults an image is
only on its way while the guest runs the previous one (`NoFault`), so no FLASHED report of
the previous image can be taken for the next. Without image updates there is one image
everywhere (`SameImage`), whatever is rolled back or reported.

**ElementManager.** `TypeOK` is inductive; the work is in the values rendered from an engine
that may be stale. `RowsConsistent` is inductive relative to it. Each request brings its
own argument: the foreign key for a new import, the cascade for a row that goes, `Lost` for an
iteration on an old engine.

**FoldTheorems.** The scheduler's books are sums over sets, and the pool of free addresses is
a fold over the taken ones; both are recursive functions on subsets. Induction with a
predicate as a parameter is out of reach of the provers, so the lemmas argue by a minimal
counterexample: the subsets at which a fold goes wrong are a set, and a set of subsets of a
finite set has a minimal element (`MinimalSubset`). `SumAdds` says that the order in which a
sum is taken does not matter, `SumAgrees` that it depends on the values in the set only,
`SumSplits` that a sum of two values is the sum of the sums, `SumGrows` that of numbers that
are not negative more have a larger sum.

**Placement.** The type invariant needs `InJob` (which node an iteration is at, and that its
books are empty between iterations). `NeverOverdrawn` follows from `Covered`: while the
volumes of a node are being allocated, the saved memory has enough for what was drawn since.
`MemoryBalanced` follows from `Balanced`, which ties the cores and RAM in memory to sums over
the nodes placed in the open transaction, and the spares in memory to the rows without an
owner, and from `StorageBalanced`, which does the same for storage, per pool and layout: what
is left in memory is what the pools report less the cost of the rows that the transaction has
written and of those that the node being placed has got, and what was saved before the
attempt is less the former only, so that going back to it gives everything back
(`SchedulerStores`). The two sets of rows are disjoint and may be charged together
(`ChargedTogether`). `VolumeInPoolOfMachine` is far from inductive: `RowsInPlace` and `JobInPlace` say
where the volumes of a node, their rows, the rows that the transaction has written and those
that the node being placed has taken may be, so that deleting a node, taking a machine back
or reusing a spare in the middle of an iteration keeps them in one pool. Without `NoMoves`
it is false (see below). `PeersApart` is a matter of capacity, for the policy is soft: a node
goes to a pool of its group when no other has room. A report may count a machine that was
taken back and is placed again in the same iteration, so that a pool is safe to offer when it
has room for all nodes twice (`SpaciousAvailable`, from the balance of memory), and a count
shows that the rest of the group leaves one such pool (`PeersLeaveOne`). `PoolsOwn` carries the
choice to the moment when the row is written.

**Tokens.** `CodeHeld` says that a code under exchange is held by one request, which no other
can start. `RevokedStaysRevoked` follows from `IdsTaken`: an update meets no row, and an id
is never given again. `GenerationsCount` ties the generation in the row, in the values
signed and in a regeneration under way to the number of regenerations. `RefreshBounded`
bounds what a refresh under way is going to write, not only the row. `KeepsUp` is the
argument about time: at each moment the renewal service has seen a token, or will see it
before it lapses, and a request that writes late writes far enough ahead. It needs lifetimes
above four lags, and that bound is exact: with lifetime 4 and lag 1 TLC finds a token that
lapses. The code allows any lifetime.

**Network.** Lemmas say what the operators of `Ipam` do to the set of free addresses:
`OccupyIpIs` and `DeallocateIpIs` for one address, with the intervals in order and apart,
`CalculatePoolIs` for all that are taken. `PoolExcludesTaken` is not inductive, as the
exception handler puts the address of the last port back. Without targets that address is
not taken and below all free ones (`PoolInv`), so that it would have been drawn next. With
targets a taken address can be given back; `Spared` counts that this takes two nodes
without an address.

For the refinement `BookInv` relates the tables to an iteration: committed ports are apart
and lie in its map as they were read, though ports may have been deleted since; new ports
belong to nodes that are still there and have no port, at addresses that were not taken;
nodes to be served are still there, because a careful client does not delete a node without
a port, and the database does not delete one that an open insert refers to; and there are as
many free addresses as nodes to be served, less one. The last part is a count
(`SnapshotFits`: ports map one to one to nodes that are not to be served). Then a commit is
`Leases!Assign`, the deletion of a node is `Leases!Release`, and every other step, a crash
included, leaves the leases alone. The bound is exact: with two nodes more than addresses
the handler hands out an address twice (`Room = 1` in `network`).

**Accounts.** That a user has one workspace follows from `OwnsWorkspace`: as long as nobody
else has touched his memberships he is OWNER of his personal organization, which is what
provisioning looks for under the lock of his row; a user whose key is taken is never
registered again (`RegisteredOnce`). `EmailedCodeWorks` needs `CodesInv`: without overlap a
single request is under way for a user, the code it has loaded is the one in the row, and
the janitor has loaded only codes whose mail is not good any more.

**DnsMirror.** `ForeignKept` is an action property. `MirrorInv` says what a run may have in
its hands: it deletes rows it has found with the mark, which rows of others never get, and
what it pushes are records of the realm. A push that meets a row without the mark leaves it
as it is.

**Secrets.** A count of values is not inductive. `SecretsInv` is a potential: the values made,
and those that agent and builder owe (`OwedByAgent`, `OwedByBuilder`: a target whose value the
agent would make anew, a row whose target would), are at most the reasons and the agents
lost. `RowFollows` says when the row, the target and the store may differ, so that a late
report owes nothing.

**Delivery.** `NumbersOnce`: the number of a node is given once, so that what is left of a node
that has gone is never taken for what a new one holds. `ItemFollows` says, pass by pass,
which versions the resources have; `ReadIsCurrent` that a pass writes what it has read; and
`ActiveHeld` is the invariant of each node.

**LoadBalancer.** `TablesSound` is `BalancerSound` with the types it needs; `OrdersStand` says
of each request under way that what it has validated still holds (`StillValid`), except that
rows may have gone whose absence a foreign key notices when it writes.

**Bootstrap.** The script is a table, and lemmas read off it what any place in it needs
(`StepsAsTold`, and `OnePlace`: no row is written by two steps). `ScriptInv`, for any `Torn`,
says that the step under way has written its rows in their order up to where it is
(`StepUnderWay`, `WrittenInOrder`), from which nothing is written twice. What a skipped step
leaves out is the matter of `WholeInv`: the row that lets a step be skipped stands for all
of its rows, except while these are being written (`KeyMeansRest`); steps that were passed
are complete (`PassedMeansComplete`); and what services make stays made of something
(`MadeOfSomething`). A reboot then finds exactly the steps complete that were
(`RebootRestores`). Trouble between two writes (`Torn`) breaks `KeyMeansRest`, and TLC
violates the property.

**Catalogue.** A refresh decides by rows as it has read them, and `LatestIsGreatest` is true
only while these stay current. `OneOnItsWayOut` says that of the stable versions that have a
row, or are about to get one, at most one is no longer offered; then `ReadIsCurrent`: a
promotion never meets a row that is still to be removed, since that would be a second one. What
goes has been withdrawn for good (`FromSource`), and what is added was not there
(`NewIsNew`), so a greatest version changes only with itself (`GreatestWithout`,
`GreatestWith`). No step needs the versions to be finite.

**RepoElements.** Lemmas say what `Closure` contains (`ClosureHas`: what is needed, directly
or not, is there, and is installed unless no version of that name is) though it is a least
fixed point: the set of all that fits is closed. `DependencyKept` rests on `Bound`: what an
element requires is bound to it and is installed, or waits. To keep that, and that an
upgrade leaves no gap, takes the story of a version: one version of a name is installed;
one at most is left over; a version that waits has its manifest, and its successor is
linked (`WaitsForLinked`); a linked version runs, or another one waits (`LinkedRuns`); one that
was dropped and installed again before its manifest went is unlinked and alone
(`DroppedUnlinked`). All of this is stated of any tables, because a rolled back iteration
brings the tables before it back (`TablesHold`), and `Iteration` says which parts are weaker
while rows are being handled.

Only model-checked: everything under fairness and with ENABLED (out of this prover's reach),
`AttachmentFollowed` among it, `CatalogueConverges`, and what ValuesStore promises, which is
liveness. Every invariant and every action property without fairness that a passing run
checks is a theorem. Each module has a type invariant, which TLC has checked on the instances
above and which a proof starts from.

## Disagreements between code and documentation

With a run (quoted in `PROJECT.json`):

1. `compute/builders/pool.py:307`: an update of a machine before its first guest
   report sends it to boot from an empty disk (`node_new_machine`).
2. `compute/builders/pool.py:146`: a machine taken back leaves its machine volumes
   with their keys; the next placement meets them and the iteration of the scheduler is
   rolled back for all nodes, for ever (`placement_returned`).
3. `elements/dm/models.py:404`: uninstall looks for dependents in rows it has read, while
   another worker installs one; `docs/em/manifest.md:519` says that "an element can only be
   removed if no other elements declare it in their `requirements`" (`elements_uninstall`).
   With one worker the engine is current, and what is left is the check itself.

Met while modelling, each reproduced with TLC on a variant of the instances above:

* `compute/builders/pool.py:364`: an image update that overtakes the FLASHED report of
  the previous image is never flashed. Clients "created" and one image update violate
  `BootsWhatWasFlashed`.
* `compute/builders/node.py:237`: a restart between node and volume builder after an
  image update: the forced update of the machine is consumed with the old image and the
  node becomes ACTIVE on it. One image update and one fault violate
  `ActiveMeansDesired`.
* `compute/builders/node.py:223`: an update before the target resource of the node
  exists is taken for its initial value. Clients "any" and one image update violate
  `ActiveMeansDesired`.
* `user_api/compute/api/controllers.py:168`: "The pending reboot covers the new one" also
  when the hypervisor has performed it and the report is still on its way.
* `compute/builders/volume.py:120`: a provisioned volume attached to a node of another
  pool keeps its pool: two pools with an attachable loose volume violate
  `VolumeInPoolOfMachine`. Attached to a node that is not placed yet, it is placed a
  second time with the node, with the same key, and the scheduler is stuck as in 2.
* `elements/dm/models.py:874`: a link to a resource that is gone raises and ends
  the iteration for all elements, not only for the importer.
* `elements/dm/models.py:292`: an upgrade that keeps an export and drops its
  resource makes the engine unloadable for every later request and iteration.
* `elements/services/builders.py:47`: an upgrade that commits inside an iteration
  is shown ACTIVE before anything of it was rendered.
* `elements/dm/models.py:170`: requirements are stored at install time and compared with
  nothing; `docs/em/manifest.md:153` says they are checked.
* `elements/dm/models.py:392`: versions are compared as strings, and `to_version` is inclusive;
  `docs/em/manifest.md:151` says "Maximum allowed version (exclusive)".
* `user_api/iam/dm/models.py:1964`: of two regenerations under way at once, the value of the
  first may stay good (`Overlapping` violates `RegeneratedRefused`).
* `janitor/service.py:48`, `user_api/iam/dm/models.py:588`: the janitor clears a code that has
  just been sent again, and a resend on a stale object mails a code that is not in the row.
* `user_api/iam/dm/models.py:1427`: codes without PKCE never expire, and a confirmed request
  that nobody redeems keeps user and project from being deleted.
* `user_api/iam/api/controllers.py:611`: two concurrent `add_user` insert the binding twice,
  and the lookup that expects one or none raises ever after. `disable_otp` beside
  `activate_otp` leaves OTP on with an empty secret.
* `network/service.py:316`: an empty pool raises while `port` still names the port of the node
  before, which has been inserted. The handler gives its address back, the next node gets it
  too, and no index keeps the two apart; `network/ipam.py:158` speaks of "a firt available IP
  address". Three nodes and one address (`Room = 1`) violate `LeasesHonoured`. Two nodes that
  ask for one address reach the same handler; where no node was served before, it fails on
  an unbound name, in every iteration (`Careful` FALSE violates `LeasesHonoured`).
* `network/driver/flat.py:341`: after a failing restart of DHCP, deleting ports applies a
  context without the subnet; it is made anew in the next iteration. A restart of the
  process voids the context likewise, as `hash()` is seeded.
* `network/lb/builders/iaas.py:94`: a balancer switched to machines of its own raises for ever,
  though the branch above speaks of switching (`ToCore` violates `BalancerConverges`).
  Before agents serve, the balancer is shown ACTIVE because its machines are; a border that
  is switched away from machines keeps their addresses.
* `user_api/network/dm/models.py:250`: requests that overlap leave a route without its pool, two
  vhosts on a port, a writable directory on a shared balancer (`Unlocked` violates
  `BalancerSound`). A route may name a pool of another balancer, which agents are not told
  ("The LB's data plane gets only its own pools", line 761).
* `repo/dm/models.py:537`: uninstalling during an upgrade takes a dependency away (`Careful`
  FALSE violates `DependencyKept`); going back to the old version before its manifest is gone
  leaves the new one running.
* `repo/builders/element.py:417`: requirements that select two versions of one name pass
  `_dependencies_available`, and installing the second raises. The iteration is rolled back,
  as is every later one, for all elements; `RepoConverges` makes an exception for it.
* `repo/builders/repository.py:186`: of two stable versions that a source has withdrawn, the
  second is promoted when the first, the greatest, is removed, and then removed by what was
  read before: no version is the latest any more and the store shows the element no more,
  until a greater version comes; an installed one keeps the mark and is not served. The
  docstring at line 252 says "Promote the greatest remaining stable version after deleting
  latest." Three stable versions and two changes of the source (`Bulk`) violate
  `LatestIsGreatest` and `CatalogueConverges`.
* `repo/builders/repository.py:308`: a refresh that is asked for while one runs is forgotten;
  a version installed between reading stale rows and deleting them goes with them; deleting
  the latest version through the API leaves none.
* `config/service.py:237`, `secret/service.py:393`: an edit between two passes of an iteration
  is marked as tracked and never rolled out (`Racing` violates `ActiveMeansReached`).
* `config/service.py:116`: an item for a set that has no node yet is taken for one whose nodes
  are gone, and deleted (`Early` violates `ItemWaits`). Nodes that join a set do not get
  the configs and keys that are there, and `_handle_orphan_configs` is never called.
* `secret/builders/service.py:138`: a report of the earlier value overwrites an edit that has
  not been carried on (`Careless` violates `StoreConverges`).
* `dns_sync/service.py:604`: a change during a fast run waits for the next full one; a domain
  deleted here stays upstream; a start soon after boot does not synchronise at once
  (line 79), though a comment says so.
* `bootstrap/defaults.py:382`: "idempotently" holds between steps. An error within one leaves a
  network without subnets, a client without its admin, a set without its node, and a second
  key of the local agent (`Torn` violates `ThroughMeansComplete`).
* `vs/dm/models.py:48`: overlapping activations leave two active profiles, and the lookup that
  expects one raises ever after; a request inside an iteration of the builder is lost
  (`Overlapping` violates `ValuesSettle`).

## What is not modelled

Hashing, signing, encryption, templates, HTTP routing, the REST framework, OpenAPI and MCP
tools, metrics and telemetry (they count and send), the boot, orchestration and status
APIs (stateless reads), migrations other than the status views and the keys cited. Quotas:
a count and an insert without a lock, about which a model could only say that it does not
hold. Services of elements are told to nodes by a builder like the second one of
LoadBalancer; when it looks again after a set has changed is up to gcl_sdk. Of the
modelled components: resizing and labels of nodes and volumes (they travel like the
image), bare metal and idle machines and the assignment of pools in the scheduler, parsing
of expressions in manifests, profiles of elements, permissions and one time passwords,
conditions and modifiers of routes, several subnets, priorities of repositories.

## Plan

What is left is breadth, in this order: quotas and services of elements once the code locks
what they read, several repositories with priorities, bare metal machines in the scheduler,
conditions and modifiers of routes. Each would extend a module that is there. Liveness stays
with TLC.
