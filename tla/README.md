# ARISE Compute: verification of the control plane

ARISE Compute rents GPU machines three ways: to an internal pool (ARISE), to one
customer at a time (DIRECT) and through a marketplace (VAST). This directory
models the services that decide who may use a machine and what is billed for it,
checks them with TLC on small instances and proves what matters most with TLAPS.

## The system

| part | state it keeps | operations | what makes it hard |
| --- | --- | --- | --- |
| capacity controller (`services/capacity-controller`) | NodeOwnership status, Node labels, taints, cordon; per-node memory saved in a ConfigMap | one reconcile loop; handlers for ARISE, VAST, DIRECT, MAINTENANCE, QUARANTINED; drain, sanitize, quarantine | every handover is a row of separate API calls; crashes, lost answers, stale reads, operators and tenants in between |
| marketplace adapter and mock (`services/vast-mock`) | machine record, contracts, idempotency keys | get, list, unlist | requests that time out and may still take effect |
| ops console (`services/ops-console`) | none (reads the cluster) | fleet view, gate check, submit a transition | the gate decides on two reads made at different times |
| admission policies (`platform/overlays`) | none | selectors and tolerations of tenant pods | decide where the scheduler may bind |
| metering (`services/metering`) | append-only ledger with a hash chain, open intervals, last-seen file | tick, append, load | restarts, torn writes, pods that come and go between polls |
| gateway (`services/gateway`) | users and revoked tokens (SQLite), login throttles and connection slots (memory) | login, logout, password change, users, proxy | hashing outside the lock, bounded tombstones, several commits per operation, bodies left unread on kept-alive connections |
| tenant portal (`services/tenant-portal`) | none (objects in the API server) | create and delete jobs, machines, services, volumes; replace an SSH key | retries and races on multi-object creates |
| billing (`billing/invoice.py`) | none | invoice from the ledger | interval arithmetic |
| ssh-bastion, backups, fake GPU plugin, web | lock files, copies | relay, copy, serve | little control of their own |

The console writes `NodeOwnership.spec`; the controller alone writes its status
and the Node; the scheduler binds pods where labels, taints and the cordon admit
them; the marketplace starts contracts on listed machines; the console reads back
the status. Metering watches the pods that result, billing reads the ledger, the
portal creates the pods, and the gateway stands before portal and console.

What makes each part correct:

- controller: one class of user at a time; no rented machine changes hands or is
  sanitized; nobody is evicted before the fence; a quarantined machine is not for
  sale; a disk is not handed over with another's data; every transition ends;
  manual edits are put back;
- console: no transition of a node that is in one already, rented or quarantined;
- metering: every interval is billed at most once, none overlaps another of the
  same pod, history is never rewritten, and a crash loses nothing recorded;
- gateway: a token that was logged out, or whose identity changed, is never
  accepted again; a lockout lasts; what a client sends as a body is never read as its
  next request, and no connection costs a slot;
- portal: a retried create ends in one complete object set and adopts nobody else's
  objects; a delete takes the object it read; a replaced key stays out;
- billing: each second the ledger shows is on one line of one statement, at the rate
  of that second, whatever the cuts; the rounded rows of a reserved month add up to it.

PROJECT.json lists the components, the hazards at the lines where they bite and
the properties that cover them.

## Modules

| module | what it is |
| --- | --- |
| `CapacityState` | constants, variables, and the data of one managed node: what Kubernetes admits, node writes, marketplace effects |
| `CapacityController` | one action per call of a reconcile pass, the failures, and everyone else: operators, scheduler, pods, renters, clock, manual edits |
| `Ownership` | the promise with no mechanism: a machine is open to one class at most and changes hands closed and empty |
| `OwnershipProperties` | types, safety, action and liveness properties, the refinement mapping |
| `MCOwnership` | model values and the pod-to-tenant map for TLC |
| `Metering` | the meter's tick call by call, the ledger's append and load, its failures and crashes, the pods and claims it watches |
| `MeteringProperties` | what the ledger must say of every pod and claim |
| `Sessions` | the gateway's accounts, session tokens and tombstones, a step per lock block or commit |
| `SessionProperties`, `MCSessions` | types and safety of sessions; symmetric threads for TLC |
| `Throttle`, `MCThrottle` | one login throttle and the threads that ask it, with its properties |
| `Connections` | the bounded server's slots and the framing of bodies on kept-alive connections, with its properties |
| `Provisioning` | the portal's creates, deletes and key rotations, call by call, and the API server they talk to |
| `ProvisionProperties`, `MCProvisioning` | what opened, deleted, rotated and retried workloads must be; the clients' requests for TLC |
| `Invoice`, `MCInvoice` | statements cut from a growing ledger, with its properties; the price book, reservation and calendar for TLC |
| `ReclaimProofs`, `OwnershipProofs`, `LedgerProofs`, `SessionProofs`, `ConnectionProofs`, `ThrottleProofs`, `ProvisionProofs`, `InvoiceProofs` | theorems and their proofs |

The components meet in state they share rather than in calls, so each has a module of
its own and the parts of one component that share nothing have one each (`Sessions`,
`Throttle` and `Connections` of the gateway). The controller is modelled together with
the console, the marketplace, the scheduler and the policies, whose steps it races.

### How the controller's model corresponds to the code

`reconcile()` works on one node at a time and keeps nothing shared between nodes
but a dict entry each, so the model is one node. `pc` names the next call. A call
that writes (PATCH of the Node, of the status, list, unlist, evict) is a step of
its own, and so is a read whose result is used later; the tests between two calls
are in the guard or the target of the step before them. `tx` is the
`TransitionContext`: the facts read at the start of the cycle, which the handlers
go on using however stale they are. `clock` and `saved` are the in-memory state
entry and its copy in the ConfigMap. A status PATCH that breaks the CRD's
validation is refused and ends the pass. A call that raises ends the pass too
(the loop catches it) except inside `quarantine()`, which swallows it.

`Restart` may happen between any two calls and forgets everything but `saved`.
`ListUncertain` is the unanswered list: no effect, effect, or (with `LateLists`)
effect at any later time. `Tamper` is a human editing the Node. With `Kubectl`
operators write the object at any time; without it they go through the console's
gate, whose two reads are `ConsoleListsNodes` (the Nodes, kept in `fleet`) and
`Submit` (the objects, and the decision).

Simplified: the scheduler's binding is atomic; volumes appear when a pod binds;
the register of customers is fixed; the drain deadline is one bit that
`TimePasses` sets; `run_sanitization`'s two reads are one (nothing is written
between them, and a pod that appears between them only turns a pass into a
failure); conditions, events, metrics and log lines are left out.

### How the metering model corresponds to the code

A step of the meter is a list call, an append (one fsync), or the save of the
last-seen file; between them only memory changes. `Meter.open`, `last_close` and
`done` are functions of the records in memory (`OpenUids`, `LastClose`, `Closed`),
as `__init__` builds them and `_open` and `_close` keep them. A record's hash is its
`seq`, which distinguishes the predecessors a record can have. `view` is what one
tick listed, one namespace at a time, while pods start, end and go; `clock` is the
time the tick takes after listing. `Wake` and `ListClaims` may list the registered
namespaces only, which is what `metered_namespaces` falls back to; `ClaimsFail` is
the blind tick. `TickFails` is an exception in any call: with `AppendErrors` the
failing append left nothing, a fragment or the whole line on the disk. `Crash` may
tear an append; `Load` truncates, rebuilds and reads the last-seen file. Footprints
are left out: every modelled pod requests something that is metered.

### How the gateway's models correspond to the code

`Sessions`: `reqs` holds a record per thread; `pc` names what the thread does next. A
step is one block under `_STATE_LOCK`; `revoke()` commits several times under one lock,
so each commit is a step and `Free` keeps the others out meanwhile. Between two steps a
thread hashes a password, parses or answers, and anyone else may run: `CheckLogin` takes
the snapshot of an account, `Authenticate` mints for it later; `Present` looks at the
expiry, `ReadToken` takes the lock. `StoreFails` is `sqlite3.Error` (503; what was
committed stays), `Restart` the process dying and `init_auth_store` and `seed_users`
running, with the same Secret or a rotated one. A seeded account's version is minus the
number of the password it derives from; random versions are counted in `fresh`. `ended`
and the requests' `was` are history: which sessions were ended, and whether the request
began after that. `late` marks a request whose token ran out between the expiry check
and the lock. A Secret is assumed not to return to an earlier password.

`Throttle`: `Ask` is `blocked()` and the start of a hash, `Wrong` and `Right` are
`fail()` and `success()` after it, each one block under the throttle's lock. Both
throttles of the gateway are instances of it. `counted` is history: the failures that
count against a key under the policy, kept apart from what the throttle remembers.

`Connections`: `Accept`, `ThreadStarts`, `StartFails`, `ShutUnstarted` and `ServerDies`
are the main thread, the rest are a worker's calls from `parse_request` to
`shutdown_request`. A request is its method and how its body is framed; which route it
takes is whether the body is read (`ReadBody`) or not (`NoBodyWanted`), at any method
that may do so.

### How the portal's model corresponds to the code

The portal keeps nothing, so the API server's objects under one name are the state: the
parent (job, machine or service), and the volume, ConfigMap and Service a machine or
service needs. A request is a thread; each GET, POST, PATCH, PUT or DELETE is a step,
with the preconditions (uid, resourceVersion) the code sends. `uid` and `rv` are numbers
per slot; `print` is the request's fingerprint. The API server's part is external:
graceful deletion, finalizers, garbage collection by owner uid. `Evict` is the capacity
controller's eviction, `Fails` any call refused or answer lost and the portal's restart.
A client repeats its request until it is answered. `kind` is chosen at the start:
workloads of two kinds that share a Service are left out (see Not modelled). `robbed`
and `rekeyed` are history.

### How the billing model corresponds to the code

`RecordOpen` and `RecordClose` grow the ledger as the meter may (dated now or up to
`Lag` earlier); `Issue` is one run of `invoice.py` over the next window. A line carries
its seconds, the date of the rate in force and the amount in cents: `Price` is the price
book, `Amount` the exact price by the hour or by the share of the month, as the code's
`Fraction` has it, `Cents` the rounding (half up) with which the row is written and
summed. A line without a rate has no amount. `Cent` and `Hour` are constants, so that
TLC has few of either. The meter may close a pod before its re-open (see the
departures); the code skips such a segment (348), so `RecordClose` leaves it out. `late`
is history: the uids with a record dated before a statement that had already been
issued.

## Runs

| run | question | bounds |
| --- | --- | --- |
| `Handovers` | do three console transitions keep one user, a clean API and rentals safe? | 1 customer, 3 transitions, 2 failed calls, 1 restart |
| `DirectEdits` | does the controller implement `Ownership` when operators bypass the console? | 2 customers, 3 transitions, the node lost once |
| `LateLists` | is the late list of another transition the only way to two users, with or without the adapter? | 3 transitions (ARISE, DIRECT, VAST), 1 restart in either mode, 1 failed call, lists that take effect at any time |
| `Convergence` | does every transition end, even one asked for in the middle of another, and what do quarantines and handovers leave? | 3 transitions of any kind, 1 restart, a customer's volumes, operator quarantines; fairness |
| `Drift` | does a human at the Node break a drain or the contract gate, does the drain end, and is the edit put back? | 2 transitions, 1 edit of label, cordon or taint; fairness |
| `Ledger` | are segments disjoint and seamless, and do disk, memory and chain agree? | 1 pod, 1 claim, 1 failed call, 1 crash, 2 instants |
| `Billing` | is every finished pod billed exactly, and does every interval end? | 1 pod, 1 claim, 1 failed call, 1 crash, 2 instants; fairness |
| `Sessions` | do ended sessions stay ended, does a request act for a proved identity? | 1 seeded and 1 created account, 2 threads, 2 tokens, 2 random versions, 2 Secrets, 3 instants, tombstone limit 1 |
| `Throttle` | are the maps bounded, lockouts kept and the policy met? | 3 keys, room for 2, 3 threads, 2 failures, 6 instants |
| `Connections` | does the parser stay aligned, does every slot come back, is there a ceiling? | 3 connections, 2 slots, 2 threads that fail to start |
| `Provisioning` | is what is opened complete, are others' objects spared, is a retried create resumed? | 2 creators, 1 delete, 1 rotation, 1 event; fairness |
| `Invoice` | is each second billed once, at its rate, by the hour or the node-month, and what do the rounded rows add up to? | 1 pod, 1 volume, 3 records, 7 instants, 2 months, 1 rate change |

The bounds are small because the state of a node is: three transitions reach every
ordered pair of owners with a previous history, one fault or restart can fall at every
call, one pod per tenant is enough to hold a drain or a GPU, and one contract to hold a
reclaim. In `LateLists` the third transition makes the difference: a list whose answer
was lost can be given up and the node handed on before the request takes effect. Such a
request does give a machine two users, so the model keeps a history of it
(`market.stray`) and shows that nothing else does; with two transitions it could not
happen, since the console admits no other while the list is being retried. In
`Convergence` the third transition is what can arrive while the second sanitizes or
checks the node. The code leaves it there if it is not ARISE (`Stranded`, see the
departures), and `Converges` claims the rest. It implies that drains end under restarts
and volumes; `DrainEnds` is also checked in `Drift`, where the node is edited. Two
customers are needed only where one may receive the node of another (`DirectEdits`).
`MaxTid`, `MaxContracts`, `MaxFaults`, `MaxLosses`, `MaxCrashes` and `MaxTampers` name
the bounds. Deadlock is checked: time always passes.

For metering, two instants tell "before" from "after", which is all that `Floor`,
`CloseAt` and the exactness properties compare; the ledger's length needs no bound,
since a uid is re-opened only after a failed list. `Graces` are the grace periods of
deletes. In `Ledger` the pod's namespace is label-only and the claim's registered;
`AppendErrors = {"nothing"}` in both runs, the other two being departures.

For the gateway: two tokens, two threads and a limit of one reach the overflow of the
tombstones, a logout racing a check and an identity replaced twice; a third account
would add nothing, since a step touches one. Three keys and room for two reach the
throttle's refusal of unknown keys and its sweep; three threads let failures arrive
for a key that was locked meanwhile. Three connections for two slots reach the
refusal. For the portal, `MCWants` are the pairs of requests that differ in how they
collide: the same machine twice (with a volume, with a key), two different ones, and one
over the quota; `InitialObjects` adds what an older portal or somebody else left under
the names. One delete or one event (a rotation, a second volume, an eviction, a
failure) falls at every call. For billing, three records are a closed and an open
interval, months of one and of two days have different shares, the rates start after
the first second, so an unpriced one exists, and the reservations include one that
covers both months and one that covers parts of them. `Provisioning` and `Invoice` have
`CHECK_DEADLOCK FALSE`: once the clients are answered, or the horizon is billed, nothing
is left to do.

Fairness of the portal (`Provisioning!Fairness`): the garbage collector and the kubelet
finish what they have begun, a client repeats its request until it is answered, and its
thread runs. Nobody has to delete or rotate.

Fairness of the meter is that of its loop (`main` catches everything, the Deployment
restarts it); pods owe it nothing.

Fairness of the controller (`OwnershipProperties!FairSpec`): the controller's loop never
stops (`main` catches every exception and the Deployment restarts a dead process), time
passes, `notBefore` dates come, and rentals end. Nothing is assumed of pods, operators
or volumes: a drain ends without a pod's help because the deadline quarantines the node,
and a volume may hold a handover until a human deals with it, which `DrainEnds` and
`Converges` say.

## Proofs

Every theorem holds for all values of the constants that satisfy the named assumption
of its component's module; where a theorem assumes more, it says so in its statement.

Controller (`ReclaimProofs`, `OwnershipProofs`):

- `TypeCorrect`: `TypeOK` is inductive by itself; lemmas for the shapes the steps share
  (`MoveType`, `NodeStepType`, `StatusEndType`), then one step per action.
- `ReclaimSafe`: `ReclaimGate` with `LateLists = FALSE` and `AdapterModes = {"mock-v1"}`;
  both assumptions are needed (a late list puts a machine being sanitized on the market;
  without the adapter the controller cannot see that it is), edits by hand and `kubectl`
  are not excluded. `ReclaimGate` speaks of the reported phase while the next pass acts
  on what it read of it, so the inductive `ReclaimInv` adds: a pass in the draining calls
  still has `DRAINING` reported (`PhaseCurrent`), which is why a list request never meets
  a sanitization; what a pass read of the marketplace is current until it acts
  (`MarketCurrent`); and the calls of the sanitizing and returning paths have an unlisted
  machine, the returning ones an unrented one (`PathUnsold`).
- `QuarantineOffMarket`: `QuarantineUnsold` when no call fails and no Node is lost
  (`NothingFails`), whatever operators and hands do. `UnsoldInv` adds the calls between
  the unlist and the status of a quarantine. Without the assumption it is false: the
  unlist of a quarantine is tried once (see the departures below).
- `DrainStaysFenced`: `DrainFenced` for any operators, failed calls, losses, restarts in
  either mode and late lists, and for hands that leave one of the drain's two fences, the
  taint and the cordon with the label, alone (`HandsSpare`; one edit spares one of them,
  two can take both away, and then it is false). `FenceInv` says which fence is up at
  every call of a drain and of the pass that opens the node. It assumes that no customer
  is called `ARISE`, which a namespace name cannot be.
- `OneOwner`, `DataStaysApart`, `EvictionsFenced`,
  `RentalsProtected`, `OwnershipImplemented`: `SoleUse`, `DataApart`,
  `EvictFenced`, `RentalProtected` and `ImplementsOwnership`, for any tenants, pods,
  transitions, rentals and lost nodes, under `Supervised`: nobody edits the Node
  (`MaxTampers = 0`), the two assumptions of `ReclaimSafe`, and either operators use the
  console (`ByConsole`: `Kubectl = FALSE`), with any failed calls and restarts, or they
  write the object whenever and as they like and no call fails and no restart interrupts
  a pass. `RentalsProtected` needs `ByConsole` (see the departures). All five come from
  `OwnInv`. What a pass may do depends on what it read, that on the status an earlier
  pass reported, and that on the calls that pass had made; `OwnInv` has a part for each:
  who is on the machine fits its labels, and it is sold only shut and empty (`UsersFit`);
  what a settled phase (`SettledFit`) or one in flight (`FlightFit`) guarantees; which
  transition the pass is on (`TidsFit`); what of its reading is still so (`ReadFit`); and
  per branch what each call finds that the calls before it left (`AriseFit`, `DrainFit`,
  `OtherFit`). The action properties and the refinement need the steps too: `Careful`
  says once what a step may do to the node given `OwnInv`, every group of actions is
  shown careful, and a careful step is a step of `Ownership` or none. Where operators
  bypass the console a transition may change between any two calls of a pass: the parts
  of `OwnInv` that tie the pass to the transition in force fall away, and in their place
  stands that a pass once begun is finished (a drain has its cordon but for the one call
  between the uncordon and the report). With a failed status or a restart at that call a
  later transition evicts and lists on an open node (see the departures), and hands at
  the Node undo what a call left: neither setting keeps the five. The invariant was
  checked first, in both settings, with two tenants, a rental and three transitions
  (through the console with a failed call and a restart, past it with a lost node).
- `StatusNeverRefused`: `NoRefusedStatus` under `ByConsole` too, with `MaxFaults = 0`.
  `AcceptInv` adds that a rental on a pool-labelled machine is always between a list and
  the label of the handover that made it. With failed calls the property is only checked
  on the bounds of `Handovers`: three failures, or one and a lost Node, in one behaviour
  do lead to a refused status.

Metering (`LedgerProofs`), both with `AppendErrors` at most `{"nothing"}` (the other two
break them, see below), for any subjects, faults, crashes and times:

- `ChainKept`: `ChainHolds`. `LedgerInv` adds that a partial line exists only between a
  crash and the next load, so no append runs into one; `ChainGrows` is the one step of
  induction the chain needs: a line made for the current head continues it.
- `BilledOnce`: `ExactlyOnce`. `MeterInv` relates the four places that know of a subject:
  the world and what a tick listed of it (`WorldFits`, `ViewFits`), the last-seen times in
  memory and on disk (`SeenFits`), whose turn it is in each loop of the tick (`TodoFits`)
  and the records (`EntriesFit`: none lies before its pod's start). `LatestIs` is the fact
  about the last of a set of positions, by well-foundedness of inclusion.

Billing (`InvoiceProofs`), for any ledger the meter can write, price book, reservation,
calendar and windows:

- `BilledAtMostOnce`, `EverySecondBilled`, `RateRight`, `PaidOnce` and `InvoiceTypes`:
  `OnceAtMost`, `EverySecond`, `RateOfTheSecond`, `NeverTwice` and `InvoiceTypeOK`. Each
  property speaks of one second, and a second is followed down, to the one
  interval of its uid that holds it (`IntervalsApart`, from `RecsFit`: the ledger opens a
  uid after its last close), to the one piece of the interval between the reservation's
  boundaries (`PieceAt`, `PieceOnce`) and the one segment of the piece between two rates
  (`SegmentIn`, `SegmentAt`, `SegmentOnce`). `Sheet` says what one statement holds of one
  uid, with a lemma each for pods, volumes and the reserved node. `InvoiceInv` carries it
  over the statements: old lines end where the new window begins, and a record changes no
  second before its date (`Told`), or makes its uid `late`.
- `OneNodeMonth`: `WholeMonth`. What a month reserved whole costs is not exactly its
  price, since every row is rounded to cents and the rounded rows are summed: the rows add
  up to it within half a cent a row. If the price changed within the month, the sum lies
  between the cheapest and the dearest price the rows were written at, with the same
  slack. Rows without a rate have no amount, so nothing is said of a month with one. By
  `InvoiceInv` the node's lines cut the month up (`MonthCutUp`); the days cut up each line
  (`DaysPart`), and a day of the month has the month's length (`MonthOfDay`, from
  `NextMonth` and `MonthsApart`), so the line pays its seconds at one share (`ShareIs`,
  `SharesPaid`). `PartedSum` adds both up: prices in proportion to length sum to the
  price of the whole. `CentsAre` bounds what rounding takes or gives a row and
  `SumsBounded` adds the bounds up. The library's induction theorems take an operator, so
  the induction is written out: a set of counterexamples has a smallest part
  (`SmallestPart`, inclusion is well founded), the recursive function that sums exists
  (`AddsExists`), and the order of summing does not matter (`SumWithout`).

Gateway (`SessionProofs`, `ConnectionProofs`, `ThrottleProofs`):

- `EndedForGood`, `IdentityProved`: `EndedStaysEnded` and `ProvedIdentity` for any
  accounts, threads, tombstone limit and bounds. Neither is inductive:
  a check of a token reads the tombstones and the version, so `SessionInv` says what those
  must still show. Versions do not return (`VersionsOK`): a random one is above all drawn
  so far, a seeded one derives from a password no token was opened with. An ended session
  is therefore recognised by one of three things, its expiry, its tombstone or its dead
  identity (`EndedOK`); tombstones go only when expired or, on overflow, after the
  rotation that killed every token of the user (`DiscardOK`), and only one thread is in
  `revoke()` at a time (`LockOK`), so nothing comes between these two commits but a crash,
  which leaves the first done. `Kept` and `Nth` are the facts about the sequence that
  pruning leaves.
- `AlwaysAligned`, `SlotsKept`, `CeilingKept`: `Aligned`, `NoSlotLost` and `Ceiling` for
  any number of connections, slots and failed starts. `BodyOwned` is what alignment needs
  between parsing and answering: a body is on the socket only while its request says so
  and the flag does not claim that it was read. The slots are counted from below
  (`NoSlotLost`) and from above, since one given back twice only adds.
- `MemoryBounded`, `LockoutHolds`, `PolicyHolds`, `ThrottleTypes`: `KeysBounded`,
  `LockoutLasts`, `WithinPolicy` and `ThrottleTypeOK` for any policy, keys and threads. No
  lockout ends later than `Lockout` from now, which is why a late failure can set it again
  without shortening it; the keys known are at most the sum of the sizes of the two maps,
  which the code compares with the bound. For the policy, the failures that count and the
  failures remembered are two lists pruned at different times, so `Told` compares, after
  every instant that the lockout (if any) does not cover, how many entries each has left:
  the throttle never remembers fewer. `OlderSplits` and `AfterIs` say what pruning does to
  a sorted list, without induction: its older entries are its first ones, and they are as
  many as a set has members.

Portal (`ProvisionProofs`):

- `Provisioned`: the inductive `ProvisionInv`, for any number of clients, names in use,
  retries, deletes, rotations, evictions, failures and bounds; `ProvisionTypes`,
  `OpenedComplete`, `KeyStaysOut` and `OthersSpared` follow from it: `ProvisionTypeOK`,
  `OpenComplete`, `RevokedKeyStaysOut` and the action property `SparesOthers`: a delete
  takes the very object it read; of a workload only the parent it looked at first and
  what that parent owns (or nobody, under its labels); a volume only if asked to, and then
  any with the machine's label, which is less than 951 promises (see the departures). An object is
  recognised by its uid, which never returns (`UidsFit`). A thread acts on copies that may
  be stale: `Fits` is what they still show, namely that as long as the object with the uid
  is there it is what was read. That survives every step because every step is `Gentle`:
  an object lasts as it is in all that matters, comes with a new uid, or goes, and the
  dependencies of a parent that lasts go only if its uid enters `robbed`. An open gate
  then keeps what it was opened on (`OpenFirm`), and a replaced key its successor
  (`KeysFit`).

Only model-checked: the controller's properties outside the settings above, and
all liveness (`DrainEnds`, `Converges`, the healing of drift, the meter's and the
portal's), which the prover cannot state.

## Where the code departs from what it says

Seen while modelling; the properties are stated so that they hold where the code makes
no promise or does not keep it, and these are the places:

- the pass after an automatic quarantine of an ARISE transition takes the QUARANTINED
  node into the sanitizing branch and reopens it, whatever its transition id (controller
  1174; 1029-1030 says release is a new id);
- a node in HEALTH_CHECK is not superseded by a new transition, and only the ARISE handler
  has a branch for the phase: a transition to VAST, DIRECT or MAINTENANCE submitted while
  the console still sees the phase before leaves it there (991-992; 210 calls it a phase
  a node passes through): `Stranded`;
- a DIRECT binding interrupted between uncordoning (1530) and its status (1531) leaves
  DRAINING on an open node; a VAST transition then goes on in the draining branch, which
  does not cordon, and lists the machine (1299-1339; line 8 says "exactly one owner at any
  instant");
- a rented VAST machine relabelled ARISE by hand passes the console's gate for another
  VAST transition, whose first status (owner ARISE with a live contract) the CRD refuses
  on every pass until the rental ends (1294; crd.yaml 231-235); the label is not put back
  meanwhile, so `DriftHealed` sets a node with another transition asked for aside;

- the contract gate uses the count read before the unlist, so SANITIZING can be
  reported while a contract that started in between is live (controller 1131-1198;
  it is never given back: `ReclaimGate`); with an operator that bypasses the console, a
  MAINTENANCE transition of a listed machine that is draining goes on with that count
  (1552, 1562, 1597-1599) and may label a rented machine MAINTENANCE (1615);
- a DIRECT drain spares the reserved customer's pods and then quarantines the node
  for the GPUs they hold (1492-1496);
- a restart between the DRAINING status and the save of the state brings an older
  drain start of the same transition back (1090, 1828);
- a node whose Node object cannot be found is quarantined in its status and stays
  listed (853-857, 721);
- a quarantine whose label, taint or status write fails is not resumed (734): with an
  edited label the next pass may find a QUARANTINED label on a READY object and correct
  the label back;
- the owner label of a VAST_READY node is not put back when somebody edits it: the
  drift map has no entry for the phase (1025-1031), and the VAST handler re-asserts
  only taint and cordon;
- a customer's machine relabelled ARISE by hand and then asked for by ARISE counts as
  settled and is reopened with the customer's pods on it (1124);
- on a node uncordoned by hand in HEALTH_CHECK a customer's pod can bind after the
  re-check listed the pods (1217) and before the label is written (1244), and the pool
  gets the machine with the pod on it, although 1170 says the re-check closes that
  window;
- an append that fails after the whole line reached the disk is repeated, so a uid has
  two opens and the chain breaks; one that fails half way leaves a fragment the next
  append continues, and the line that results is no JSON: the next start cannot load
  the ledger (metering 224-230, 160-179; `AppendErrors` reaches both);
- a pod hidden from the meter while it finishes is never billed beyond its last-seen
  time: it is in `done` when it is seen again (metering 576);
- a pod without a finishedAt whose deletionTimestamp lies before a re-open is closed
  before it was opened (metering 450-452; `/usage` counts the segment as zero);
- the console's gate tests a label read before the objects and can start a transition
  of a node quarantined in between (console 252-254, 369);
- a pod that goes between its list and the reading of the clock is closed at that clock
  (metering 559, 622), a fraction of a poll late;
- a worker thread that cannot be started gives its slot back twice (gateway 1263,
  1266-1271), so the ceiling of 1229 is exceeded by one from then on, or, when the
  semaphore is full, `ValueError` ends the server; `Ceiling` counts the failed starts;
- `read_token` looks at the expiry before it takes the lock (499): a logout of the same
  user in between prunes the tombstone of a token that expires at that moment, and the
  logged-out token is accepted once (`late`);
- a key of the throttle may be in both maps and then counts twice; failures of keys that
  do not fit are not counted (592); a restart clears both throttles;
- a delete takes a dependency away while the create that made it opens the gate, and the
  delete of the parent is then refused with 409 (portal 677-678; 716, 950-980);
- a create never looks at a volume's deletionTimestamp (685-690) and may mount one that
  is about to go;
- `?deleteVolume` reads the volume when its parent is gone already, and may take that of a
  machine created meanwhile under the same name (982-987; 951: "Never delete a replacement
  object"); `SparesOthers` allows it;
- a 404 in `remove()` ends the request as "deleted" and skips what was left (990-992);
- a record dated before an issued statement is never billed by a later one (`late`);
- a list request the controller gave up on (1340-1359; 1357 calls that safe to retry) can
  put a machine on the market after another transition handed it to the pool or to a
  customer: `stray` in `LateLists`;
- a quarantine that found no Node reports the adapter's mode all the same, so a controller
  restarted without the adapter can be made to reopen a listed machine whose Node was lost
  for a moment (738-747).

## Plan

1. Done: controller, console gate, marketplace, metering; sessions, throttle and
   connections of the gateway; provisioning; invoices. Every safety property a run checks
   is proved, within the settings named under Proofs.
2. Next proofs: what is left of `OneOwner` in the settings where it is false (hands at
   the Node, late lists, failed calls under operators who bypass the console): which of
   the departures above are the only ways out of it, as `LateLists` shows of its bounds.
3. Next models: the mock's restart with its persisted contracts, the second machine; a
   machine and a service that share a Service.

## Not modelled

The SSH relay (its slots are kernel locks), backups (one-shot copies checked against the
previous one), the fake GPU plugin (a stand-in for the vendor's) and the web application
(rendering), which hold little control of their own; manifests and scripts. Of the
modelled services: cookies, headers, roles per backend and forwarding; the validation
of fields and the manifests' contents; flavours, argument parsing and CSV; metrics,
events, conditions and log lines. They are data or formats the properties do not look at.

Left out though it is control: a machine `x` and a service `x-ssh` share the Service
`x-ssh` (portal 709-715, 774-784), and the delete of the latter takes one of the former
that has no owner (977-978). Of this only the state it leaves is modelled, a Service of
somebody else under the name (`InitialObjects`). `Throttle` takes the clock at the lock,
which the gateway reads just before it (604-605), so a failure may be dated a moment
earlier than in the model.
