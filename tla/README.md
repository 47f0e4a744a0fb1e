# NostMesh in TLA+

NostMesh brings up WireGuard tunnels between peers that find each other through
Nostr relays.  This directory holds its formal specification: TLA+ modules
translated from the Go source, TLC configurations that check them on small
instances, and TLAPS proofs for every instance.  `PROJECT.json` maps each
definition to the lines it stands for.

## 1. Inventory

| component | state it keeps | operations | talks to |
|---|---|---|---|
| **netstate** (`internal/netstate`) | a `Transaction` in memory per `Apply`, one journal file per transaction | `PlanInterface`, `PlanRoutes`, `Apply` (begin, effect, complete, commit), `compensate`, `Remove`, `RemoveRoute` | adapter (calls), journal store |
| **WireGuard adapter** (`internal/wireguard`) | none: the kernel's links, devices, peers, routes | `EnsureInterface`, `ApplyPeer`, `AddRoute`, `Remove*`, `ListOwnedInterfaces` | kernel |
| **recovery** (`orchestrator/reconcile.go`, `service.recoverHostState`) | none | `Recover`, `Down` | journal, adapter |
| **driver** (`orchestrator/driver.go`) | held messages, the handshake, one session | `Connect` (request, offer, accept, candidates, probing, establish), `Hold`, `Release` | control plane, handshake, checker, netstate, session table, routes |
| **handshake** (`internal/session`) | state, peer tunnel key, deadline | `BuildRequest` ... `ReceiveAccept`, `ConfirmEstablished`, `Expire` | driver |
| **control plane** (`cmd/nostmesh/control.go`) | the session it is bound to, the subscription | `Publish`, `Next`, `BindSession` | relays |
| **answered sessions** (`driver.go`, `answeredstore.go`) | the sessions answered, in memory and in a file | `Add`, `Has`, `WithStore` | driver |
| **peer worker** (`service.go`) | next role, backoff | attempt, hold, release, retry; reload and revocation | supervisor, driver |
| **supervisor** (`supervisor.go`, `peerslot.go`) | attempt slots, claims on interfaces and ports, session table | `BeginAttempt`, `EndAttempt`, `Claim`, `ExpireStaleSessions` | workers |
| **session table** (`orchestrator/session.go`) | phase, endpoint, roam history per peer | `Begin`, `AdvancePhase`, `RecordObservedEndpoint`, `Close` | netstate |
| **connectivity** (`internal/connectivity`) | candidates and their attempts, outstanding challenges, nomination, two queues over one socket | gather, observe, challenge, answer, learn, nominate | UDP, STUN servers, driver |
| **routing** (`domain/routes.go`, `policy/routing.go`, `cmd/nostmesh/routes.go`) | offers and selections, shared by all sessions | `Announce`, `Withdraw`, `Reconcile`, `Release`, `Advertise` | driver's hold loop, netstate |
| **relay client** (`internal/nostr`) | connections, channels, inbox of seen events, outbox | publish, subscribe, poll, redial, deduplicate, queue | relays |
| **policy** (`internal/policy`, `cmd/nostmesh/session.go`) | grants and groups of one configuration | `Decide`, `Check`, `sessionPeers` | service, driver, routing |
| overlay allocation, codec, configuration, identity, command line | configuration | pure decisions, parsing, encoding | everything |

What is hard here, and what a component has to get right:

* **The host outlives the process.**  Interfaces, peers and routes are changed in
  several sub-steps; a crash, a refused call or a failed journal write may fall
  between any two.  What is on the host must stay known to the journal, a failed
  `Apply` must undo itself without touching what it did not make, start-up must
  clean up after any earlier run, and none of it may touch the operator's own
  interfaces.
* **Relays keep and replay.**  Every attempt subscribes anew and is handed the
  messages of earlier ones, in any order; both nodes restart and time out
  independently.  Two nodes that believe they agreed must hold each other's
  keys, no session may be answered twice, and nobody may call a tunnel
  established that its peer never configured.
* **Everything waits on somebody.**  A responder waits for a request, an
  initiator for an offer, a checker for a response, a worker for a slot, a
  publication for every relay's answer.  Not every one of these waits has a
  timer, and the cancellation of a worker must end them all.
* **One routing table serves all sessions**, each of which applies the table's
  changes to its own interface from its own goroutine.
* **Sessions are closed from two sides**: by their worker and by the sweep of
  stale sessions, with a list taken before and used after an unlock.  Slots,
  claims and table entries are counted against limits, so each has to be given
  back however an attempt ends.
* **The operator changes the configuration under running workers.**  A reload
  stops some in the middle of what they do and starts others under another
  base port.
* **Channels are bounded and drop.**  An event from a relay, a probe or a STUN
  answer may find its queue full; what was dropped must come again, and what
  comes again must not be taken twice.
* **The socket is shared**: STUN answers and probes arrive on it, late, out of
  order and from other addresses than the one asked.

`PROJECT.json` lists each of these as a hazard at the line where it bites.

## 2. Modules

| module | models | status |
|---|---|---|
| `NetState` | netstate, adapter, recovery | built |
| `NetStateProofs`, `NetStateRollbackProofs`, `NetStateProgressProofs` | theorems about `NetState` | built |
| `Negotiation` | driver's `Connect`, handshake, control plane, answered sessions, worker's retries | built |
| `Routing` | routing table, router, route handler, the hold loop's work on them | built |
| `Policy` | grants, groups, `Decide`, `Check`, `sessionPeers` | built |
| `Sessions` | service with reload, revocation and sweep; supervisor's slots and claims; session table; a worker's attempt as they see it; roaming | built, on `Policy` |
| `Relays` | one attempt's relay set: connections, polling, inbox, outbox | built |
| `Connectivity` | gathering, observers, engine and checker | built |
| `Tunnel` | what a session between two nodes promises, which `Negotiation` implements | built |
| `NegotiationProofs`, `RoutingProofs`, `SessionsProofs`, `RelaysProofs`, `ConnectivityProofs` | theorems about these modules | built |

`MCNetState`, `MCNegotiation`, `MCRouting`, `MCSessions`, `MCRelays` and
`MCConnectivity` extend their module for TLC.

The modules meet at the boundary of an attempt.  `Sessions` runs attempts and
takes what they decide as a choice; `Negotiation` is one attempt's conversation,
`Connectivity` its `verifyPath`, `Relays` what carries the conversation,
`NetState` what `Apply` and `Remove` do to the host, `Routing` what holding a
session does to routes.  What one module takes as a choice, another works out:
`Negotiation` lets any message be lost or repeated, which `Relays` bounds (an
event that a connected relay keeps arrives, and once); `AnswerChallenge` lets probing
succeed when both ends hold the same key, which `Connectivity` works out.

### NetState

A transaction `t` has its in-memory record (`mem`), its durable one (`disk`), its
plan and a program counter `pc` that names the sub-step `Apply` is about to
take.  `StartApply` is `Apply` up to its first save; `Begin`, the effect actions
and `Complete` are one turn of `applyInterface`, `applyPeers` or `applyRoutes`;
`Commit` is its end; `EffectFails` is any adapter error, `Compensate` and `Close`
the deferred rollback.  The adapter's calls are split where they can be
interrupted: `EnsureLink`, `ConfigureDevice`, `LinkSetUp` and `ObserveInterface`
are `EnsureInterface`; `ApplyPeer` and `EnsurePeerRoutes` are `ApplyPeer`.

An operation is named by what it acts on: a peer is `apply_peer`, a prefix is
`add_route`.  The addresses of a plan are one operation, and a peer's allowed
prefixes one set of routes (`proute`).  The host is `res` (the transaction, or
the operator, that introduced each link, peer and route; `None` if it is
absent), `proute` and `dev`.  The introducer is not something the kernel
records: it is a ghost the properties speak of, and no guard of the code reads
more of it than whether the resource is present.

`Save` writes a file by rename and then syncs the directory: a failed save may
have replaced the file, so `SaveFails` chooses.  `Existing` records what was on
the host when the plan was made, which is what compensation later spares.

`Start`, `Recover`, `RemoveOne`, `RemovedAll`, `ReconcileJournal`,
`ReconciledAll`, `JournalUnreadable` and `Teardown` are start-up: `Recover` and
then `Down`, an error ending the pass it occurs in.

Assumed of the code: one `Apply` at a time per interface (each interface
belongs to one peer's worker, and a worker's steps are sequential);
transaction ids are never reused (`session-<id>`, `routes-<iface>-<nanos>`,
`roam-<iface>-<nanos>`).

The constant `Faults` selects what the environment may do: `refuse` (an adapter
call fails as a whole), `partial` (it fails after a sub-step), `save`, `cancel`
(the worker's context ends), `undo` (an adapter call of the rollback fails) and
`boot` (an error during recovery).

### Negotiation

Two nodes, one worker each.  `phase[n]` is the wait the driver is in; the waits
for a message read through `Awaited`, which is `awaitMessage`: a held message
first, else the next one the plane lets through.  `Refuse`, `Keep` and
`SkipStale` are the three ways a message is not the one wanted.
`AnswerRequest`, `AcceptOffer`, `ReceiveAccept`, `PublishCandidates` and
`ConsumeCandidates` are the steps of `Connect`; `AnswerChallenge` is what the
checkers exchange; `Configure`, `Shake`, `ConfirmEstablished` and
`VerifyTimeout` are `establish`; `Release` ends `Hold`; `Crash` and `Restart`
take the process down and back.  Wherever an interface is removed the removal may
fail and leave it (`TearDown`).  The record of answered sessions is a file that is
written whole: `Add` may fail to write it, and `Restart` to read it, after which
the node goes on with an empty record and the next `Add` writes over the file
(`supervisor.go:130`, `driver.go:233`).  `lost` is a ghost, the sessions a record was
lost of in one of these ways.

`sent` is every message some relay accepted.  A new attempt is a new
subscription and may be handed any of it again, except a request or an offer
that a newer one of the same sender replaced on the relay.  `got` is what an
attempt has read or will not be handed; loss is a message that is never read
before the wait times out.

Abstractions: a tunnel key and a session id are drawn at random, never twice,
and are named by the node and its attempt.  `session.ready` is left out: nothing
reads it.  The timestamp test in `awaitOffer` and `awaitAccept` tolerates five
minutes of skew, more than the distance between attempts, so it never rejects
what the model delivers.  The record of answered sessions keeps a session
longer than an envelope lives, so nothing is forgotten while it can be
replayed.  Signatures and sealing are taken as sound.

### Routing

One node and its peers.  `offers` and `selected` are the `RouteTable` all
sessions share; `loop[p]` is where the hold loop of the session with `p` stands.
`Announce` and `Withdraw` hand one kept message each to the router, announcements
first; `Reconcile` is the locked part of `routeHandler.apply`, which expires and
selects over every provider's offers; `RemoveRoute` and `InstallRoutes` apply
what changed, outside the lock, to the interface of the session that evaluated.
`Release` and `RemoveInterface` are `Driver.Release`.

The hold loop does not read the receiver, so what a driver can hand over is what
it kept while it negotiated: `Establish` chooses it from whatever the peer may
have published by then, relays being free to replay.  The kernel keeps one route
per destination and answers a second with EEXIST, which `AddRoute` ignores;
`RouteDel` names the interface and misses a route through another.  A version is
the time an announcement was built, and its validity is counted from there.
Policy is the relation `Allowed`.  `since` is history, read by properties only.

### Tunnel

The promise of a session without its messages: `Agree` (on a session and each
other's keys, the own one fresh), `Configure`, `Establish` (only once both ends
have configured the same session), `Leave`.  `Negotiation` instantiates it with
`end`, `host`, `up` and `made` read off its own variables, and `KeepsPromise` is
`Tunnel`'s specification under that mapping.

### Policy and Sessions

`Policy` holds definitions only.  A configuration is a record of grants, groups
in their order and the base port; `Decide`, with groups, says whom the service
serves, `Check`, without, is what the driver asks.

In `Sessions` the service's goroutine is `loop`: `Reload` computes whom to stop,
`Stop` and `Stopped` are `stop` before and after its wait, `StartNew` is the rest of
`reconcile`.  `Sweep` lists and `SweepOne` closes, as `ExpireStaleSessions` does
without a lock in between.  `Quit` and `QuitDone` are `stopAll`.  A worker is
`pc[p]`: `BeginAttempt`, `ClaimRefused` or `Build`, `Begin` or `ConnectFails`, then
`Abandon` or `Configure`, then `Unconfirmed`, `VerifyFails` or `Establish`, then
`EnterHold`, `HoldCancelled` or `HoldDropped`, and `Release`, with `EndAttempt` in
every action that ends the attempt.  `FollowRoam` and `Roam` are the two halves
of `applyEndpointChange`, which drops the lock for `applyRoam` in between; `Move`
is the kernel's own roaming.

Abstractions: an entry's age is `fresh` or `late`, the handshake's deadline being
earlier than the sweep's age, and the phases between `Begin` and the end of
`Connect` are one.  A sweep closes what it listed whatever has become of it since,
a session that came up in between included.  `Hold` looks at the table only when
it begins, so such a session is held on without an entry: it is not counted
against the limit, and its peer's moves are not followed.

### Relays

One attempt's `RelaySet`.  `wire[r]` is what a relay has sent, `stream[r]` the
channel of its read loop, `inbound` the control plane's; `seen` is the inbox,
oldest first.  `Arrive`, `Forward` and `Read` take an event from one to the next,
`Poll` and `Redial` ask again.  `Publish`, `Judge` and `PublishWithOutbox` are a
publication; `part[r]` is `orphaned` where the connection went with the answer
still owed, since `read` leaves the waiting publisher alone.  `StartHold`, `Close`
and `Cancel` end the reading, the attempt and the worker.  The relays are
external; `stored[r]` is the peer's events that a relay keeps.  A relay that
accepts a publication need not keep it (`websocket.go:175`), so `Judge` records the
answer and nothing else.  An inbox entry's expiry is left out: it is longer than an attempt
reads.  All channels have one capacity.

### Connectivity

One attempt's `verifyPath`.  `Gather` is the direct methods in their default
order; `Observe`, `ReceiveSTUN`, `DispatchProbe` and `ObserveTimeout` the observers,
one at a time, over the socket probes arrive on too; `PublishCandidates` and
`ConsumePeerCandidates` the exchange; `ProbeRound`, `Receive`, `HandleArrival`,
`AwaitTimeout` and `Return` are `Checker.Run` and its receiving goroutine.
`Probable` leaves open which candidate of a foundation is probed, as iteration
over a Go map does.  An address is a model value, with its IP, and its being
private, IPv6 or unsafe, as constants.  `Foundation` is a kind and an IP: where
`foundationFor` takes the base from the related address, the IP given to an address
stands for that base.  Nonces and transaction ids are named by
what they were drawn for.  Priorities only order a round's probes and are left
out.  Port mapping and recent endpoints are not implemented in the source.

## 3. Runs

| run | instance | shows |
|---|---|---|
| `netstate_faults` | 2 transactions, 1 interface and 1 of the operator's, all faults, 1 crash | `HostIsJournaled`, `NoOrphans`, `NoStalePending`, `CommittedSurvives`, `OperatorUntouched` |
| `netstate_strict` | 2 transactions, 2 peers, whole-call failures and failing saves, 1 crash | `FailedLeavesNothing`, `JournalTellsCrash` |
| `netstate_live` | 1 transaction, failing undo, saves and start-up, 1 crash, fairness | `ApplyTerminates`, `ServiceReturns` |
| `negotiation` | 2 attempts each, 2 crashes, all faults | `MirrorKeys`, `EstablishedIsMutual`, `AnsweredOnce`, and `KeepsPromise`: it implements `Tunnel` |
| `routing_table` | 2 peers, 1 destination, 5 instants, failing applies, reconnects | `SelectionLive`, `NoFlap`, `BestWins` |
| `routing_shared` | 2 peers | `InstalledIsRouted` is **violated** |
| `sessions` | 2 peers, 2 configurations, limits 1 and 2, fairness | `SlotsBalanced`, `ClaimsApart`, `RevokedIsClosed`, `RoamsApart`, `ReloadEnds`, `NeverLockedOut` |
| `sessions_sweep` | the same, without fairness | `HeldIsListed` is **violated** |
| `sessions_roam` | the same, without fairness | `RoamKeepsKey` is **violated** |
| `relays` | 2 relays, 2 events, 1 message, channels of 1, 1 loss, fairness | `HandedOnce`, `Delivered`, `StopEndsPublish` |
| `relays_close` | the constants of `relays`, without fairness | `ClosedStaysClosed` is **violated** |
| `connectivity` | 2 observers, 3 kinds of offers, 2 attempts per candidate, queues of 1, fairness | `NominatedIsProven`, `LateProofCounts`, `ExhaustedIsTried`, `ObservedIsAsked`, `RunEnds` |

The violated properties are statements of the code's own comments that the code
does not keep; `PROJECT.json` quotes each under `findings`.

Further disagreements between the code and what it says of itself, met while
modelling and without a run of their own:

* `Apply`: "either the plan is fully applied, or the host is left as it was found"
  (`manager.go:83`).  A call that fails after its first sub-step is not
  compensated (`:294`), the rollback of a cancelled worker runs under the
  cancelled context (`:225`), and the configuration of an interface that existed
  is not restored (`:462`).  `FailedLeavesNothing` is what holds, where calls fail
  as a whole.
* A route the operator adds between `PlanRoutes` and `AddRoute` is taken for the
  transaction's own and removed by its rollback (`manager.go:343`): with
  `OperatorRaces` TRUE, `OperatorUntouched` fails.
* Candidates of an earlier session that are read before the session is bound are
  kept and used for it (`driver.go:1066`, against `control.go:396`).
* When `ConfirmEstablished` fails, the interface stays (`driver.go:1414`, against
  "fails leaving nothing behind", `:553`); `Unconfirmed` of `Sessions` is that step.
* `Release` leaves the selection, so a peer that is back before an evaluation is
  taken for routed already (`routes.go:180`, against `driver.go:1648`).
* `RouteTable.Withdraw` forgets the version it withdraws, so a replayed
  announcement is accepted until its validity passes (`routes.go:106` says it
  must not be).  An announcement's `NetworkID` is not looked at.
* Nothing calls `Router.LocalNetwork` (`cmd/nostmesh/routes.go:226`).
* "A new route has to beat the installed one by a margin, over a window"
  (`docs/adr/NM-25-route-announcements.md:83`).  `Select` has the window and no
  margin: any better offer, at equal metrics that of the lesser key, takes the
  destination when the window is over (`domain/routes.go:273`).  `NoFlap` and
  `BestWins` state what the code does; with a margin `BestWins` would be false, and
  `NoFlap` would say less than it should.
* A route whose offer lapsed stays in the kernel when the loop that finds the lapse
  belongs to another session than the one that installed it: the removal names the
  wrong interface (`cmd/nostmesh/routes.go:281-323`).  With one session the route
  leaves; with two nothing of the kind can be stated, for the same cause as
  `routing_shared`.
* All kept announcements are handled before all kept withdrawals
  (`driver.go:917`), so a re-announcement may be undone by an older withdrawal.
  The destination is then without a provider, which `SelectionLive` allows: it
  forbids the provider that is gone, and does not ask for one that is there.
* `WebSocketRelay.Publish` waits for the relay's answer under the caller's
  context only (`websocket.go:218`), and `Client.Publish` for every relay
  (`client.go:218`): "relayWriteTimeout bounds one publish" (`websocket.go:26`) holds
  of the write alone.  A relay that stays silent, or is lost while it owes an
  answer, holds the attempt; only the end of the worker is sure to end the wait,
  which is `StopEndsPublish`.  So no property says that an attempt ends.
* A publication no relay accepted "is retried rather than lost" (`control.go:203`):
  it is queued, and reported as an error; `Drain` is called by nothing.
* A node that cannot read its record of answered sessions "answers a replayed
  session at worst" (`supervisor.go:130-139`).  It also writes over what it could not
  read: the sessions of the old record are forgotten for good, when a later start
  can read the file again too.  `AnsweredOnce` excepts them.
* A conflicting event is handed on like a new one and not remembered, and nothing
  reads the verdict (`inbox.go:94`).  All announcements of a session claim
  sequence number 0 (`driver.go:974`).  `HandedOnce` excepts such events.
* The service serves peers a group allows, and the driver asks `Check`, which knows
  no groups: such a peer's attempts all fail (`service.go:387`, `allowlist.go:174`).
* A running worker keeps the configuration it started with, while a peer added by
  the same reload gets the new node settings (`service.go:359`).
* `stop` looks whether there was a session before it cancels: one that comes up in
  between is not told of its revocation (`service.go:489`).
* `Begin` counts failed entries against the limit (`session.go:196`); the attempt's
  slot is kept while the session is held, so the limit on attempts is one on
  sessions too.
* "Two candidates that would behave identically are probed once"
  (`engine_test.go:225`; so `candidate.go:127`, `engine.go:193`, and
  `engine_test.go:412-417` has the second "simply never be probed").  `Probable`
  takes one candidate of a foundation per round, among those with challenges left:
  when one has had all of its own, the next of that foundation is probed.
  `ExhaustedIsTried` states this, and probing once for all of them breaks it.
* `Checker.Run` looks at the context before it looks for a nominated candidate
  (`checker.go:144` says the reverse: "a probe that succeeded must not be
  discarded"), so a path nominated as the context ends is given up;
  `LateProofCounts` is about the nomination, not about what `Run` returns.
  Exhaustion drops answers that are already queued.  A round takes one arrival, so
  a challenge of the peer's, or noise, uses up a round.  The side that nominates
  first stops answering the other's probes, which no property is about.  The
  engine's clock starts before gathering and the
  wait for the peer's candidates, which may take longer than its 30 seconds.
* `GatherPolicy` is built without `AllowPrivate` and `AllowIPv6`, which
  `DefaultGatherPolicy` has: two nodes on one network offer no host candidates.
* Two candidates with one address are probed twice as often as
  `MaxAttemptsPerCandidate` says (`engine.go`).

Bounds, and why they are enough.  Every hazard of a transaction is between it
and one earlier transaction on the same interface, a crash, and the start-up
that follows: two transactions and one crash reach all of them, and the proofs
cover any number.  A replay needs a second attempt and a stale acceptance needs
two attempts at both ends: `MaxAttempts = 2`.  `MaxHeld` is 4 in the code; the
run uses 1, so that the oldest held message is really dropped.  Two crashes let a
node restart without its record, answer, write over it and restart again.
In `Routing` a validity of three instants and a window of two, over five instants,
let an offer lapse while another holds the destination and a window end before
the offers do, with an evaluation in between; two kept messages per session and
kind let a batch hold an old announcement and a new one.  The one destination is
permitted to both peers, so no announcement is refused in the run; `NothingUnpermitted`
is proved for any policy.
`AnsweredOnce` excepts sessions whose record could not be written or read: `Add`
drops the store's error on purpose, `WithStore` starts without the record, and both
say so.

In `Sessions` every hazard is between two peers: one slot for two, a claim under
one base port against a claim under another, a table one of them fills with a
failed entry.  The second configuration revokes one peer, leaves the other to a
group, and moves the base port so that the two would share one.  In `Relays`
channels of 1 and two events make one event take the other's place in every
queue.  The events claim different positions and the inbox has room for both: a
rival for a position, and an inbox that forgets, are not in the run.  `HandsOnce`
is proved with rivals; an inbox that forgets is outside it (section 4).  In
`Connectivity` two attempts per candidate let an answer to the first arrive after the second was sent; the offers are two candidates of one
foundation of which one is dead, an unsafe address with an unknown kind, and
more third-party candidates than are allowed; answers may come from another
address, which is also learnt from the peer's challenge.

Deadlock is checked in the `sessions` run, where the only end is the service's
own.  Elsewhere it is not: each bound (attempts, transactions, crashes, messages)
makes a state in which the model has nothing left to do, where the program goes
on, and a path that was found or given up is an end.

Fairness.  `NetState`: `Apply` and start-up run on goroutines of their own and
wait for nothing but the kernel and the disk, so they are weakly fair; new
transactions, the operator, cancellation and crashes are not.  `Negotiation` and
`Routing` assume none: an attempt may wait for a relay's answer to a publication for
ever, and what the two would promise in the end depends on that, or fails as said
above.  `Sessions`: the service runs, time passes, and a worker that is cancelled
comes to its end, since the end of its context ends every wait, a publication's
included (`StopEndsPublish`).  Nothing is assumed of a worker that is not cancelled:
`NeverLockedOut` and `ReloadEnds` hold though each of them may hang for ever.  The
sweep and the seeing of a cancellation are strongly fair: Go's `select` picks among
what is ready at random.  Signals, moves and the loss of a session are not fair.
`Relays`: the goroutines run.  Polling is strongly fair where a relay's channel has
room, and so is the arrival of an event at some relay's channel with room: the
ticker's interval is seconds, in which channels are emptied again and again, and
every poll brings the events anew.  A lost relay need not come back, so `Delivered`
is about an event that some connected relay keeps, at each moment from some moment
on.  Nothing is assumed of a relay's answer to a publication.  `Connectivity`: the
attempt's own steps are fair, each of whose waits has a timer, except the
publication of its candidates; neither the network nor the clock is.  So `RunEnds`
says that the attempt ends, or hangs in that publication, and that it ends once it
is past it; it rests on the budget of attempts alone.

## 4. Proofs

Every invariant and action property that a passing run checks is also proved, for
all values of the constants within the assumptions named below, and so is the
refinement of `Tunnel`.  `PROJECT.json` names the theorem for each property.  The
theorems that go beyond the runs' properties are marked with a plus; the formula of
each is defined, with its comment, in the proof module that proves it, and held on
a small instance before it was proved.

| module | theorems | inductive invariant |
|---|---|---|
| `NetStateProofs` | `TypeCorrect`, `Journaled` | `JournalInv` |
| `NetStateRollbackProofs` | `NothingOrphaned`, `NothingStale`, `CommittedStays` | `RollbackInv` |
| | `OperatorsOwn`, given `~OperatorRaces` | with `OperatorExisted` |
| | `FailureUndone`, `CrashNoticed`, given `Faults` within `refuse` and `save` | with `StrictInv` |
| `NetStateProgressProofs` | + `JournalGoesOnward` | `OnwardInv` |
| | + `ApplyGetsDone`, given finitely many peers and prefixes | with the measure `StepsLeft` |
| | + `StartUpGetsDone`, given finitely many interfaces and transactions | the measure `BootLeft` |
| `NegotiationProofs` | `TypeCorrect`, `KeysAgree`, `NobodyAlone`, `AnsweredOnlyOnce`, `Implements` | `NegotiationInv` |
| `SessionsProofs` | `TypeCorrect`, `SlotsBalance`, `ClaimsStayApart`, `RevokedCloses`, `RoamsStayApart`, + `OneWorkerAtATime`, + `HeldIsLostToSweepsOnly` | `SessionsInv` |
| | + `SessionsAreGranted`, + `TableIsBounded`, + `InterfacesStayApart` | with `HostInv` |
| | + `GrantDecides`, on `Policy` | none: for every configuration |
| `RoutingProofs` | `TypeCorrect`, `NoBlackHole`, `WindowKept`, `BestGetsIt` | `RoutingInv` |
| | + `NothingUnpermitted` | with `OnlyPermitted` |
| `RelaysProofs` | `TypeCorrect`, + `StoppedWaitsForNobody` | `RelaysInv` |
| | `HandsOnce`, given an inbox with room for the events | `HandedInv` |
| `ConnectivityProofs` | `TypeCorrect`, `NominatedWasProven`, `ExhaustedWasTried`, `ObservedWasAsked`, `LateProofIsTaken` | `ConnectivityInv` |
| | + `ChallengesAreFresh`, + `ChallengesAreBounded`, + `RunSpendsItsBudget` | with `OutstandingIsTried` and the measure `RunLeft` |

The inductive invariants of the properties that runs check are defined at the end
of their component's module, the others in the proof module; each was checked by TLC
on the component's instance before it was proved.

Assumptions.  Each module's `...Assumption` gives its constants their types;
`NoneAssumption` says that what stands for nil is none of the values it may stand
beside.  Beyond that: peers and relays are finitely many, as a configuration's
are; `Negotiation` has two nodes; peers of `Routing` are ordered, as keys are
(they break ties).  The theorems with hypotheses of their own are these:

* `OperatorsOwn` excludes a route the operator adds between a plan and its
  `Apply`.  With that race the property is false (section 3).
* `FailureUndone` and `CrashNoticed` are about an adapter whose calls fail as a
  whole and whose undo works, in a context nobody cancels, with any pattern of
  refused calls and failed saves and any number of crashes.  With partial calls,
  cancellation or failing undo they are false (section 3).
* `HandsOnce` supposes that the inbox need not evict: 10000 entries in the code,
  while an attempt sees the events of one peer within their validity.  An event
  that was evicted and is still on a relay is handed over again.

### NetState

`HostIsJournaled` relates the disk to the host, but what the next save writes is
in memory and what is removed next is in a listing, so it is not inductive.
`JournalInv` adds what is needed: the in-memory record covers what is on the
host (`MemoryCovers`), one `Apply` works on an interface at a time
(`RunsAlone`), the effect about to happen was journaled (`EffectJournaled`),
what compensation will spare is still there and not the transaction's own
(`ExistedKept`), so that sparing it does not journal as undone something the
transaction introduced; the link a transaction works on is there (`LinkHolds`)
and carries its peers and routes (`LinkCarries`), so that undoing the link
accounts for them; and start-up closes the journal only when no owned link is
left (`BootRemoves`).  The proof has one lemma per kind of step, and a lemma on
each way the record and the host change together.

`RollbackInv` adds four parts.  `StartsClean`: a start-up without errors left
nothing behind.  `UndoesOwn`: a rollback has only operations of its own plan to
undo.  `AppliedHeld`: what an `Apply` has applied is there until it fails.
`CommittedExisted`, the heart of `CommittedSurvives`: a later `Apply` on a link has
recorded as existing every peer it shares with the `Apply` that made the link, so
`compensate` spares it.  `OperatorExisted` says the same of the operator's routes.
`StrictInv` accounts for everything a transaction owns: it is marked applied, or
in hand, or on the list of what is to be undone (`OwnsAccounted`), and a record is
closed only by a commit or with nothing left (`ClosedHonestly`).  Since the 20 or
so steps of `Apply` change the state in a few ways only, each is first shown to
have one of four shapes (`Marks`, `Acts`, `Undoes`, `Closes`), and the invariants
are proved over the shapes.

`NetStateProgressProofs` is about what only moves forward.  `JournalOnward` says that
a record in the journal is only replaced by a later version of itself.  What is
written comes from memory, so `OnwardInv` adds that a running `Apply` has in memory a
later version than the disk has (`MemoryAhead`), also after saves that failed, and
that a rollback has only applied operations to undo (`UndoesApplied`).  `StepsLeft`
bounds the steps an `Apply` may still take: six for each operation it has not begun,
those left of the one in hand, one for each that a rollback would undo.  Each
step of the `Apply` lowers it and nothing beside it raises it.  `BootLeft` does the
same for the two passes of a start-up over interfaces and journal, which only a
crash sets back.

### Negotiation and Tunnel

`MirrorKeys` compares two nodes that may have got where they are by messages of
different attempts.  `NegotiationInv` therefore speaks of the messages, which are
never taken back: what each kind says of its sender (`MessagesSound`), that an
attempt makes one offer or accepts one, and never both (`OnePerAttempt`), and that
whoever agreed rests on an acceptance that was sent (`Knows`, `RestsOn`).  Two
agreements on one session then rest on the same acceptance.  `MirrorsRest` and
`Hosts` carry this over to interfaces, those that outlived their attempt or their
process included.  `OffersRecorded` ties offers to the record: what was offered is on
disk, and what is on disk is in memory while the process runs, but for the sessions
of which a write or a read failed (`lost`).

`Implements` proves `KeepsPromise`: under the mapping at the end of `Negotiation` an
initial state is one of `Tunnel`'s, and by the invariant each step is `Agree`,
`Configure`, `Establish` or `Leave` of one node, or changes nothing `Tunnel` knows of.
Both specifications are safety only.

### Sessions

`SlotsBalanced` is by cardinality, over any finite set of peers: a step of a
worker takes a slot, gives one back or does neither.  For the rest `SessionsInv`
says which workers are registered (`WorkersListed`) and permitted
(`WorkersPermitted`) at each point of a reload, that a worker between sessions
left at most a failed entry (`NothingOpen`), that the entry beside a worker that
holds, if it has one, is established (`HeldIsOwn`), and that a move being followed
was admitted (`RoamAdmitted`).

That a held session keeps its entry is false (`sessions_sweep`).
`HeldIsLostToSweepsOnly` is what is left of it, as a property of steps: an entry that
leaves a session which is held on leaves by the sweep's closing of that peer, and by
nothing else.

`HostInv` adds that an interface listens on the port its peer's claim names
(`OnItsSlot`), so that claims apart are interfaces apart, that the table keeps to its
limit (`EntriesBounded`), and that an attempt past `Begin` passed `Check` under the
configuration of its worker.  With `WorkersPermitted` that yields
`SessionsAreGranted`: the peer's own grant permits the session and, between reloads,
so does the configuration in force.  A peer that only a group permits is started a
worker by the service and refused by the driver at every attempt (section 3); the
theorem is the other side of that.  `GrantDecides` compares the two decisions for every
configuration: for a peer with a grant they differ only where the grant routes
nothing, and a revoked grant outweighs every group.

### Routing

The action properties follow from `TypeOK` and `AtIsSince`: the time the table
keeps with a selection is when the destination last changed hands.  That
`BestFor`, a `CHOOSE`, finds a best offer needs that the least metric exists, and
among those offering it the least peer, which is proved from the
well-foundedness of the naturals.

`OnlyPermitted` follows a destination from the announcement through offer,
selection and the loop's work list to the kernel.  For offers and selections it
names the peer policy permits.  For the kernel it cannot: a loop installs what was
selected for another session on its own interface (section 3), so all that holds is
that the destination is one policy permits to somebody, and none that is a martian.

### Relays

`StoppedWaitsForNobody` is the part of `StopEndsPublish` that is not about fairness: a
publication asks every relay at once, and with its worker's context every answer
still owed is given up, those of connections lost in between too.  `HandedInv` says that
the inbox holds no event twice and that an event without a rival for its position
is once on its way to the reader, or was read once, and is remembered either way.

### Connectivity

`ConnectivityInv` ties every response, in the net, kept or queued, to an answer of
the peer's (`ResponsesSent`) and every answer to a candidate that still has the
address that was probed, and to a challenge that stays outstanding until a path
is nominated (`AnswersSound`).  The limits of the engine have to hold for offers
of any length: `AddAll` is a recursive function, and `LoopExists`, `AddAllIsLoop`
and `AddAllKeeps` are inductions over its steps, by least counterexample.

`Tried` is the set of challenges counted so far, by candidate and attempt.  It only
grows, what is outstanding is in it, and a challenge that is sent was not in it
before: naming a challenge by candidate and attempt, where the code draws a
random nonce, confuses no two of them.  Its size is at most `MaxCandidates` times
`MaxAttempts`, whatever the peer suggests.  `RunLeft` counts the steps left until the
run ends: candidates learned on the way do not raise it, since it counts the
budget and not the candidates.

### Only model-checked

The liveness properties (`ApplyTerminates`, `ServiceReturns`, `ReloadEnds`,
`NeverLockedOut`, `Delivered`, `StopEndsPublish`, `RunEnds`): fairness and `ENABLED`
are out of the prover's reach.  For three of them,
`ApplyTerminates`, `ServiceReturns` and `RunEnds`, the part that is not about fairness is
proved: a measure in the naturals that every step of the process lowers and only
a crash raises.  What stays with TLC is that some step remains possible until the
end, and is taken.  For `StopEndsPublish` the state the one fair step needs is proved to
be there.  For the others no measure is given: they rest on strong fairness or on
the progress of other processes.

## 5. Not modelled

The plan's modules are built and its theorems proved.  Not modelled:

* the codec, configuration, command line, control socket and logging: no state
  that outlives a call, or none that another component reads;
* overlay allocation: arithmetic on one peer's key, covered by unit tests;
* the manual tunnel: a plan and an `Apply`, which is `NetState`'s;
* the cryptographic primitives and the identity store, taken as sound;
* sequence numbers of the handshake: a responder hands it a request and an
  acceptance, numbered apart by their sender, an initiator one offer, so
  `recordSeq` never meets a number twice.
