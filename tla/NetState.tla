------------------------------ MODULE NetState ------------------------------
(***************************************************************************)
(* Transactional changes to the host (internal/netstate), the WireGuard    *)
(* adapter they drive (internal/wireguard) and the recovery an orchestrator*)
(* runs at start-up (internal/orchestrator/reconcile.go).                  *)
(*                                                                         *)
(* A transaction Tx applies a plan to one interface.  Each operation is    *)
(* journaled as applying, takes effect on the host in the adapter's own    *)
(* sub-steps, and is journaled as applied.  A failure compensates the      *)
(* applied operations in reverse.  The process may die between any two     *)
(* steps: mem, pc and the rest of a transaction's run are lost, the host   *)
(* and the journal are not.                                                *)
(*                                                                         *)
(* Every resource on the host carries the transaction that introduced it,  *)
(* which the kernel does not record: it is what the properties speak of.   *)
(***************************************************************************)
EXTENDS Naturals, FiniteSets

CONSTANTS
    Tx,          \* transaction ids, drawn at random by the code and never reused
    Iface,       \* interface names
    Foreign,     \* the names without NostMesh's prefix: the operator's own
    Peer,        \* peers, by tunnel public key
    Prefix,      \* announced destinations, routed by transactions of their own
    None,        \* no transaction: the resource is absent
    Operator,    \* the resource was put there by the operator
    Faults,      \* the failures the environment may produce
    OperatorRaces, \* the operator may also act while a transaction runs
    MaxCrashes   \* bound on process crashes

ASSUME NetStateAssumption ==
    /\ Foreign \subseteq Iface
    /\ Faults \subseteq {"refuse", "partial", "save", "cancel", "undo", "boot"}
    /\ OperatorRaces \in BOOLEAN
    /\ MaxCrashes \in Nat
    /\ None \notin Tx /\ Operator \notin Tx /\ None # Operator
    /\ Peer \cap Prefix = {}
    /\ (Peer \cup Prefix) \cap {"create", "configure", "linkup", "address"} = {}

VARIABLES
    res,       \* [Iface -> [Resource -> Owner]]: links, peers and routes on the host
    proute,    \* [Iface -> SUBSET Peer]: peers whose allowed prefixes are routed
    dev,       \* [Iface -> [cfg: Owner, up: BOOLEAN]]: device configuration, link state
    disk,      \* the journal directory: one durable record per transaction
    mem,       \* the *Transaction each Apply is working on
    plan,      \* the plan each transaction executes
    pc,        \* where each Apply stands
    cur,       \* the operation each Apply is executing
    todo,      \* what is left of each Apply's compensation order
    cancelled, \* whether each Apply's context is cancelled
    proc,      \* what the process is doing
    listed,    \* what is left of the listing a recovery pass walks
    clean,     \* the start-up's Down returned no error
    crashes    \* crashes so far

hostVars == <<res, proute, dev>>
runVars  == <<mem, plan, pc, cur, todo, cancelled>>
bootVars == <<proc, listed, clean>>
vars     == <<hostVars, disk, runVars, bootVars, crashes>>
-----------------------------------------------------------------------------
(* OperationKind and target, as one name: "create" is create_interface on  *)
(* the plan's interface, a peer is apply_peer, a prefix is add_route.      *)
IfaceOp == {"create", "configure", "linkup", "address"}

Op == IfaceOp \cup Peer \cup Prefix

(* The operations that introduce something: undo is a no-op for the rest.  *)
Resource == {"create"} \cup Peer \cup Prefix

Owner == Tx \cup {None, Operator}

Status == {"none", "planned", "applying", "applied", "failed", "rolledback"}

(* Transaction: a status per operation, EndedAt and Committed.             *)
Record == [status : [Op -> Status], ended : BOOLEAN, committed : BOOLEAN]

NoRecord == [status |-> [o \in Op |-> "none"], ended |-> FALSE, committed |-> FALSE]

NoPlan == [iface |-> None, existed |-> {}]

EffectSteps == {"link", "config", "up", "observe", "peer", "peerroute", "route"}

Steps == EffectSteps \cup {"none", "next", "complete", "undo", "ok", "err"}

Boot == {"down", "recover", "recoverRemove", "recoverJournal",
         "teardown", "teardownRemove", "teardownJournal", "serving"}

(* The order Apply works in.                                               *)
Rank(o) == CASE o = "create"    -> 1
             [] o = "configure" -> 2
             [] o = "linkup"    -> 3
             [] o = "address"   -> 4
             [] o \in Peer      -> 5
             [] OTHER           -> 6

(* The order of the plan, where addresses precede linkup: CompensationOrder*)
(* walks it backwards.                                                     *)
PlanRank(o) == CASE o = "linkup"  -> 4
                 [] o = "address" -> 3
                 [] OTHER         -> Rank(o)

OwnsInterface(i) == i \notin Foreign

\* Mutant: only an operation caught in flight counts.
NeedsRecoveryInFlight(rec) == \E o \in Op : rec.status[o] = "applying"

(* Transaction.NeedsRecovery                                               *)
NeedsRecovery(rec) ==
    /\ rec # NoRecord
    /\ \/ ~rec.ended
       \/ \E o \in Op : rec.status[o] = "applying"

\* Mutant: a closed record is never looked into.
PendingUnended == {t \in Tx : disk[t] # NoRecord /\ ~disk[t].ended}

(* JournalStore.PendingRecovery: read from the directory.                  *)
PendingRecovery == {t \in Tx : NeedsRecovery(disk[t])}

\* Mutant: the name's prefix is not looked at.
ListAllInterfaces == {i \in Iface : res[i]["create"] # None}

(* Adapter.ListOwnedInterfaces                                             *)
ListOwnedInterfaces == {i \in Iface : OwnsInterface(i) /\ res[i]["create"] # None}

Running(t) == pc[t] \notin {"none", "ok", "err"}

Busy(i) == \E t \in Tx : Running(t) /\ plan[t].iface = i

TypeOK ==
    /\ res \in [Iface -> [Resource -> Owner]]
    /\ proute \in [Iface -> SUBSET Peer]
    /\ dev \in [Iface -> [cfg : Owner, up : BOOLEAN]]
    /\ disk \in [Tx -> Record]
    /\ mem \in [Tx -> Record]
    /\ plan \in [Tx -> [iface : Iface \cup {None}, existed : SUBSET Op]]
    /\ pc \in [Tx -> Steps]
    /\ cur \in [Tx -> Op]
    /\ todo \in [Tx -> SUBSET Op]
    /\ cancelled \in [Tx -> BOOLEAN]
    /\ proc \in Boot
    /\ listed \in SUBSET Iface
    /\ clean \in BOOLEAN
    /\ crashes \in 0..MaxCrashes

(* A host carrying only the operator's interfaces, and an empty journal.   *)
Init ==
    /\ res = [i \in Iface |-> [r \in Resource |->
                IF i \in Foreign /\ r = "create" THEN Operator ELSE None]]
    /\ proute = [i \in Iface |-> {}]
    /\ dev = [i \in Iface |-> IF i \in Foreign
                THEN [cfg |-> Operator, up |-> TRUE] ELSE [cfg |-> None, up |-> FALSE]]
    /\ disk = [t \in Tx |-> NoRecord]
    /\ mem = [t \in Tx |-> NoRecord]
    /\ plan = [t \in Tx |-> NoPlan]
    /\ pc = [t \in Tx |-> "none"]
    /\ cur = [t \in Tx |-> "create"]
    /\ todo = [t \in Tx |-> {}]
    /\ cancelled = [t \in Tx |-> FALSE]
    /\ proc = "down"
    /\ listed = {}
    /\ clean = FALSE
    /\ crashes = 0
-----------------------------------------------------------------------------
(* Journal writes.  Save replaces the file by rename and then syncs the    *)
(* directory, so a failed save may or may not have replaced it.            *)
Save(t, rec) == disk' = [disk EXCEPT ![t] = rec]

SaveFails(t, rec) == "save" \in Faults /\ (Save(t, rec) \/ UNCHANGED disk)

(* The deferred rollback: CompensationOrder is taken from the record as it *)
(* stands.                                                                 *)
Fail(t, rec) ==
    /\ pc' = [pc EXCEPT ![t] = "undo"]
    /\ todo' = [todo EXCEPT ![t] = {o \in Op : rec.status[o] = "applied"}]

Goto(t, step) == pc' = [pc EXCEPT ![t] = step] /\ UNCHANGED todo

SetStatus(rec, o, s) == [rec EXCEPT !.status[o] = s]

(* The step that starts an operation's effect: EnsureInterface does all of *)
(* the interface's operations at once, when it is created.                 *)
FirstStep(o) == CASE o = "create"  -> "link"
                  [] o \in Peer   -> "peer"
                  [] o \in Prefix -> "route"
                  [] OTHER        -> "complete"

(* PlanInterface: what the host already carries is recorded per operation. *)
Existing(i, ops) ==
    IF res[i]["create"] = None THEN {}
    ELSE {o \in ops : IF o \in Resource THEN res[i][o] # None
                      ELSE o = "address" => dev[i].cfg # None}

(* Apply up to its first save, with the plan just built from the host.     *)
StartApply(t, i, ops) ==
    LET rec == [NoRecord EXCEPT !.status =
                  [o \in Op |-> IF o \in ops THEN "planned" ELSE "none"]]
    IN  /\ proc = "serving"
        /\ pc[t] = "none" /\ disk[t] = NoRecord
        /\ OwnsInterface(i) /\ ~Busy(i)
        /\ plan' = [plan EXCEPT ![t] = [iface |-> i, existed |-> Existing(i, ops)]]
        /\ mem' = [mem EXCEPT ![t] = rec]
        /\ \/ Save(t, rec) /\ Goto(t, "next")
           \/ SaveFails(t, rec) /\ Goto(t, "err")
        /\ UNCHANGED <<hostVars, cur, cancelled, bootVars, crashes>>

ApplyInterface(t) ==
    \E i \in Iface, peers \in SUBSET Peer \ {{}} : StartApply(t, i, IfaceOp \cup peers)

(* PlanRoutes refuses an interface that is not there.                      *)
ApplyRoutes(t) ==
    \E i \in Iface, prefixes \in SUBSET Prefix \ {{}} :
        res[i]["create"] # None /\ StartApply(t, i, prefixes)

(* Manager.begin for the next planned operation.                           *)
Begin(t) ==
    /\ proc = "serving" /\ pc[t] = "next"
    /\ \E o \in Op :
        LET rec == SetStatus(mem[t], o, "applying")
        IN  /\ mem[t].status[o] = "planned"
            /\ \A q \in Op : mem[t].status[q] = "planned" => Rank(o) <= Rank(q)
            /\ cur' = [cur EXCEPT ![t] = o]
            /\ mem' = [mem EXCEPT ![t] = rec]
            /\ \/ Save(t, rec) /\ Goto(t, FirstStep(o))
               \/ SaveFails(t, rec) /\ Fail(t, rec)
    /\ UNCHANGED <<hostVars, plan, cancelled, bootVars, crashes>>

(* Manager.complete                                                        *)
Complete(t) ==
    LET rec == SetStatus(mem[t], cur[t], "applied")
    IN  /\ proc = "serving" /\ pc[t] = "complete"
        /\ mem' = [mem EXCEPT ![t] = rec]
        /\ \/ Save(t, rec) /\ Goto(t, "next")
           \/ SaveFails(t, rec) /\ Fail(t, rec)
        /\ UNCHANGED <<hostVars, plan, cur, cancelled, bootVars, crashes>>

(* The end of Apply: every planned operation is applied.                   *)
Commit(t) ==
    LET rec == [mem[t] EXCEPT !.ended = TRUE, !.committed = TRUE]
    IN  /\ proc = "serving" /\ pc[t] = "next"
        /\ \A o \in Op : mem[t].status[o] # "planned"
        /\ mem' = [mem EXCEPT ![t] = rec]
        /\ \/ Save(t, rec) /\ Goto(t, "ok")
           \/ SaveFails(t, rec) /\ Fail(t, rec)
        /\ UNCHANGED <<hostVars, plan, cur, cancelled, bootVars, crashes>>
-----------------------------------------------------------------------------
(* The adapter's effects, one sub-step at a time: a crash or a refusal may *)
(* fall between them.                                                      *)
Effect(t, from, to) ==
    /\ proc = "serving" /\ pc[t] = from
    /\ Goto(t, to)
    /\ UNCHANGED <<disk, mem, plan, cur, cancelled, bootVars, crashes>>

Introduce(t, r) ==
    LET i == plan[t].iface
    IN  res' = [res EXCEPT ![i][r] = IF @ = None THEN t ELSE @]

(* ensureLink                                                              *)
EnsureLink(t) ==
    /\ ~cancelled[t]
    /\ Effect(t, "link", "config")
    /\ Introduce(t, "create")
    /\ UNCHANGED <<proute, dev>>

(* configureDevice, ensureAddresses and the MTU.                           *)
ConfigureDevice(t) ==
    /\ Effect(t, "config", "up")
    /\ dev' = [dev EXCEPT ![plan[t].iface].cfg = t]
    /\ UNCHANGED <<res, proute>>

(* LinkSetUp                                                               *)
LinkSetUp(t) ==
    /\ Effect(t, "up", "observe")
    /\ dev' = [dev EXCEPT ![plan[t].iface].up = TRUE]
    /\ UNCHANGED <<res, proute>>

(* EnsureInterface ends by observing what it made.                         *)
ObserveInterface(t) ==
    /\ ~cancelled[t]
    /\ Effect(t, "observe", "complete")
    /\ UNCHANGED hostVars

(* ApplyPeer: the peer first, the routes to its prefixes after it.         *)
ApplyPeer(t) ==
    /\ ~cancelled[t]
    /\ Effect(t, "peer", "peerroute")
    /\ Introduce(t, cur[t])
    /\ UNCHANGED <<proute, dev>>

EnsurePeerRoutes(t) ==
    /\ Effect(t, "peerroute", "complete")
    /\ proute' = [proute EXCEPT ![plan[t].iface] = @ \cup {cur[t]}]
    /\ UNCHANGED <<res, dev>>

(* AddRoute: an identical route already present is not an error.           *)
AddRoute(t) ==
    /\ ~cancelled[t]
    /\ Effect(t, "route", "complete")
    /\ Introduce(t, cur[t])
    /\ UNCHANGED <<proute, dev>>

(* An adapter call returns an error: the kernel refused its first step or  *)
(* a later one, or the context was cancelled where the adapter looks.      *)
EffectRefused(t) ==
    \/ pc[t] \in {"link", "peer", "route"} /\ ("refuse" \in Faults \/ cancelled[t])
    \/ pc[t] \in {"config", "up", "observe", "peerroute"} /\ "partial" \in Faults
    \/ pc[t] = "observe" /\ cancelled[t]

EffectFails(t) ==
    LET rec == SetStatus(mem[t], cur[t], "failed")
    IN  /\ proc = "serving" /\ EffectRefused(t)
        /\ mem' = [mem EXCEPT ![t] = rec]
        /\ (Save(t, rec) \/ SaveFails(t, rec))
        /\ Fail(t, rec)
        /\ UNCHANGED <<hostVars, plan, cur, cancelled, bootVars, crashes>>
-----------------------------------------------------------------------------
(* Removing an interface takes its device, peers and routes with it.       *)
RemoveInterface(i) ==
    /\ res' = [res EXCEPT ![i] = [r \in Resource |-> None]]
    /\ proute' = [proute EXCEPT ![i] = {}]
    /\ dev' = [dev EXCEPT ![i] = [cfg |-> None, up |-> FALSE]]

(* RemovePeer takes the peer's routes out first.                           *)
RemovePeer(i, p) ==
    /\ res' = [res EXCEPT ![i][p] = None]
    /\ proute' = [proute EXCEPT ![i] = @ \ {p}]
    /\ UNCHANGED dev

RemoveRoute(i, d) ==
    /\ res' = [res EXCEPT ![i][d] = None]
    /\ UNCHANGED <<proute, dev>>

\* Mutant: peers are left to the removal of their interface.
UndoneButPeers(i, o) ==
    CASE o = "create"  -> RemoveInterface(i)
      [] o \in Prefix -> RemoveRoute(i, o)
      [] OTHER        -> UNCHANGED hostVars

(* Manager.undo, where the adapter does what it is asked.                  *)
Undone(i, o) ==
    CASE o = "create"  -> RemoveInterface(i)
      [] o \in Peer   -> RemovePeer(i, o)
      [] o \in Prefix -> RemoveRoute(i, o)
      [] OTHER        -> UNCHANGED hostVars

(* What undo leaves when the adapter refuses or the context is cancelled;  *)
(* RemovePeer may have removed the routes already.                         *)
NotUndone(t, i, o) ==
    /\ o \in Resource
    /\ \/ (cancelled[t] \/ "undo" \in Faults) /\ UNCHANGED hostVars
       \/ /\ o \in Peer /\ ~cancelled[t] /\ "undo" \in Faults
          /\ proute' = [proute EXCEPT ![i] = @ \ {o}]
          /\ UNCHANGED <<res, dev>>

\* Mutant: Existed is not consulted.
NothingSpared(t, o) == FALSE

(* compensate leaves alone what existed before the transaction.            *)
Spared(t, o) == o \in plan[t].existed

(* One turn of compensate: a problem is collected and the walk goes on.    *)
Compensate(t) ==
    /\ proc = "serving" /\ pc[t] = "undo"
    /\ \E o \in todo[t] :
        LET i == plan[t].iface
            rolledBack == mem' = [mem EXCEPT ![t] = SetStatus(@, o, "rolledback")]
        IN  /\ \A q \in todo[t] : PlanRank(q) <= PlanRank(o)
            /\ todo' = [todo EXCEPT ![t] = @ \ {o}]
            /\ \/ Spared(t, o) /\ rolledBack /\ UNCHANGED hostVars
               \/ /\ ~Spared(t, o) /\ rolledBack
                  /\ (~cancelled[t] \/ o \notin Resource) /\ Undone(i, o)
               \/ ~Spared(t, o) /\ NotUndone(t, i, o) /\ UNCHANGED mem
    /\ UNCHANGED <<disk, plan, pc, cur, cancelled, bootVars, crashes>>

\* Mutant: the rollback insists on having undone everything.
FullyCompensated(t) == todo[t] = {} /\ \A o \in Op : mem[t].status[o] # "applied"

(* compensate goes through its list once, problems or not.                 *)
Compensated(t) == todo[t] = {}

(* The end of the deferred rollback; the last save's error is dropped.     *)
Close(t) ==
    LET rec == [mem[t] EXCEPT !.ended = TRUE]
    IN  /\ proc = "serving" /\ pc[t] = "undo" /\ Compensated(t)
        /\ mem' = [mem EXCEPT ![t] = rec]
        /\ (Save(t, rec) \/ SaveFails(t, rec))
        /\ Goto(t, "err")
        /\ UNCHANGED <<hostVars, plan, cur, cancelled, bootVars, crashes>>

(* The worker is stopped while its Apply runs.                             *)
Cancel(t) ==
    /\ proc = "serving" /\ "cancel" \in Faults
    /\ Running(t) /\ ~cancelled[t]
    /\ cancelled' = [cancelled EXCEPT ![t] = TRUE]
    /\ UNCHANGED <<hostVars, disk, mem, plan, pc, cur, todo, bootVars, crashes>>

(* Manager.Remove: the driver tears a session's interface down.            *)
Remove(i) ==
    /\ proc = "serving" /\ OwnsInterface(i) /\ ~Busy(i)
    /\ res[i]["create"] # None
    /\ RemoveInterface(i)
    /\ UNCHANGED <<disk, runVars, bootVars, crashes>>

(* Manager.RemoveRoute: a route is withdrawn, outside any transaction.     *)
WithdrawRoute(i, d) ==
    /\ proc = "serving" /\ OwnsInterface(i) /\ ~Busy(i)
    /\ res[i][d] # None
    /\ RemoveRoute(i, d)
    /\ UNCHANGED <<disk, runVars, bootVars, crashes>>

(* The operator routes a destination through an interface of NostMesh's.   *)
OperatorRoute(i, d) ==
    /\ OwnsInterface(i) /\ res[i]["create"] # None /\ res[i][d] = None
    /\ OperatorRaces \/ ~Busy(i)
    /\ res' = [res EXCEPT ![i][d] = Operator]
    /\ UNCHANGED <<proute, dev, disk, runVars, bootVars, crashes>>
-----------------------------------------------------------------------------
(* Start-up: Recover, then Down.  An error ends the pass it occurs in and  *)
(* the service goes on.                                                    *)
GotoBoot(b) == proc' = b /\ UNCHANGED clean

BootUnchanged == UNCHANGED <<runVars, crashes>>

Start ==
    /\ proc = "down"
    /\ proc' = "recover" /\ clean' = FALSE
    /\ UNCHANGED <<hostVars, disk, runVars, listed, crashes>>

(* Recover: nothing pending leaves the host alone.                         *)
Recover ==
    /\ proc = "recover"
    /\ \/ PendingRecovery = {} /\ GotoBoot("teardown") /\ UNCHANGED listed
       \/ /\ PendingRecovery # {} /\ GotoBoot("recoverRemove")
          /\ listed' = ListOwnedInterfaces
       \/ "boot" \in Faults /\ GotoBoot("teardown") /\ UNCHANGED listed
    /\ UNCHANGED <<hostVars, disk>> /\ BootUnchanged

\* Mutant: Down trusts the journal to know what is on the host.
TeardownPending ==
    /\ proc = "teardown"
    /\ GotoBoot("teardownRemove")
    /\ listed' = IF PendingRecovery = {} THEN {} ELSE ListOwnedInterfaces
    /\ UNCHANGED <<hostVars, disk>> /\ BootUnchanged

(* Down: lists whatever the journal says.                                  *)
Teardown ==
    /\ proc = "teardown"
    /\ \/ GotoBoot("teardownRemove") /\ listed' = ListOwnedInterfaces
       \/ "boot" \in Faults /\ GotoBoot("serving") /\ UNCHANGED listed
    /\ UNCHANGED <<hostVars, disk>> /\ BootUnchanged

\* Mutant: an interface that would not go away is only logged.
JournalAfterError(b) ==
    CASE b = "recoverRemove"  -> "recoverJournal"
      [] b = "teardownRemove" -> "teardownJournal"
      [] b = "recoverJournal" -> "teardown"
      [] OTHER                -> "serving"

\* Mutant: a recovery that failed is tried again.
RetryAfterError(b) == IF b \in {"recoverRemove", "recoverJournal"} THEN "recover" ELSE "serving"

(* The pass that follows a failed one: Down after Recover, then serving.   *)
AfterError(b) == IF b \in {"recoverRemove", "recoverJournal"} THEN "teardown" ELSE "serving"

(* removeOne over the listing: the interface may have gone in the meantime.*)
RemoveOne ==
    /\ proc \in {"recoverRemove", "teardownRemove"}
    /\ \E i \in listed :
        \/ /\ RemoveInterface(i) /\ listed' = listed \ {i}
           /\ UNCHANGED <<proc, clean>>
        \/ /\ "boot" \in Faults
           /\ GotoBoot(AfterError(proc)) /\ listed' = {} /\ UNCHANGED hostVars
    /\ UNCHANGED disk /\ BootUnchanged

RemovedAll ==
    /\ proc \in {"recoverRemove", "teardownRemove"} /\ listed = {}
    /\ proc' = IF proc = "recoverRemove" THEN "recoverJournal" ELSE "teardownJournal"
    /\ UNCHANGED <<hostVars, disk, listed, clean>> /\ BootUnchanged

\* Mutant: a status of its own for what recovery removed.
ReconciledAsRecovered(rec) ==
    [rec EXCEPT !.ended = TRUE,
                !.status = [o \in Op |-> IF rec.status[o] \in {"applied", "applying"}
                                          THEN "recovered" ELSE rec.status[o]]]

(* reconcileJournal marks what reached the kernel and closes the record.   *)
Reconciled(rec) ==
    [rec EXCEPT !.ended = TRUE,
                !.status = [o \in Op |-> IF rec.status[o] \in {"applied", "applying"}
                                          THEN "rolledback" ELSE rec.status[o]]]

ReconcileJournal ==
    /\ proc \in {"recoverJournal", "teardownJournal"}
    /\ \E t \in PendingRecovery :
        \/ Save(t, Reconciled(disk[t])) /\ UNCHANGED <<proc, clean>>
        \/ /\ SaveFails(t, Reconciled(disk[t]))
           /\ GotoBoot(AfterError(proc))
    /\ UNCHANGED <<hostVars, listed>> /\ BootUnchanged

ReconciledAll ==
    /\ proc \in {"recoverJournal", "teardownJournal"} /\ PendingRecovery = {}
    /\ proc' = AfterError(proc) /\ clean' = (proc = "teardownJournal")
    /\ UNCHANGED <<hostVars, disk, listed>> /\ BootUnchanged

(* reconcileJournal cannot read the journal.                               *)
JournalUnreadable ==
    /\ proc \in {"recoverJournal", "teardownJournal"} /\ "boot" \in Faults
    /\ GotoBoot(AfterError(proc))
    /\ UNCHANGED <<hostVars, disk, listed>> /\ BootUnchanged

(* The process dies, or is stopped, anywhere.                              *)
Crash ==
    /\ proc # "down" /\ crashes < MaxCrashes
    /\ proc' = "down" /\ listed' = {} /\ clean' = FALSE
    /\ crashes' = crashes + 1
    /\ mem' = [t \in Tx |-> NoRecord]
    /\ pc' = [t \in Tx |-> "none"]
    /\ todo' = [t \in Tx |-> {}]
    /\ cancelled' = [t \in Tx |-> FALSE]
    /\ plan' = [t \in Tx |-> NoPlan]
    /\ cur' = [t \in Tx |-> "create"]
    /\ UNCHANGED <<hostVars, disk>>
-----------------------------------------------------------------------------
ApplyStep(t) ==
    \/ Begin(t) \/ Complete(t) \/ Commit(t)
    \/ EnsureLink(t) \/ ConfigureDevice(t) \/ LinkSetUp(t) \/ ObserveInterface(t)
    \/ ApplyPeer(t) \/ EnsurePeerRoutes(t) \/ AddRoute(t)
    \/ EffectFails(t) \/ Compensate(t) \/ Close(t)

BootStep == Start \/ Recover \/ Teardown \/ RemoveOne \/ RemovedAll
            \/ ReconcileJournal \/ ReconciledAll \/ JournalUnreadable

Next ==
    \/ \E t \in Tx : ApplyInterface(t) \/ ApplyRoutes(t) \/ ApplyStep(t) \/ Cancel(t)
    \/ \E i \in Iface : Remove(i) \/ \E d \in Prefix : WithdrawRoute(i, d) \/ OperatorRoute(i, d)
    \/ BootStep
    \/ Crash

Spec == Init /\ [][Next]_vars

(* Apply and start-up run on goroutines of their own and wait only for the *)
(* kernel and the disk: neither stops half-way for ever.                   *)
Fairness == WF_vars(BootStep) /\ \A t \in Tx : WF_vars(ApplyStep(t))

FairSpec == Spec /\ Fairness
-----------------------------------------------------------------------------
(* Nothing this project put on the host is unknown to the journal: a link, *)
(* a peer or a route that a transaction introduced is recorded on disk as  *)
(* applying, applied or failed, whatever crashed or failed since, and      *)
(* never as planned or rolled back (Manager.begin saves before the effect, *)
(* compensate marks after the undo, reconcileJournal after the removal).   *)
HostIsJournaled ==
    \A t \in Tx, i \in Iface, r \in Resource :
        res[i][r] = t => disk[t].status[r] \in {"applying", "applied", "failed"}

(* After a start-up whose Down reported no error, every interface of       *)
(* NostMesh's on the host was created by this process: what earlier runs   *)
(* left, committed or not, is gone (recoverHostState).                     *)
NoOrphans ==
    proc = "serving" /\ clean =>
        \A i \in Iface : OwnsInterface(i) =>
            \/ res[i]["create"] = None
            \/ \E t \in Tx : res[i]["create"] = t /\ pc[t] # "none"

(* ... and no transaction of an earlier run is still reported as pending.  *)
NoStalePending ==
    proc = "serving" /\ clean =>
        \A t \in Tx : pc[t] = "none" => ~NeedsRecovery(disk[t])

(* A successful Apply stays whole while its interface exists: no failure,  *)
(* rollback or cancellation of a later transaction on the interface takes  *)
(* away a peer it applied, or the routes to it (Existed, compensate).      *)
CommittedSurvives ==
    \A t \in Tx, i \in Iface :
        res[i]["create"] = t /\ pc[t] = "ok" =>
            \A p \in Peer : mem[t].status[p] = "applied" =>
                res[i][p] # None /\ p \in proute[i]

(* Apply's contract, for what it introduces: when it returns an error,     *)
(* nothing it introduced is on the host.                                   *)
FailedLeavesNothing ==
    \A t \in Tx, i \in Iface, r \in Resource : pc[t] = "err" => res[i][r] # t

(* A link whose transaction died with its process is either committed or   *)
(* reported by PendingRecovery: no interrupted apply goes unnoticed.       *)
JournalTellsCrash ==
    \A t \in Tx, i \in Iface :
        res[i]["create"] = t /\ pc[t] = "none" =>
            NeedsRecovery(disk[t]) \/ disk[t].committed

(* A step that leaves the operator's interfaces and routes as they are.    *)
LeavesOperators ==
    /\ \A i \in Foreign : res'[i] = res[i] /\ dev'[i] = dev[i]
    /\ \A i \in Iface, d \in Prefix :
          res[i][d] = Operator /\ res'[i][d] # Operator =>
              res'[i]["create"] = None \/ WithdrawRoute(i, d)

(* The operator's own interfaces are never touched, and what the operator  *)
(* added to an interface of NostMesh's is not undone by a transaction: it  *)
(* goes only with the interface, or by an explicit withdrawal.             *)
OperatorUntouched == [][LeavesOperators]_vars

(* Every Apply ends, unless the process dies: compensation that meets an   *)
(* error still finishes.                                                   *)
ApplyTerminates == \A t \in Tx : pc[t] = "next" ~> ~Running(t)

(* A process that dies comes back to serving: an error while recovering    *)
(* does not keep the service down.                                         *)
ServiceReturns == proc = "down" ~> proc = "serving"
-----------------------------------------------------------------------------
(* The strengthening under which HostIsJournaled is inductive.             *)
Reached == {"applying", "applied", "failed"}

(* What a running Apply introduced is on its own interface, and its record *)
(* in memory, which later saves write, says so.                            *)
MemoryCovers ==
    \A t \in Tx, i \in Iface, r \in Resource :
        Running(t) /\ res[i][r] = t => i = plan[t].iface /\ mem[t].status[r] \in Reached

(* One Apply at a time works on an interface, one of NostMesh's, and only  *)
(* in a process that is serving.                                           *)
RunsAlone ==
    /\ \A t \in Tx : Running(t) =>
          proc = "serving" /\ plan[t].iface \in Iface \ Foreign
    /\ \A t, u \in Tx :
          Running(t) /\ Running(u) /\ plan[t].iface = plan[u].iface => t = u

(* An effect that introduces something was journaled before it.            *)
EffectJournaled ==
    \A t \in Tx :
        /\ pc[t] \in EffectSteps \cup {"complete"} =>
              mem[t].status[cur[t]] = "applying" /\ mem[t].status["create"] # "planned"
        /\ pc[t] \in {"link", "peer", "route"} => disk[t].status[cur[t]] = "applying"
        /\ pc[t] = "link" => cur[t] = "create"
        /\ pc[t] \in {"peer", "peerroute"} => cur[t] \in Peer
        /\ pc[t] = "route" => cur[t] \in Prefix

(* What existed before a running Apply is still there, and not its own.    *)
ExistedKept ==
    \A t \in Tx : Running(t) =>
        /\ \A r \in Resource : r \in plan[t].existed =>
              res[plan[t].iface][r] # None /\ res[plan[t].iface][r] # t
        /\ mem[t].status["create"] # "none" /\ "create" \notin plan[t].existed
              => plan[t].existed = {}
        /\ pc[t] = "undo" /\ "create" \in todo[t] => mem[t].status["create"] # "none"

(* An Apply past the creation of its link works on a link that is there.   *)
LinkHolds ==
    \A t \in Tx :
        Running(t) /\ pc[t] \notin {"undo", "link"} /\ mem[t].status["create"] # "planned"
            => res[plan[t].iface]["create"] # None

(* Peers and routes need their link; nothing of NostMesh's is elsewhere.   *)
LinkCarries ==
    /\ \A i \in Iface, r \in Resource : res[i]["create"] = None => res[i][r] = None
    /\ \A i \in Foreign, r \in Resource : res[i][r] \notin Tx

(* A start-up pass reaches the journal only once every link is removed.    *)
BootRemoves ==
    \A i \in Iface \ Foreign : res[i]["create"] # None =>
        /\ proc \in {"recoverRemove", "teardownRemove"} => i \in listed
        /\ proc \notin {"recoverJournal", "teardownJournal"}

JournalInv ==
    /\ TypeOK /\ HostIsJournaled /\ MemoryCovers /\ RunsAlone /\ EffectJournaled
    /\ ExistedKept /\ LinkHolds /\ LinkCarries /\ BootRemoves
-----------------------------------------------------------------------------
(* The strengthening under which the other invariants are inductive, given *)
(* JournalInv.  What a start-up without errors left behind is this run's.  *)
StartsClean ==
    /\ clean => proc = "serving"
    /\ listed \subseteq Iface \ Foreign
    /\ \A i \in Iface \ Foreign : res[i]["create"] # Operator
    /\ clean => \A t \in Tx : pc[t] = "none" =>
          /\ ~NeedsRecovery(disk[t])
          /\ \A i \in Iface \ Foreign : res[i]["create"] # t

(* A rollback undoes operations of its own plan.                           *)
UndoesOwn ==
    \A t \in Tx :
        /\ pc[t] # "undo" => todo[t] = {}
        /\ \A o \in todo[t] : mem[t].status[o] # "none"

Held(i, p) == res[i][p] # None /\ p \in proute[i]

(* The peers an Apply has applied are there until it fails: nobody else    *)
(* works on its interface.                                                 *)
AppliedHeld ==
    \A t \in Tx : Running(t) /\ pc[t] # "undo" =>
        /\ \A p \in Peer : mem[t].status[p] = "applied" => Held(plan[t].iface, p)
        /\ pc[t] \in {"link", "config", "up", "observe"} => cur[t] = "create"
        /\ pc[t] = "peerroute" => res[plan[t].iface][cur[t]] # None
        /\ pc[t] = "complete" /\ cur[t] \in Peer => Held(plan[t].iface, cur[t])

(* A later Apply knows what it shares with the Apply that made the link.   *)
CommittedExisted ==
    \A t, u \in Tx :
        pc[t] = "ok" /\ Running(u) /\ res[plan[u].iface]["create"] = t =>
            /\ mem[u].status["create"] # "none" => "create" \in plan[u].existed
            /\ \A p \in Peer : mem[t].status[p] = "applied" /\ mem[u].status[p] # "none"
                  => p \in plan[u].existed

RollbackInv ==
    JournalInv /\ StartsClean /\ UndoesOwn /\ AppliedHeld /\ CommittedExisted /\ CommittedSurvives

(* An operator's route that is also an Apply's was there before it, where  *)
(* the operator does not act behind a running Apply.                       *)
OperatorExisted ==
    \A t \in Tx, d \in Prefix :
        Running(t) /\ res[plan[t].iface][d] = Operator /\ mem[t].status[d] # "none"
            => d \in plan[t].existed

(* What an Apply introduced is applied, or in hand, or about to be undone. *)
OwnsAccounted ==
    \A t \in Tx, i \in Iface, r \in Resource : res[i][r] = t =>
        /\ pc[t] # "err"
        /\ pc[t] = "undo" => r \in todo[t]
        /\ Running(t) /\ pc[t] # "undo" =>
              \/ mem[t].status[r] = "applied"
              \/ /\ r = cur[t]
                 /\ pc[t] \in {"config", "up", "observe", "peerroute", "complete"}

(* A record is closed only by a commit, or with nothing left on the host.  *)
ClosedHonestly ==
    /\ \A t \in Tx : ~cancelled[t]
    /\ \A t \in Tx : Running(t) =>
          (mem[t].ended => mem[t].committed) /\ (disk[t].ended => disk[t].committed)
    /\ \A t \in Tx, i \in Iface : res[i]["create"] = t /\ disk[t].ended => disk[t].committed

StrictInv == OwnsAccounted /\ ClosedHonestly
=============================================================================
