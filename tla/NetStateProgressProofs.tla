----------------------- MODULE NetStateProgressProofs -----------------------
(* What only moves forward.  The journal: a record once written goes from  *)
(* planned to its end and never back, through failed saves, crashes and    *)
(* recovery.  An Apply and a start-up: each of their steps uses up one of  *)
(* a number of steps that is fixed when they begin, which is what their    *)
(* termination rests on besides fairness.                                  *)
EXTENDS NetStateRollbackProofs, FiniteSetTheorems

USE DEF Running, EffectSteps

(* An operation's status may only become one of those that follow it.      *)
Follows(s, r) ==
    \/ r = s
    \/ s = "planned" /\ r \in Status \ {"none"}
    \/ s = "applying" /\ r \in {"applied", "failed", "rolledback"}
    \/ s = "applied" /\ r = "rolledback"

(* A later version of a record: no status has gone back, and what was      *)
(* ended or committed still is.                                            *)
Onward(old, new) ==
    /\ \A o \in Op : Follows(old.status[o], new.status[o])
    /\ old.ended => new.ended
    /\ old.committed => new.committed

(* A record in the journal is only ever replaced by a later version of it: *)
(* no operation that was applied, failed or rolled back is planned again,  *)
(* and no closed record is reopened, by Apply, a rollback whose saves      *)
(* fail, or reconcileJournal after a crash (JournalStore.Save).            *)
JournalOnward == [][\A t \in Tx : disk[t] # NoRecord => Onward(disk[t], disk'[t])]_vars

(* What makes it inductive: the record an Apply has in memory is a later   *)
(* version of the one on disk, and a rollback undoes what was applied.     *)
MemoryAhead == \A t \in Tx : Running(t) => Onward(disk[t], mem[t])

UndoesApplied ==
    \A t \in Tx : pc[t] = "undo" => \A o \in todo[t] : mem[t].status[o] = "applied"

OnwardInv == JournalInv /\ MemoryAhead /\ UndoesApplied
-----------------------------------------------------------------------------
(* What an Apply has still to begin.                                       *)
Left(t) == {o \in Op : mem[t].status[o] = "planned"}

(* The steps the operation in hand may still take.                         *)
InHand(step) ==
    CASE step = "link"                                 -> 5
      [] step = "config"                               -> 4
      [] step \in {"up", "peer"}                       -> 3
      [] step \in {"observe", "peerroute", "route"}    -> 2
      [] step = "complete"                             -> 1
      [] OTHER                                         -> 0

(* The most steps an Apply may still take: six for an operation, then one  *)
(* for each that a rollback would undo, and the two that end both.         *)
StepsLeft(t) ==
    IF ~Running(t) THEN 0
    ELSE IF pc[t] = "undo" THEN Cardinality(todo[t]) + 1
    ELSE Cardinality(Op) + 2 + 6 * Cardinality(Left(t)) + InHand(pc[t])

StepsAreLeft == \A t \in Tx : StepsLeft(t) \in Nat

(* Every step of an Apply leaves it fewer steps to take, in success, in    *)
(* failure and in a rollback that meets errors, and nothing that happens   *)
(* beside it gives it more: what ApplyTerminates rests on besides fairness.*)
ApplyCountsDown ==
    [][\A t \in Tx : Running(t) =>
          /\ StepsLeft(t)' <= StepsLeft(t)
          /\ ApplyStep(t) => StepsLeft(t)' < StepsLeft(t)]_vars

(* A step of t's Apply, as to its record and to what is left of it.        *)
Advances(t) ==
    /\ Onward(mem[t], mem'[t]) /\ disk'[t] \in {disk[t], mem'[t]}
    /\ \A u \in Tx \ {t} : /\ pc'[u] = pc[u] /\ mem'[u] = mem[u] /\ disk'[u] = disk[u]
                           /\ todo'[u] = todo[u]
    /\ pc'[t] = "undo" => \A o \in todo'[t] : mem'[t].status[o] = "applied"
    /\ \/ pc'[t] \in {"ok", "err"}
       \/ pc[t] # "undo" /\ pc'[t] = "undo"
       \/ pc[t] = "undo" /\ pc'[t] = "undo" /\ \E o \in todo[t] : todo'[t] = todo[t] \ {o}
       \/ /\ pc[t] = "next" /\ pc'[t] \in {"link", "peer", "route", "complete"}
          /\ \E o \in Left(t) : Left(t)' = Left(t) \ {o}
       \/ /\ pc[t] # "undo" /\ pc'[t] \in Steps \ {"none", "undo"}
          /\ Left(t)' = Left(t) /\ InHand(pc'[t]) < InHand(pc[t])

(* Versions of versions are versions.                                      *)
LEMMA OnwardOnward ==
    ASSUME NEW a \in Record, NEW b \in Record, NEW c \in Record, Onward(a, b), Onward(b, c)
    PROVE  Onward(a, c)
<1>1. ASSUME NEW o \in Op PROVE Follows(a.status[o], c.status[o])
  <2>1. Follows(a.status[o], b.status[o]) /\ Follows(b.status[o], c.status[o])
    BY DEF Onward
  <2>2. a.status[o] \in Status /\ b.status[o] \in Status /\ c.status[o] \in Status
    BY DEF Record
  <2> QED BY <2>1, <2>2 DEF Follows, Status
<1> QED BY <1>1 DEF Onward

(* Marking one operation with a status that follows gives a later version. *)
LEMMA MarkingIsOnward ==
    ASSUME NEW rec \in Record, NEW o \in Op, NEW s \in Status, Follows(rec.status[o], s)
    PROVE  Onward(rec, SetStatus(rec, o, s))
<1> DEFINE new == SetStatus(rec, o, s)
<1>1. new.status[o] = s /\ \A q \in Op \ {o} : new.status[q] = rec.status[q]
    BY SetStatusType
<1>2. new.ended = rec.ended /\ new.committed = rec.committed
    BY DEF SetStatus, Record
<1> HIDE DEF new
<1>3. ASSUME NEW q \in Op PROVE Follows(rec.status[q], new.status[q])
    BY <1>1 DEF Follows
<1>4. Onward(rec, new)
    BY <1>2, <1>3 DEF Onward
<1> QED BY <1>4 DEF new

(* The ranks of the steps.                                                 *)
LEMMA InHandType ==
    /\ InHand("link") = 5 /\ InHand("config") = 4 /\ InHand("up") = 3 /\ InHand("peer") = 3
    /\ InHand("observe") = 2 /\ InHand("peerroute") = 2 /\ InHand("route") = 2
    /\ InHand("complete") = 1 /\ InHand("next") = 0
    /\ \A step \in Steps : InHand(step) \in 0..5
BY DEF InHand, Steps

(* A step that journals: Begin, Complete, Commit, and an effect's failure. *)
LEMMA MarkAdvances ==
    ASSUME OnwardInv, NEW t \in Tx,
           Begin(t) \/ Complete(t) \/ Commit(t) \/ EffectFails(t)
    PROVE  Advances(t)
<1>a. /\ mem[t] \in Record /\ cur[t] \in Op
      /\ mem \in [Tx -> Record] /\ disk \in [Tx -> Record] /\ pc \in [Tx -> Steps]
      /\ todo \in [Tx -> SUBSET Op]
    BY DEF OnwardInv, JournalInv, TypeOK
<1>b. Marks(t)
    BY MarkShape DEF OnwardInv
<1>c. /\ \A u \in Tx \ {t} : /\ pc'[u] = pc[u] /\ mem'[u] = mem[u] /\ disk'[u] = disk[u]
                             /\ todo'[u] = todo[u]
      /\ disk'[t] \in {disk[t], mem'[t]}
      /\ pc'[t] = "undo" => \A o \in todo'[t] : mem'[t].status[o] = "applied"
      /\ pc[t] # "undo"
    BY <1>b DEF Marks, OnlyOwn
<1>d. "applying" \in Status /\ "applied" \in Status /\ "failed" \in Status
    BY DEF Status
<1>1. CASE Begin(t)
  <2>1. PICK o \in Op :
          LET rec == SetStatus(mem[t], o, "applying")
          IN  /\ mem[t].status[o] = "planned"
              /\ mem' = [mem EXCEPT ![t] = rec]
              /\ \/ Save(t, rec) /\ Goto(t, FirstStep(o))
                 \/ SaveFails(t, rec) /\ Fail(t, rec)
    BY <1>1 DEF Begin
  <2> DEFINE rec == SetStatus(mem[t], o, "applying")
  <2>2. rec.status[o] = "applying" /\ \A q \in Op \ {o} : rec.status[q] = mem[t].status[q]
    BY <1>a, <1>d, SetStatusType
  <2>3. Onward(mem[t], rec)
    BY <1>a, <1>d, <2>1, MarkingIsOnward DEF Follows
  <2>4. mem'[t] = rec
    BY <1>a, <2>1
  <2>5. FirstStep(o) \in {"link", "peer", "route", "complete"}
    BY DEF FirstStep
  <2>6. pc[t] = "next" /\ (pc'[t] = FirstStep(o) \/ pc'[t] = "undo")
    BY <1>1, <1>a, <2>1 DEF Begin, Goto, Fail
  <2> HIDE DEF rec
  <2>7. o \in Left(t) /\ Left(t)' = Left(t) \ {o}
    BY <2>1, <2>2, <2>4 DEF Left
  <2>8. Onward(mem[t], mem'[t])
    BY <2>3, <2>4
  <2> QED BY <1>c, <2>5, <2>6, <2>7, <2>8 DEF Advances
<1>2. CASE Complete(t) \/ EffectFails(t)
  <2> DEFINE s == IF pc[t] = "complete" THEN "applied" ELSE "failed"
             rec == SetStatus(mem[t], cur[t], s)
  <2>1. /\ mem' = [mem EXCEPT ![t] = rec]
        /\ pc[t] \in EffectSteps \cup {"complete"}
        /\ \/ pc[t] = "complete" /\ pc' = [pc EXCEPT ![t] = "next"]
           \/ pc' = [pc EXCEPT ![t] = "undo"]
    <3>1. CASE Complete(t)
      BY <3>1 DEF Complete, Goto, Fail
    <3>2. CASE EffectFails(t)
      BY <3>2 DEF EffectFails, EffectRefused, Fail
    <3> QED BY <1>2, <3>1, <3>2
  <2>2. mem[t].status[cur[t]] = "applying"
    BY <2>1 DEF OnwardInv, JournalInv, EffectJournaled
  <2>3. s \in Status /\ Follows(mem[t].status[cur[t]], s) /\ s # "planned"
    BY <1>d, <2>2 DEF Follows
  <2>4. rec.status[cur[t]] = s /\ \A q \in Op \ {cur[t]} : rec.status[q] = mem[t].status[q]
    BY <1>a, <2>3, SetStatusType
  <2>5. Onward(mem[t], rec)
    BY <1>a, <2>3, MarkingIsOnward
  <2>6. mem'[t] = rec
    BY <1>a, <2>1
  <2>7. (pc[t] = "complete" /\ pc'[t] = "next") \/ pc'[t] = "undo"
    BY <1>a, <2>1
  <2> HIDE DEF rec, s
  <2>8. Left(t)' = Left(t)
    BY <1>a, <2>2, <2>3, <2>4, <2>6 DEF Left
  <2>9. Onward(mem[t], mem'[t])
    BY <2>5, <2>6
  <2>10. "next" \in Steps \ {"none", "undo"} /\ InHand("next") < InHand("complete")
    BY InHandType DEF Steps
  <2> QED BY <1>c, <2>7, <2>8, <2>9, <2>10 DEF Advances
<1>3. CASE Commit(t)
  <2> DEFINE rec == [mem[t] EXCEPT !.ended = TRUE, !.committed = TRUE]
  <2>1. /\ mem' = [mem EXCEPT ![t] = rec]
        /\ pc' = [pc EXCEPT ![t] = "ok"] \/ pc' = [pc EXCEPT ![t] = "undo"]
    BY <1>3 DEF Commit, Goto, Fail
  <2>2. rec.status = mem[t].status /\ rec.ended = TRUE /\ rec.committed = TRUE
    BY <1>a DEF Record
  <2>3. mem'[t] = rec /\ pc'[t] \in {"ok", "undo"}
    BY <1>a, <2>1
  <2> HIDE DEF rec
  <2>4. Onward(mem[t], mem'[t])
    BY <2>2, <2>3 DEF Onward, Follows
  <2> QED BY <1>c, <2>3, <2>4 DEF Advances
<1> QED BY <1>1, <1>2, <1>3

(* A record is a version of itself.                                        *)
LEMMA OnwardSelf == \A rec : Onward(rec, rec)
BY DEF Onward, Follows

(* The adapter's steps, and the rollback's.                                *)
LEMMA ApplyAdvances ==
    ASSUME OnwardInv, NEW t \in Tx, ApplyStep(t)
    PROVE  Advances(t)
<1>a. /\ mem[t] \in Record /\ mem \in [Tx -> Record] /\ pc \in [Tx -> Steps]
      /\ todo \in [Tx -> SUBSET Op] /\ JournalInv
    BY DEF OnwardInv, JournalInv, TypeOK
<1>1. CASE Begin(t) \/ Complete(t) \/ Commit(t) \/ EffectFails(t)
    BY <1>1, MarkAdvances
<1>2. CASE \/ EnsureLink(t) \/ ConfigureDevice(t) \/ LinkSetUp(t) \/ ObserveInterface(t)
           \/ ApplyPeer(t) \/ EnsurePeerRoutes(t) \/ AddRoute(t)
  <2>1. Acts(t)
    BY <1>2, <1>a, ActShape
  <2>2. \/ Effect(t, "link", "config") \/ Effect(t, "config", "up")
        \/ Effect(t, "up", "observe") \/ Effect(t, "observe", "complete")
        \/ Effect(t, "peer", "peerroute") \/ Effect(t, "peerroute", "complete")
        \/ Effect(t, "route", "complete")
    BY <1>2 DEF EnsureLink, ConfigureDevice, LinkSetUp, ObserveInterface, ApplyPeer,
                EnsurePeerRoutes, AddRoute
  <2>3. <<pc[t], pc'[t]>> \in {<<"link", "config">>, <<"config", "up">>, <<"up", "observe">>,
                               <<"observe", "complete">>, <<"peer", "peerroute">>,
                               <<"peerroute", "complete">>, <<"route", "complete">>}
    BY <1>a, <2>2 DEF Effect, Goto
  <2>4. /\ InHand(pc'[t]) < InHand(pc[t])
        /\ pc'[t] \in Steps \ {"none", "undo"} /\ pc[t] # "undo"
    BY <2>3, InHandType DEF Steps
  <2>5. mem' = mem /\ Left(t)' = Left(t)
    BY <2>1 DEF Acts, Left
  <2>6. Onward(mem[t], mem'[t])
    BY <2>5, OnwardSelf
  <2> QED BY <2>1, <2>4, <2>5, <2>6 DEF Advances, Acts, OnlyOwn
<1>3. CASE Compensate(t)
  <2>1. PICK o \in todo[t] :
          /\ todo' = [todo EXCEPT ![t] = @ \ {o}]
          /\ \/ mem' = [mem EXCEPT ![t] = SetStatus(mem[t], o, "rolledback")]
             \/ mem' = mem
    BY <1>3 DEF Compensate
  <2>2. /\ pc[t] = "undo" /\ pc' = pc /\ disk' = disk /\ o \in Op
        /\ \A q \in todo[t] : mem[t].status[q] = "applied"
    BY <1>3, <1>a, <2>1 DEF Compensate, OnwardInv, UndoesApplied
  <2>3. todo'[t] = todo[t] \ {o} /\ \A u \in Tx \ {t} : todo'[u] = todo[u]
    BY <1>a, <2>1
  <2>4. /\ \A u \in Tx \ {t} : mem'[u] = mem[u]
        /\ Onward(mem[t], mem'[t])
        /\ \A q \in Op \ {o} : mem'[t].status[q] = mem[t].status[q]
    <3> DEFINE rec == SetStatus(mem[t], o, "rolledback")
    <3>1. "rolledback" \in Status
      BY DEF Status
    <3>2. Onward(mem[t], rec) /\ \A q \in Op \ {o} : rec.status[q] = mem[t].status[q]
      BY <1>a, <2>2, <3>1, MarkingIsOnward, SetStatusType DEF Follows
    <3> HIDE DEF rec
    <3>3. CASE mem' = [mem EXCEPT ![t] = rec]
      BY <1>a, <3>2, <3>3
    <3>4. CASE mem' = mem
      BY <3>4, OnwardSelf
    <3> QED BY <2>1, <3>3, <3>4 DEF rec
  <2>5. \A q \in todo'[t] : mem'[t].status[q] = "applied"
    BY <1>a, <2>2, <2>3, <2>4
  <2> QED BY <2>2, <2>3, <2>4, <2>5 DEF Advances
<1>4. CASE Close(t)
  <2> DEFINE rec == [mem[t] EXCEPT !.ended = TRUE]
  <2>1. mem' = [mem EXCEPT ![t] = rec] /\ pc' = [pc EXCEPT ![t] = "err"]
    BY <1>4 DEF Close, Goto
  <2>2. rec.status = mem[t].status /\ rec.ended = TRUE /\ rec.committed = mem[t].committed
    BY <1>a DEF Record
  <2>3. mem'[t] = rec /\ pc'[t] = "err"
    BY <1>a, <2>1
  <2> HIDE DEF rec
  <2>4. Onward(mem[t], mem'[t])
    BY <2>2, <2>3 DEF Onward, Follows
  <2>5. Closes(t)
    BY <1>4, <1>a, CloseShape
  <2> QED BY <2>3, <2>4, <2>5 DEF Advances, Closes, OnlyOwn
<1> QED BY <1>1, <1>2, <1>3, <1>4 DEF ApplyStep

(* A step that leaves the runs and the journal alone.                      *)
LEMMA IdleOnward ==
    ASSUME OnwardInv, JournalInv', UNCHANGED <<disk, mem, pc, todo>>
    PROVE  OnwardInv' /\ \A t \in Tx : Onward(disk[t], disk'[t])
<1>1. MemoryAhead' /\ UndoesApplied'
    BY DEF OnwardInv, MemoryAhead, UndoesApplied, Onward
<1> QED BY <1>1, OnwardSelf DEF OnwardInv

(* What recovery writes is a later version of what it read.                *)
LEMMA ReconciledIsOnward ==
    ASSUME NEW rec \in Record
    PROVE  Onward(rec, Reconciled(rec))
<1> DEFINE new == Reconciled(rec)
<1>1. /\ \A o \in Op : new.status[o] = IF rec.status[o] \in {"applied", "applying"}
                                         THEN "rolledback" ELSE rec.status[o]
      /\ new.ended = TRUE /\ new.committed = rec.committed
    BY DEF Reconciled, Record
<1> HIDE DEF new
<1>2. ASSUME NEW o \in Op PROVE Follows(rec.status[o], new.status[o])
    BY <1>1 DEF Follows
<1>3. Onward(rec, new)
    BY <1>1, <1>2 DEF Onward
<1> QED BY <1>3 DEF new

(* A step keeps the invariant and replaces no record by an earlier one.    *)
LEMMA NextOnward ==
    ASSUME OnwardInv, [Next]_vars
    PROVE  OnwardInv' /\ \A t \in Tx : disk[t] # NoRecord => Onward(disk[t], disk'[t])
<1>a. JournalInv'
    BY NextKeeps DEF OnwardInv
<1>b. /\ disk \in [Tx -> Record] /\ mem \in [Tx -> Record] /\ pc \in [Tx -> Steps]
      /\ todo \in [Tx -> SUBSET Op]
      /\ \A t \in Tx : mem'[t] \in Record /\ disk'[t] \in Record
    BY <1>a DEF OnwardInv, JournalInv, TypeOK
<1>1. ASSUME NEW t \in Tx, ApplyStep(t)
      PROVE  OnwardInv' /\ \A u \in Tx : Onward(disk[u], disk'[u])
  <2>1. Advances(t)
    BY <1>1, ApplyAdvances
  <2>2. Running(t)
    BY <1>1, ApplyShape DEF OnwardInv, Marks, Acts, Undoes, Closes, OnlyOwn
  <2>3. Onward(disk[t], mem'[t])
    <3>1. Onward(disk[t], mem[t]) /\ Onward(mem[t], mem'[t])
      BY <2>1, <2>2 DEF OnwardInv, MemoryAhead, Advances
    <3> QED BY <1>b, <3>1, OnwardOnward
  <2>4. disk'[t] \in {disk[t], mem'[t]}
        /\ \A u \in Tx \ {t} : /\ pc'[u] = pc[u] /\ mem'[u] = mem[u] /\ disk'[u] = disk[u]
                               /\ todo'[u] = todo[u]
    BY <2>1 DEF Advances
  <2>5. Onward(disk'[t], mem'[t]) /\ Onward(disk[t], disk'[t])
    BY <2>3, <2>4, OnwardSelf
  <2>6. MemoryAhead'
    <3> SUFFICES ASSUME NEW u \in Tx, Running(u)' PROVE Onward(disk'[u], mem'[u])
      BY DEF MemoryAhead, Onward
    <3>1. CASE u = t
      BY <2>5, <3>1
    <3>2. CASE u # t
      BY <2>4, <3>2 DEF OnwardInv, MemoryAhead
    <3> QED BY <3>1, <3>2
  <2>7. UndoesApplied'
    BY <2>1, <2>4 DEF OnwardInv, UndoesApplied, Advances
  <2> QED BY <1>a, <2>4, <2>5, <2>6, <2>7, OnwardSelf DEF OnwardInv
<1>2. ASSUME NEW t \in Tx, NEW i \in Iface, NEW ops \in SUBSET Op, StartApply(t, i, ops)
      PROVE  OnwardInv' /\ \A u \in Tx : disk[u] # NoRecord => Onward(disk[u], disk'[u])
  <2>1. /\ disk[t] = NoRecord /\ pc[t] = "none"
        /\ \A u \in Tx \ {t} : /\ pc'[u] = pc[u] /\ mem'[u] = mem[u] /\ disk'[u] = disk[u]
                               /\ todo'[u] = todo[u]
        /\ (pc'[t] = "next" /\ disk'[t] = mem'[t]) \/ pc'[t] = "err"
    BY <1>2, <1>b DEF StartApply, Save, SaveFails, Goto
  <2>2. MemoryAhead'
    <3> SUFFICES ASSUME NEW u \in Tx, Running(u)' PROVE Onward(disk'[u], mem'[u])
      BY DEF MemoryAhead, Onward
    <3>1. CASE u = t
      BY <2>1, <3>1, OnwardSelf
    <3>2. CASE u # t
      BY <2>1, <3>2 DEF OnwardInv, MemoryAhead
    <3> QED BY <3>1, <3>2
  <2>3. UndoesApplied'
    BY <2>1 DEF OnwardInv, UndoesApplied
  <2> QED BY <1>a, <2>1, <2>2, <2>3, OnwardSelf DEF OnwardInv
<1>3. ASSUME NEW t \in Tx, Cancel(t) PROVE OnwardInv' /\ \A u \in Tx : Onward(disk[u], disk'[u])
    BY <1>3, <1>a, IdleOnward DEF Cancel
<1>4. ASSUME NEW i \in Iface, Remove(i) PROVE OnwardInv' /\ \A u \in Tx : Onward(disk[u], disk'[u])
    BY <1>4, <1>a, IdleOnward DEF Remove, runVars
<1>5. ASSUME NEW i \in Iface, NEW d \in Prefix, WithdrawRoute(i, d) \/ OperatorRoute(i, d)
      PROVE  OnwardInv' /\ \A u \in Tx : Onward(disk[u], disk'[u])
    BY <1>5, <1>a, IdleOnward DEF WithdrawRoute, OperatorRoute, runVars
<1>6. CASE BootStep
  <2>1. /\ \A t \in Tx : ~Running(t)
        /\ UNCHANGED <<mem, pc, todo>>
    BY <1>6 DEF BootStep, Start, Recover, Teardown, RemoveOne, RemovedAll, ReconcileJournal,
                ReconciledAll, JournalUnreadable, BootUnchanged, OnwardInv, JournalInv, RunsAlone,
                runVars
  <2>2. MemoryAhead' /\ UndoesApplied'
    BY <2>1 DEF MemoryAhead, UndoesApplied
  <2>3. CASE ReconcileJournal
    <3>1. PICK t \in Tx : disk' = disk \/ disk' = [disk EXCEPT ![t] = Reconciled(disk[t])]
      BY <2>3 DEF ReconcileJournal, PendingRecovery, Save, SaveFails
    <3>2. ASSUME NEW u \in Tx PROVE disk'[u] \in {disk[u], Reconciled(disk[u])}
      BY <1>b, <3>1
    <3>3. \A u \in Tx : Onward(disk[u], disk'[u])
      BY <1>b, <3>2, OnwardSelf, ReconciledIsOnward
    <3> QED BY <1>a, <2>2, <3>3 DEF OnwardInv
  <2>4. CASE ~ReconcileJournal
    <3>1. disk' = disk
      BY <1>6, <2>4 DEF BootStep, Start, Recover, Teardown, RemoveOne, RemovedAll,
                        ReconciledAll, JournalUnreadable
    <3> QED BY <1>a, <2>2, <3>1, OnwardSelf DEF OnwardInv
  <2> QED BY <2>3, <2>4
<1>7. CASE Crash
  <2>1. disk' = disk /\ \A t \in Tx : pc'[t] = "none"
    BY <1>7 DEF Crash
  <2>2. MemoryAhead' /\ UndoesApplied'
    BY <2>1 DEF MemoryAhead, UndoesApplied
  <2> QED BY <1>a, <2>1, <2>2, OnwardSelf DEF OnwardInv
<1>8. CASE UNCHANGED vars
    BY <1>8, <1>a, IdleOnward DEF vars, runVars
<1>9. ASSUME NEW t \in Tx, ApplyInterface(t) \/ ApplyRoutes(t)
      PROVE  OnwardInv' /\ \A u \in Tx : disk[u] # NoRecord => Onward(disk[u], disk'[u])
  <2>1. PICK i \in Iface, ops \in SUBSET Op : StartApply(t, i, ops)
    BY <1>9 DEF ApplyInterface, ApplyRoutes, Op
  <2> QED BY <1>2, <2>1
<1> QED BY <1>1, <1>3, <1>4, <1>5, <1>6, <1>7, <1>8, <1>9 DEF Next

LEMMA InitOnward == Init => OnwardInv
BY InitEstablishes DEF Init, OnwardInv, MemoryAhead, UndoesApplied

(* A record of the journal is only ever replaced by a later version of it, *)
(* for any number of transactions and crashes and every mixture of faults: *)
(* what was journaled as applied is not planned again, and a record that   *)
(* was closed or committed is not reopened, neither by a rollback that     *)
(* writes what a failed save did not, nor by reconcileJournal.             *)
THEOREM JournalGoesOnward == Spec => JournalOnward
<1>1. OnwardInv /\ [Next]_vars => OnwardInv'
    BY NextOnward
<1>2. OnwardInv /\ [Next]_vars
        => [\A t \in Tx : disk[t] # NoRecord => Onward(disk[t], disk'[t])]_vars
    BY NextOnward
<1> QED BY InitOnward, <1>1, <1>2, PTL DEF Spec, JournalOnward
-----------------------------------------------------------------------------
(* The sets the measure counts are finite.                                 *)
LEMMA OpFinite ==
    ASSUME IsFiniteSet(Peer), IsFiniteSet(Prefix)
    PROVE  /\ IsFiniteSet(Op) /\ Cardinality(Op) \in Nat
           /\ \A S \in SUBSET Op :
                 /\ IsFiniteSet(S) /\ Cardinality(S) \in Nat /\ Cardinality(S) <= Cardinality(Op)
                 /\ \A o \in S : Cardinality(S \ {o}) = Cardinality(S) - 1
<1>1. IsFiniteSet({"create"}) /\ IsFiniteSet({"configure"}) /\ IsFiniteSet({"linkup"})
      /\ IsFiniteSet({"address"})
    BY FS_Singleton
<1>2. IsFiniteSet({"create"} \cup {"configure"}) /\ IsFiniteSet({"linkup"} \cup {"address"})
    BY <1>1, FS_Union
<1>3. IsFiniteSet(({"create"} \cup {"configure"}) \cup ({"linkup"} \cup {"address"}))
    BY <1>2, FS_Union
<1>4. IfaceOp = ({"create"} \cup {"configure"}) \cup ({"linkup"} \cup {"address"})
    BY DEF IfaceOp
<1>5. IsFiniteSet(IfaceOp \cup Peer)
    BY <1>3, <1>4, FS_Union
<1>6. IsFiniteSet((IfaceOp \cup Peer) \cup Prefix)
    BY <1>5, FS_Union
<1>7. IsFiniteSet(Op)
    BY <1>6 DEF Op
<1>8. ASSUME NEW S \in SUBSET Op
      PROVE  IsFiniteSet(S) /\ Cardinality(S) \in Nat /\ Cardinality(S) <= Cardinality(Op)
  <2>1. IsFiniteSet(S) /\ Cardinality(S) <= Cardinality(Op)
    BY <1>7, FS_Subset
  <2> QED BY <2>1, FS_CardinalityType
<1>9. ASSUME NEW S \in SUBSET Op, NEW o \in S
      PROVE  Cardinality(S \ {o}) = Cardinality(S) - 1
    BY <1>8, FS_RemoveElement
<1> QED BY <1>7, <1>8, <1>9, FS_CardinalityType

(* A step of an Apply uses up one of those left to it.                     *)
LEMMA AdvancesCountsDown ==
    ASSUME IsFiniteSet(Peer), IsFiniteSet(Prefix), OnwardInv, OnwardInv', NEW t \in Tx,
           Running(t), Advances(t)
    PROVE  StepsLeft(t)' < StepsLeft(t)
<1> DEFINE m == Cardinality(Op)
           a == Cardinality(Left(t))
           b == Cardinality(Left(t)')
           c == Cardinality(todo[t])
           d == Cardinality(todo'[t])
           h == InHand(pc[t])
           k == InHand(pc'[t])
<1>1. /\ todo[t] \in SUBSET Op /\ todo'[t] \in SUBSET Op
      /\ Left(t) \in SUBSET Op /\ Left(t)' \in SUBSET Op
      /\ pc[t] \in Steps /\ pc'[t] \in Steps
    BY DEF OnwardInv, JournalInv, TypeOK, Left
<1>2. m \in Nat /\ a \in Nat /\ b \in Nat /\ c \in Nat /\ d \in Nat /\ d <= m
    BY <1>1, OpFinite
<1>3. h \in 0..5 /\ k \in 0..5
    BY <1>1, InHandType
<1>4. StepsLeft(t) = IF pc[t] = "undo" THEN c + 1 ELSE m + 2 + 6 * a + h
    BY DEF StepsLeft
<1>5. StepsLeft(t)' = IF pc'[t] \in {"none", "ok", "err"} THEN 0
                      ELSE IF pc'[t] = "undo" THEN d + 1 ELSE m + 2 + 6 * b + k
    BY DEF StepsLeft
<1>6. \/ pc'[t] \in {"ok", "err"}
      \/ pc[t] # "undo" /\ pc'[t] = "undo"
      \/ pc[t] = "undo" /\ pc'[t] = "undo" /\ d = c - 1
      \/ pc[t] # "undo" /\ pc'[t] # "undo" /\ pc'[t] \notin {"none", "ok", "err"} /\ b = a - 1
      \/ pc[t] # "undo" /\ pc'[t] \in Steps \ {"none", "undo"} /\ b = a /\ k < h
  <2>1. CASE pc'[t] \in {"ok", "err"} \/ (pc[t] # "undo" /\ pc'[t] = "undo")
    BY <2>1
  <2>2. CASE pc[t] = "undo" /\ pc'[t] = "undo" /\ \E o \in todo[t] : todo'[t] = todo[t] \ {o}
    BY <2>2, <1>1, OpFinite
  <2>3. CASE /\ pc[t] = "next" /\ pc'[t] \in {"link", "peer", "route", "complete"}
             /\ \E o \in Left(t) : Left(t)' = Left(t) \ {o}
    BY <2>3, <1>1, OpFinite
  <2>4. CASE /\ pc[t] # "undo" /\ pc'[t] \in Steps \ {"none", "undo"}
             /\ Left(t)' = Left(t) /\ InHand(pc'[t]) < InHand(pc[t])
    BY <2>4
  <2> QED BY <2>1, <2>2, <2>3, <2>4 DEF Advances
<1> HIDE DEF m, a, b, c, d, h, k
<1> QED BY <1>2, <1>3, <1>4, <1>5, <1>6

(* What goes on beside an Apply leaves its measure, or ends it.            *)
LEMMA OthersLeaveSteps ==
    ASSUME NEW t \in Tx, UNCHANGED <<mem[t], pc[t], todo[t]>>
    PROVE  StepsLeft(t)' = StepsLeft(t)
BY DEF StepsLeft, Left

(* The measure of an Apply is a number.                                    *)
LEMMA StepsLeftType ==
    ASSUME IsFiniteSet(Peer), IsFiniteSet(Prefix), OnwardInv
    PROVE  StepsAreLeft
<1> SUFFICES ASSUME NEW t \in Tx PROVE StepsLeft(t) \in Nat
    BY DEF StepsAreLeft
<1>1. todo[t] \in SUBSET Op /\ Left(t) \in SUBSET Op /\ pc[t] \in Steps
    BY DEF OnwardInv, JournalInv, TypeOK, Left
<1>2. Cardinality(Op) \in Nat /\ Cardinality(Left(t)) \in Nat /\ Cardinality(todo[t]) \in Nat
    BY <1>1, OpFinite
<1>3. InHand(pc[t]) \in Nat
    BY <1>1, InHandType
<1> QED BY <1>2, <1>3 DEF StepsLeft

(* Every Apply gets done in a number of steps that is fixed when it begins,*)
(* however many peers and prefixes a plan names, as long as they are       *)
(* finitely many: with the weak fairness of ApplyStep, this is why         *)
(* ApplyTerminates holds whatever is refused, cancelled or not saved.      *)
THEOREM ApplyGetsDone ==
    ASSUME IsFiniteSet(Peer), IsFiniteSet(Prefix)
    PROVE  Spec => ApplyCountsDown /\ []StepsAreLeft
<1> DEFINE Down == \A t \in Tx : Running(t) =>
                      /\ StepsLeft(t)' <= StepsLeft(t)
                      /\ ApplyStep(t) => StepsLeft(t)' < StepsLeft(t)
<1>1. OnwardInv /\ [Next]_vars => OnwardInv'
    BY NextOnward
<1>2. ASSUME OnwardInv, Next PROVE Down
  <2>a. OnwardInv'
    BY <1>1, <1>2
  <2> SUFFICES ASSUME NEW t \in Tx, Running(t)
               PROVE  /\ StepsLeft(t)' <= StepsLeft(t)
                      /\ ApplyStep(t) => StepsLeft(t)' < StepsLeft(t)
    OBVIOUS
  <2>b. StepsLeft(t) \in Nat /\ StepsLeft(t)' \in Nat
    <3>1. (OnwardInv => StepsAreLeft)'
      BY StepsLeftType, PTL
    <3>2. StepsAreLeft /\ StepsAreLeft'
      BY <1>2, <2>a, <3>1, StepsLeftType
    <3> QED BY <3>2 DEF StepsAreLeft
  <2>1. ASSUME ApplyStep(t) PROVE StepsLeft(t)' < StepsLeft(t)
    BY <1>2, <2>a, <2>1, ApplyAdvances, AdvancesCountsDown
  <2>2. CASE UNCHANGED <<mem[t], pc[t], todo[t]>>
    <3>1. StepsLeft(t)' = StepsLeft(t)
      BY <2>2, OthersLeaveSteps
    <3> QED BY <2>b, <2>1, <3>1
  <2>3. CASE ApplyStep(t)
    BY <2>b, <2>1, <2>3
  <2>4. CASE ~Running(t)'
    <3>1. StepsLeft(t)' = 0
      BY <2>4 DEF StepsLeft
    <3> QED BY <2>b, <2>1, <3>1
  <2>5. UNCHANGED <<mem[t], pc[t], todo[t]>> \/ ApplyStep(t) \/ ~Running(t)'
    <3>a. mem \in [Tx -> Record] /\ pc \in [Tx -> Steps] /\ todo \in [Tx -> SUBSET Op]
      BY <1>2 DEF OnwardInv, JournalInv, TypeOK
    <3>1. ASSUME NEW u \in Tx, ApplyStep(u), u # t PROVE UNCHANGED <<mem[t], pc[t], todo[t]>>
      <4>1. Advances(u)
        BY <1>2, <3>1, ApplyAdvances
      <4> QED BY <3>1, <4>1 DEF Advances
    <3>2. ASSUME NEW u \in Tx, ApplyInterface(u) \/ ApplyRoutes(u)
          PROVE  UNCHANGED <<mem[t], pc[t], todo[t]>>
      <4>1. PICK i \in Iface, ops \in SUBSET Op : StartApply(u, i, ops)
        BY <3>2 DEF ApplyInterface, ApplyRoutes, Op
      <4>2. u # t
        BY <4>1 DEF StartApply
      <4> QED BY <3>a, <4>1, <4>2 DEF StartApply, Goto
    <3>3. ASSUME NEW u \in Tx, Cancel(u) PROVE UNCHANGED <<mem[t], pc[t], todo[t]>>
      BY <3>3 DEF Cancel
    <3>4. ASSUME NEW i \in Iface,
                 Remove(i) \/ \E d \in Prefix : WithdrawRoute(i, d) \/ OperatorRoute(i, d)
          PROVE  UNCHANGED <<mem[t], pc[t], todo[t]>>
      BY <3>4 DEF Remove, WithdrawRoute, OperatorRoute, runVars
    <3>5. CASE BootStep
      BY <3>5 DEF BootStep, Start, Recover, Teardown, RemoveOne, RemovedAll, ReconcileJournal,
                  ReconciledAll, JournalUnreadable, BootUnchanged, runVars
    <3>6. CASE Crash
      BY <3>6 DEF Crash
    <3> QED BY <1>2, <3>1, <3>2, <3>3, <3>4, <3>5, <3>6 DEF Next
  <2> QED BY <2>2, <2>3, <2>4, <2>5
<1> HIDE DEF Down
<1>3. OnwardInv /\ [Next]_vars => [Down]_vars
    BY <1>2
<1>4. OnwardInv => StepsAreLeft
    BY StepsLeftType
<1>5. Spec => [][Down]_vars /\ []StepsAreLeft
    BY InitOnward, <1>1, <1>3, <1>4, PTL DEF Spec
<1> QED BY <1>5 DEF Down, ApplyCountsDown
-----------------------------------------------------------------------------
(* The most steps a start-up may still take: the two passes with all the   *)
(* interfaces and all the transactions, less what is behind.               *)
BootLeft ==
    LET n == Cardinality(Iface)
        m == Cardinality(Tx)
    IN  CASE proc = "down"            -> 7 + 2 * m + 2 * n
          [] proc = "recover"         -> 6 + 2 * m + 2 * n
          [] proc = "recoverRemove"   -> 5 + 2 * m + n + Cardinality(listed)
          [] proc = "recoverJournal"  -> 4 + m + n + Cardinality(PendingRecovery)
          [] proc = "teardown"        -> 3 + m + n
          [] proc = "teardownRemove"  -> 2 + m + Cardinality(listed)
          [] proc = "teardownJournal" -> 1 + Cardinality(PendingRecovery)
          [] OTHER                    -> 0

(* Every step of a start-up leaves it fewer to take, whatever fails on the *)
(* way, and only a crash starts it again (recoverHostState): what          *)
(* ServiceReturns rests on besides fairness.                               *)
BootCountsDown ==
    [][/\ BootStep => BootLeft' < BootLeft
       /\ BootLeft' <= BootLeft \/ Crash]_vars

(* The sizes of what a start-up goes through.                              *)
LEMMA BootFinite ==
    ASSUME IsFiniteSet(Iface), IsFiniteSet(Tx)
    PROVE  /\ Cardinality(Iface) \in Nat /\ Cardinality(Tx) \in Nat
           /\ \A S \in SUBSET Iface :
                 /\ Cardinality(S) \in Nat /\ Cardinality(S) <= Cardinality(Iface)
                 /\ \A i \in S : Cardinality(S \ {i}) = Cardinality(S) - 1
           /\ \A S \in SUBSET Tx :
                 /\ Cardinality(S) \in Nat /\ Cardinality(S) <= Cardinality(Tx)
                 /\ \A t \in S : Cardinality(S \ {t}) = Cardinality(S) - 1
           /\ Cardinality({}) = 0
<1>1. ASSUME NEW U, IsFiniteSet(U), NEW S \in SUBSET U
      PROVE  /\ Cardinality(S) \in Nat /\ Cardinality(S) <= Cardinality(U)
             /\ \A x \in S : Cardinality(S \ {x}) = Cardinality(S) - 1
  <2>1. IsFiniteSet(S) /\ Cardinality(S) <= Cardinality(U)
    BY <1>1, FS_Subset
  <2>2. Cardinality(S) \in Nat
    BY <2>1, FS_CardinalityType
  <2>3. ASSUME NEW x \in S PROVE Cardinality(S \ {x}) = Cardinality(S) - 1
    BY <2>1, FS_RemoveElement
  <2> QED BY <2>1, <2>2, <2>3
<1>2. Cardinality(Iface) \in Nat /\ Cardinality(Tx) \in Nat /\ Cardinality({}) = 0
    BY FS_CardinalityType, FS_EmptySet
<1>3. \A S \in SUBSET Iface :
         /\ Cardinality(S) \in Nat /\ Cardinality(S) <= Cardinality(Iface)
         /\ \A i \in S : Cardinality(S \ {i}) = Cardinality(S) - 1
    BY <1>1
<1>4. \A S \in SUBSET Tx :
         /\ Cardinality(S) \in Nat /\ Cardinality(S) <= Cardinality(Tx)
         /\ \A t \in S : Cardinality(S \ {t}) = Cardinality(S) - 1
    BY <1>1
<1> QED BY <1>2, <1>3, <1>4

(* A record that was reconciled is not pending any more.                   *)
LEMMA ReconciledIsSettled ==
    ASSUME NEW rec \in Record
    PROVE  ~NeedsRecovery(Reconciled(rec))
<1> DEFINE new == Reconciled(rec)
<1>1. /\ \A o \in Op : new.status[o] = IF rec.status[o] \in {"applied", "applying"}
                                         THEN "rolledback" ELSE rec.status[o]
      /\ new.ended = TRUE
    BY DEF Reconciled, Record
<1> HIDE DEF new
<1>2. ~NeedsRecovery(new)
    BY <1>1 DEF NeedsRecovery
<1> QED BY <1>2 DEF new

(* A step of a start-up uses up one of those left.                         *)
LEMMA BootStepCountsDown ==
    ASSUME IsFiniteSet(Iface), IsFiniteSet(Tx), TypeOK, TypeOK', BootStep
    PROVE  BootLeft' < BootLeft
<1> DEFINE n == Cardinality(Iface)
           m == Cardinality(Tx)
           l == Cardinality(listed)
           k == Cardinality(listed')
           p == Cardinality(PendingRecovery)
           q == Cardinality(PendingRecovery')
           Of(b, x, y) ==
              CASE b = "down"            -> 7 + 2 * m + 2 * n
                [] b = "recover"         -> 6 + 2 * m + 2 * n
                [] b = "recoverRemove"   -> 5 + 2 * m + n + x
                [] b = "recoverJournal"  -> 4 + m + n + y
                [] b = "teardown"        -> 3 + m + n
                [] b = "teardownRemove"  -> 2 + m + x
                [] b = "teardownJournal" -> 1 + y
                [] OTHER                 -> 0
<1>1. /\ n \in Nat /\ m \in Nat /\ l \in Nat /\ k \in Nat /\ p \in Nat /\ q \in Nat
      /\ l <= n /\ k <= n /\ p <= m /\ q <= m
  <2>1. /\ listed \in SUBSET Iface /\ listed' \in SUBSET Iface
        /\ PendingRecovery \in SUBSET Tx /\ PendingRecovery' \in SUBSET Tx
    BY DEF TypeOK, PendingRecovery
  <2> QED BY <2>1, BootFinite
<1>2. BootLeft = Of(proc, l, p) /\ BootLeft' = Of(proc', k, q)
    BY DEF BootLeft
<1>3. \/ <<proc, proc'>> \in {<<"down", "recover">>, <<"recover", "teardown">>,
                              <<"recover", "recoverRemove">>, <<"teardown", "teardownRemove">>,
                              <<"teardown", "serving">>, <<"recoverRemove", "teardown">>,
                              <<"teardownRemove", "serving">>,
                              <<"recoverRemove", "recoverJournal">>,
                              <<"teardownRemove", "teardownJournal">>,
                              <<"recoverJournal", "teardown">>, <<"teardownJournal", "serving">>}
      \/ proc \in {"recoverRemove", "teardownRemove"} /\ proc' = proc /\ k = l - 1
      \/ proc \in {"recoverJournal", "teardownJournal"} /\ proc' = proc /\ q = p - 1
  <2>1. CASE Start \/ Recover \/ Teardown \/ RemovedAll \/ ReconciledAll \/ JournalUnreadable
    BY <2>1 DEF Start, Recover, Teardown, RemovedAll, ReconciledAll, JournalUnreadable, GotoBoot,
                AfterError
  <2>2. CASE RemoveOne
    <3>1. PICK i \in listed : \/ listed' = listed \ {i} /\ proc' = proc
                              \/ proc' = AfterError(proc)
      BY <2>2 DEF RemoveOne, GotoBoot
    <3>2. proc \in {"recoverRemove", "teardownRemove"}
      BY <2>2 DEF RemoveOne
    <3>3. CASE listed' = listed \ {i} /\ proc' = proc
      <4>1. listed \in SUBSET Iface
        BY DEF TypeOK
      <4>2. k = l - 1
        BY <3>3, <4>1, BootFinite
      <4> QED BY <3>2, <3>3, <4>2
    <3>4. CASE proc' = AfterError(proc)
      BY <3>2, <3>4 DEF AfterError
    <3> QED BY <3>1, <3>3, <3>4
  <2>3. CASE ReconcileJournal
    <3>1. PICK t \in PendingRecovery :
            \/ disk' = [disk EXCEPT ![t] = Reconciled(disk[t])] /\ proc' = proc
            \/ proc' = AfterError(proc)
      BY <2>3 DEF ReconcileJournal, Save, GotoBoot
    <3>2. proc \in {"recoverJournal", "teardownJournal"}
      BY <2>3 DEF ReconcileJournal
    <3>3. CASE disk' = [disk EXCEPT ![t] = Reconciled(disk[t])] /\ proc' = proc
      <4>1. t \in Tx /\ disk \in [Tx -> Record] /\ PendingRecovery \in SUBSET Tx
        BY DEF PendingRecovery, TypeOK
      <4>2. disk'[t] = Reconciled(disk[t]) /\ \A u \in Tx \ {t} : disk'[u] = disk[u]
        BY <3>3, <4>1
      <4>3. ~NeedsRecovery(disk'[t])
        BY <4>1, <4>2, ReconciledIsSettled
      <4>4. PendingRecovery' = {u \in Tx : NeedsRecovery(disk'[u])}
        BY DEF PendingRecovery, NeedsRecovery
      <4>5. PendingRecovery' = PendingRecovery \ {t}
        BY <4>2, <4>3, <4>4 DEF PendingRecovery
      <4>6. q = p - 1
        BY <4>1, <4>5, BootFinite
      <4> QED BY <3>2, <3>3, <4>6
    <3>4. CASE proc' = AfterError(proc)
      BY <3>2, <3>4 DEF AfterError
    <3> QED BY <3>1, <3>3, <3>4
  <2> QED BY <2>1, <2>2, <2>3 DEF BootStep
<1> HIDE DEF n, m, l, k, p, q
<1> QED BY <1>1, <1>2, <1>3

(* The measure of a start-up is a number.                                  *)
LEMMA BootLeftType ==
    ASSUME IsFiniteSet(Iface), IsFiniteSet(Tx), TypeOK
    PROVE  BootLeft \in Nat
<1>1. listed \in SUBSET Iface /\ PendingRecovery \in SUBSET Tx
    BY DEF TypeOK, PendingRecovery
<1>2. /\ Cardinality(Iface) \in Nat /\ Cardinality(Tx) \in Nat
      /\ Cardinality(listed) \in Nat /\ Cardinality(PendingRecovery) \in Nat
    BY <1>1, BootFinite
<1> QED BY <1>2 DEF BootLeft

(* A start-up reaches the service in a number of steps that the interfaces *)
(* and the transactions in the journal bound, however Recover and Down     *)
(* fail on the way: with the weak fairness of BootStep, this is why        *)
(* ServiceReturns holds.                                                   *)
THEOREM StartUpGetsDone ==
    ASSUME IsFiniteSet(Iface), IsFiniteSet(Tx)
    PROVE  Spec => BootCountsDown /\ [](BootLeft \in Nat)
<1> DEFINE Down == /\ BootStep => BootLeft' < BootLeft
                   /\ BootLeft' <= BootLeft \/ Crash
<1>1. OnwardInv /\ [Next]_vars => OnwardInv'
    BY NextOnward
<1>2. ASSUME OnwardInv, Next PROVE Down
  <2>1. TypeOK /\ TypeOK'
    BY <1>1, <1>2 DEF OnwardInv, JournalInv
  <2>2. BootLeft \in Nat /\ BootLeft' \in Nat
    <3>1. (TypeOK => BootLeft \in Nat)'
      BY BootLeftType, PTL
    <3> QED BY <2>1, <3>1, BootLeftType
  <2>3. BootStep => BootLeft' < BootLeft
    BY <2>1, BootStepCountsDown
  <2>4. CASE BootStep
    BY <2>2, <2>3, <2>4
  <2>5. CASE Crash
    BY <2>3, <2>5
  <2>6. CASE ~BootStep /\ ~Crash
    <3>1. \/ proc = "serving" /\ proc' = "serving"
          \/ UNCHANGED <<proc, listed, disk>>
      <4>1. ASSUME NEW t \in Tx, ApplyInterface(t) \/ ApplyRoutes(t) \/ ApplyStep(t) \/ Cancel(t)
            PROVE  proc = "serving" /\ proc' = "serving"
        BY <4>1 DEF ApplyInterface, ApplyRoutes, StartApply, Cancel, ApplyStep, Begin, Complete,
                    Commit, EnsureLink, ConfigureDevice, LinkSetUp, ObserveInterface, ApplyPeer,
                    EnsurePeerRoutes, AddRoute, Effect, EffectFails, Compensate, Close, bootVars
      <4>2. ASSUME NEW i \in Iface,
                   Remove(i) \/ \E d \in Prefix : WithdrawRoute(i, d) \/ OperatorRoute(i, d)
            PROVE  UNCHANGED <<proc, listed, disk>>
        BY <4>2 DEF Remove, WithdrawRoute, OperatorRoute, bootVars
      <4> QED BY <1>2, <2>6, <4>1, <4>2 DEF Next
    <3>2. BootLeft' = BootLeft
      <4>1. CASE proc = "serving" /\ proc' = "serving"
        BY <4>1 DEF BootLeft
      <4>2. CASE UNCHANGED <<proc, listed, disk>>
        BY <4>2 DEF BootLeft, PendingRecovery, NeedsRecovery
      <4> QED BY <3>1, <4>1, <4>2
    <3> QED BY <2>2, <2>6, <3>2
  <2> QED BY <2>4, <2>5, <2>6
<1> HIDE DEF Down
<1>3. OnwardInv /\ [Next]_vars => [Down]_vars
    BY <1>2
<1>4. OnwardInv => BootLeft \in Nat
    BY BootLeftType DEF OnwardInv, JournalInv
<1>5. Spec => [][Down]_vars /\ [](BootLeft \in Nat)
    BY InitOnward, <1>1, <1>3, <1>4, PTL DEF Spec
<1> QED BY <1>5 DEF Down, BootCountsDown
=============================================================================
