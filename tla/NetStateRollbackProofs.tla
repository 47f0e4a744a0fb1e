----------------------- MODULE NetStateRollbackProofs -----------------------
(* What recovery and rollback promise, on top of NetStateProofs: a clean   *)
(* start-up leaves no orphan, a rollback spares what it did not introduce, *)
(* and, where the adapter obeys, a failed Apply leaves nothing behind.     *)
EXTENDS NetStateProofs

USE DEF Running, Busy, Reached, EffectSteps

(* A step of t's Apply, for everything that is not t's.                    *)
OnlyOwn(t) ==
    /\ proc = "serving" /\ Running(t) /\ pc'[t] # "none"
    /\ \A u \in Tx \ {t} : /\ pc'[u] = pc[u] /\ mem'[u] = mem[u] /\ disk'[u] = disk[u]
                           /\ todo'[u] = todo[u] /\ cur'[u] = cur[u]
    /\ UNCHANGED <<plan, cancelled, proc, listed, clean, crashes>>
    /\ plan[t].iface \in Iface \ Foreign
    /\ \A i \in Iface \ {plan[t].iface} :
          res'[i] = res[i] /\ dev'[i] = dev[i] /\ proute'[i] = proute[i]

(* A step that saves the record with its operation in hand marked.         *)
Marks(t) ==
    /\ OnlyOwn(t) /\ UNCHANGED <<res, proute, dev>>
    /\ pc[t] # "undo"
    /\ pc'[t] \in {"next", "ok", "undo", "link", "peer", "route", "complete"}
    /\ pc'[t] = "ok" => pc[t] = "next" /\ mem'[t].status = mem[t].status
    /\ pc'[t] = "link" => cur'[t] = "create"
    /\ pc'[t] = "complete" => cur'[t] \notin Peer
    /\ pc'[t] = "undo" => todo'[t] = {o \in Op : mem'[t].status[o] = "applied"}
    /\ pc'[t] # "undo" => todo'[t] = todo[t]
    /\ \A o \in Op :
          /\ mem'[t].status[o] = "none" <=> mem[t].status[o] = "none"
          /\ mem[t].status[o] = "applied" => mem'[t].status[o] = "applied"
          /\ mem'[t].status[o] = "applied" /\ mem[t].status[o] # "applied"
                => pc[t] = "complete" /\ o = cur[t]
    /\ pc[t] = "complete" => mem'[t].status[cur[t]] = "applied"
    /\ \/ pc[t] \in {"next", "complete", "link", "peer", "route"}
       \/ "partial" \in Faults \/ cancelled[t]
    /\ \/ mem'[t].ended = mem[t].ended /\ mem'[t].committed = mem[t].committed
       \/ mem'[t].committed
    /\ disk'[t] \in {disk[t], mem'[t]}

(* A step on the host, with the journal as it is.                          *)
Acts(t) ==
    /\ OnlyOwn(t) /\ UNCHANGED <<disk, mem, cur, todo>>
    /\ pc[t] \in EffectSteps
    /\ pc'[t] \in {"config", "up", "observe", "complete", "peerroute"}
    /\ pc'[t] = "peerroute" => pc[t] = "peer"
    /\ pc'[t] \in {"config", "up", "observe"} => pc[t] \in {"link", "config", "up"}
    /\ pc'[t] = "complete" => pc[t] \in {"observe", "peerroute", "route"}
    /\ LET i == plan[t].iface
       IN  /\ \A r \in Resource :
                \/ res'[i][r] = res[i][r]
                \/ /\ pc[t] \in {"link", "peer", "route"} /\ r = cur[t]
                   /\ res[i][r] = None /\ res'[i][r] = t
           /\ pc[t] \in {"link", "peer", "route"} => res'[i][cur[t]] # None
           /\ proute[i] \subseteq proute'[i]
           /\ pc[t] = "peerroute" => cur[t] \in proute'[i]

(* A turn of the rollback, on operation o.                                 *)
Undoes(t, o) ==
    /\ OnlyOwn(t) /\ UNCHANGED <<disk, pc, cur>>
    /\ pc[t] = "undo" /\ o \in todo[t] /\ todo'[t] = todo[t] \ {o}
    /\ mem'[t].ended = mem[t].ended /\ mem'[t].committed = mem[t].committed
    /\ \A q \in Op : mem'[t].status[q] # mem[t].status[q] => q = o /\ mem'[t].status[q] # "none"
    /\ LET i == plan[t].iface
       IN  /\ o \in plan[t].existed => UNCHANGED <<res, proute, dev>>
           /\ \A r \in Resource : res'[i][r] = res[i][r] \/ res'[i][r] = None
           /\ o # "create" => \A r \in Resource \ {o} : res'[i][r] = res[i][r]
           /\ o # "create" => proute[i] \ {o} \subseteq proute'[i]
           /\ o = "create" =>
                 \/ UNCHANGED <<res, proute, dev>>
                 \/ \A r \in Resource : res'[i][r] = None
           /\ \/ "undo" \in Faults \/ cancelled[t] \/ o \in plan[t].existed
              \/ o \in Resource => res'[i][o] = None

(* The end of a rollback.                                                  *)
Closes(t) ==
    /\ OnlyOwn(t) /\ UNCHANGED <<res, proute, dev, todo>>
    /\ pc[t] = "undo" /\ pc'[t] = "err" /\ todo[t] = {}
    /\ mem'[t].status = mem[t].status
    /\ disk'[t] \in {disk[t], mem'[t]}

(* A step that journals marks: Begin, Complete, Commit, and an effect's    *)
(* failure.                                                                *)
LEMMA MarkShape ==
    ASSUME JournalInv, NEW t \in Tx,
           Begin(t) \/ Complete(t) \/ Commit(t) \/ EffectFails(t)
    PROVE  Marks(t)
<1> USE DEF Goto, Save, SaveFails, Fail, hostVars, bootVars
<1>a. /\ TypeOK /\ mem[t] \in Record /\ cur[t] \in Op
      /\ mem \in [Tx -> Record] /\ disk \in [Tx -> Record] /\ pc \in [Tx -> Steps]
      /\ cur \in [Tx -> Op] /\ todo \in [Tx -> SUBSET Op]
    BY DEF JournalInv, TypeOK
<1>b. Running(t) => plan[t].iface \in Iface \ Foreign
    BY DEF JournalInv, RunsAlone
<1>c. ASSUME NEW o \in Op, NEW s \in {"applying", "applied", "failed"}
      PROVE  /\ SetStatus(mem[t], o, s) \in Record
             /\ SetStatus(mem[t], o, s).status[o] = s
             /\ \A q \in Op \ {o} : SetStatus(mem[t], o, s).status[q] = mem[t].status[q]
             /\ SetStatus(mem[t], o, s).ended = mem[t].ended
             /\ SetStatus(mem[t], o, s).committed = mem[t].committed
  <2>1. s \in Status
    BY DEF Status
  <2>2. /\ SetStatus(mem[t], o, s).ended = mem[t].ended
        /\ SetStatus(mem[t], o, s).committed = mem[t].committed
    BY <1>a DEF SetStatus, Record
  <2> QED BY <1>a, <2>1, <2>2, SetStatusType
<1>1. CASE Begin(t)
  <2>1. PICK o \in Op :
          LET rec == SetStatus(mem[t], o, "applying")
          IN  /\ mem[t].status[o] = "planned"
              /\ cur' = [cur EXCEPT ![t] = o]
              /\ mem' = [mem EXCEPT ![t] = rec]
              /\ \/ Save(t, rec) /\ Goto(t, FirstStep(o))
                 \/ SaveFails(t, rec) /\ Fail(t, rec)
    BY <1>1 DEF Begin
  <2> DEFINE rec == SetStatus(mem[t], o, "applying")
  <2>2. /\ rec \in Record /\ rec.status[o] = "applying"
        /\ \A q \in Op \ {o} : rec.status[q] = mem[t].status[q]
        /\ rec.ended = mem[t].ended /\ rec.committed = mem[t].committed
    BY <1>c
  <2>3. /\ pc[t] = "next" /\ proc = "serving"
        /\ UNCHANGED <<res, proute, dev, plan, cancelled, proc, listed, clean, crashes>>
    BY <1>1 DEF Begin
  <2>4. /\ FirstStep(o) \in {"link", "peer", "route", "complete"}
        /\ FirstStep(o) = "link" => o = "create"
        /\ FirstStep(o) = "complete" => o \notin Peer
    BY DEF FirstStep
  <2>5. mem'[t] = rec /\ cur'[t] = o /\ disk'[t] \in {disk[t], rec}
    BY <1>a, <2>1
  <2>6. \/ pc'[t] = FirstStep(o) /\ todo'[t] = todo[t]
        \/ pc'[t] = "undo" /\ todo'[t] = {q \in Op : rec.status[q] = "applied"}
    BY <1>a, <2>1
  <2>8. \A u \in Tx \ {t} : /\ pc'[u] = pc[u] /\ mem'[u] = mem[u] /\ disk'[u] = disk[u]
                              /\ todo'[u] = todo[u] /\ cur'[u] = cur[u]
    BY <1>a, <2>1
  <2>7. OnlyOwn(t)
    BY <1>b, <2>3, <2>4, <2>6, <2>8 DEF OnlyOwn
  <2> HIDE DEF rec
  <2> QED BY <2>1, <2>2, <2>3, <2>4, <2>5, <2>6, <2>7 DEF Marks
<1>2. CASE Complete(t) \/ EffectFails(t)
  <2> DEFINE s == IF pc[t] = "complete" THEN "applied" ELSE "failed"
             rec == SetStatus(mem[t], cur[t], s)
  <2>1. /\ rec \in Record /\ rec.status[cur[t]] = s
        /\ \A q \in Op \ {cur[t]} : rec.status[q] = mem[t].status[q]
        /\ rec.ended = mem[t].ended /\ rec.committed = mem[t].committed
    BY <1>a, <1>c
  <2>2. /\ pc[t] \in EffectSteps \cup {"complete"} /\ proc = "serving"
        /\ \/ pc[t] \in {"complete", "link", "peer", "route"}
           \/ "partial" \in Faults \/ cancelled[t]
    BY <1>2 DEF Complete, EffectFails, EffectRefused
  <2>3. /\ mem' = [mem EXCEPT ![t] = rec]
        /\ UNCHANGED <<res, proute, dev, plan, cur, cancelled, proc, listed, clean, crashes>>
        /\ \/ pc[t] = "complete" /\ Save(t, rec) /\ Goto(t, "next")
           \/ (Save(t, rec) \/ SaveFails(t, rec)) /\ Fail(t, rec)
    <3>1. CASE Complete(t)
      BY <3>1 DEF Complete
    <3>2. CASE EffectFails(t)
      BY <3>2 DEF EffectFails, EffectRefused
    <3> QED BY <1>2, <3>1, <3>2
  <2>4. mem[t].status[cur[t]] = "applying"
    BY <2>2 DEF JournalInv, EffectJournaled
  <2>5. mem'[t] = rec /\ disk'[t] \in {disk[t], rec}
    BY <1>a, <2>3
  <2>6. \/ pc'[t] = "next" /\ todo'[t] = todo[t]
        \/ pc'[t] = "undo" /\ todo'[t] = {q \in Op : rec.status[q] = "applied"}
    BY <1>a, <2>3
  <2> HIDE DEF rec
  <2>8. \A u \in Tx \ {t} : /\ pc'[u] = pc[u] /\ mem'[u] = mem[u] /\ disk'[u] = disk[u]
                              /\ todo'[u] = todo[u] /\ cur'[u] = cur[u]
    BY <1>a, <2>3
  <2>7. OnlyOwn(t)
    BY <1>b, <2>2, <2>3, <2>6, <2>8 DEF OnlyOwn
  <2> QED BY <1>a, <2>1, <2>2, <2>3, <2>4, <2>5, <2>6, <2>7 DEF Marks
<1>3. CASE Commit(t)
  <2> DEFINE rec == [mem[t] EXCEPT !.ended = TRUE, !.committed = TRUE]
  <2>1. rec \in Record /\ rec.status = mem[t].status /\ rec.committed
    BY <1>a, RecordType DEF Record
  <2>2. /\ pc[t] = "next" /\ proc = "serving" /\ mem' = [mem EXCEPT ![t] = rec]
        /\ UNCHANGED <<res, proute, dev, plan, cur, cancelled, proc, listed, clean, crashes>>
        /\ \/ Save(t, rec) /\ Goto(t, "ok")
           \/ SaveFails(t, rec) /\ Fail(t, rec)
    BY <1>3 DEF Commit
  <2>3. mem'[t] = rec /\ disk'[t] \in {disk[t], rec}
    BY <1>a, <2>2
  <2>4. \/ pc'[t] = "ok" /\ todo'[t] = todo[t]
        \/ pc'[t] = "undo" /\ todo'[t] = {q \in Op : rec.status[q] = "applied"}
    BY <1>a, <2>2
  <2> HIDE DEF rec
  <2>8. \A u \in Tx \ {t} : /\ pc'[u] = pc[u] /\ mem'[u] = mem[u] /\ disk'[u] = disk[u]
                              /\ todo'[u] = todo[u] /\ cur'[u] = cur[u]
    BY <1>a, <2>2
  <2>5. OnlyOwn(t)
    BY <1>b, <2>2, <2>4, <2>8 DEF OnlyOwn
  <2> QED BY <2>1, <2>2, <2>3, <2>4, <2>5 DEF Marks
<1> QED BY <1>1, <1>2, <1>3

(* A step of the adapter's acts on the host, and on nothing of Apply's.    *)
LEMMA ActShape ==
    ASSUME JournalInv, NEW t \in Tx,
           \/ EnsureLink(t) \/ ConfigureDevice(t) \/ LinkSetUp(t) \/ ObserveInterface(t)
           \/ ApplyPeer(t) \/ EnsurePeerRoutes(t) \/ AddRoute(t)
    PROVE  Acts(t)
<1> USE DEF Goto, hostVars, bootVars
<1> DEFINE i == plan[t].iface
<1>a. /\ TypeOK /\ cur[t] \in Op /\ pc \in [Tx -> Steps]
      /\ res \in [Iface -> [Resource -> Owner]] /\ proute \in [Iface -> SUBSET Peer]
      /\ dev \in [Iface -> [cfg : Owner, up : BOOLEAN]]
    BY DEF JournalInv, TypeOK
<1>b. Running(t) => i \in Iface \ Foreign
    BY DEF JournalInv, RunsAlone
<1>c. /\ pc[t] = "link" => cur[t] = "create"
      /\ pc[t] \in {"link", "peer", "route"} => cur[t] \in Resource
      /\ pc[t] = "peerroute" => cur[t] \in Peer
    BY CreateIsResource DEF JournalInv, EffectJournaled, Resource
<1>d. t # None
    BY NetStateAssumption
<1>e. \/ Effect(t, "link", "config") \/ Effect(t, "config", "up")
      \/ Effect(t, "up", "observe") \/ Effect(t, "observe", "complete")
      \/ Effect(t, "peer", "peerroute") \/ Effect(t, "peerroute", "complete")
      \/ Effect(t, "route", "complete")
    BY DEF EnsureLink, ConfigureDevice, LinkSetUp, ObserveInterface, ApplyPeer,
           EnsurePeerRoutes, AddRoute
<1>f. /\ proc = "serving" /\ pc[t] \in EffectSteps
      /\ pc'[t] = CASE pc[t] = "link" -> "config" [] pc[t] = "config" -> "up"
                    [] pc[t] = "up" -> "observe"  [] pc[t] = "peer" -> "peerroute"
                    [] OTHER -> "complete"
      /\ \A u \in Tx \ {t} : pc'[u] = pc[u]
      /\ UNCHANGED <<disk, mem, plan, cur, todo, cancelled, proc, listed, clean, crashes>>
    BY <1>a, <1>e DEF Effect
<1>g. i \in Iface \ Foreign
    BY <1>b, <1>f
<1>h. \/ /\ pc[t] \in {"link", "peer", "route"} /\ UNCHANGED <<proute, dev>>
         /\ res' = [res EXCEPT ![i][cur[t]] = IF @ = None THEN t ELSE @]
      \/ pc[t] \notin {"link", "peer", "route"} /\ res' = res
  <2>1. CASE EnsureLink(t)
    BY <2>1, <1>c DEF EnsureLink, Effect, Introduce
  <2>2. CASE ApplyPeer(t) \/ AddRoute(t)
    BY <2>2 DEF ApplyPeer, AddRoute, Effect, Introduce
  <2>3. CASE ConfigureDevice(t) \/ LinkSetUp(t) \/ ObserveInterface(t) \/ EnsurePeerRoutes(t)
    BY <2>3 DEF ConfigureDevice, LinkSetUp, ObserveInterface, EnsurePeerRoutes, Effect
  <2> QED BY <2>1, <2>2, <2>3
<1>k. /\ pc[t] = "peerroute" => proute' = [proute EXCEPT ![i] = @ \cup {cur[t]}]
      /\ pc[t] # "peerroute" => proute' = proute
    BY DEF EnsureLink, ConfigureDevice, LinkSetUp, ObserveInterface, ApplyPeer,
           EnsurePeerRoutes, AddRoute, Effect
<1>l. /\ pc[t] = "config" => dev' = [dev EXCEPT ![i].cfg = t]
      /\ pc[t] = "up" => dev' = [dev EXCEPT ![i].up = TRUE]
      /\ pc[t] \notin {"config", "up"} => dev' = dev
    BY DEF EnsureLink, ConfigureDevice, LinkSetUp, ObserveInterface, ApplyPeer,
           EnsurePeerRoutes, AddRoute, Effect
<1> HIDE DEF i
<1>1. /\ \A r \in Resource :
            \/ res'[i][r] = res[i][r]
            \/ /\ pc[t] \in {"link", "peer", "route"} /\ r = cur[t]
               /\ res[i][r] = None /\ res'[i][r] = t
      /\ pc[t] \in {"link", "peer", "route"} => res'[i][cur[t]] # None
      /\ \A j \in Iface \ {i} : res'[j] = res[j]
    BY <1>a, <1>c, <1>d, <1>g, <1>h
<1>2. /\ proute[i] \subseteq proute'[i] /\ (pc[t] = "peerroute" => cur[t] \in proute'[i])
      /\ \A j \in Iface \ {i} : proute'[j] = proute[j]
    BY <1>a, <1>g, <1>k
<1>3. \A j \in Iface \ {i} : dev'[j] = dev[j]
    BY <1>a, <1>g, <1>l
<1>4. OnlyOwn(t)
    BY <1>f, <1>g, <1>1, <1>2, <1>3 DEF OnlyOwn, i
<1> QED BY <1>f, <1>1, <1>2, <1>4 DEF Acts, i

(* A step of compensate undoes one operation, spares it or fails to undo   *)
(* it.                                                                     *)
LEMMA UndoShape ==
    ASSUME JournalInv, NEW t \in Tx, Compensate(t)
    PROVE  \E o \in Op : Undoes(t, o)
<1> DEFINE i == plan[t].iface
<1>a. PICK o \in todo[t] :
        /\ todo' = [todo EXCEPT ![t] = @ \ {o}]
        /\ \/ /\ Spared(t, o) /\ mem' = [mem EXCEPT ![t] = SetStatus(mem[t], o, "rolledback")]
              /\ UNCHANGED hostVars
           \/ /\ ~Spared(t, o) /\ mem' = [mem EXCEPT ![t] = SetStatus(mem[t], o, "rolledback")]
              /\ Undone(i, o)
           \/ ~Spared(t, o) /\ NotUndone(t, i, o) /\ UNCHANGED mem
    BY DEF Compensate
<1>b. /\ TypeOK /\ pc[t] = "undo" /\ proc = "serving"
      /\ i \in Iface \ Foreign /\ o \in Op
      /\ mem \in [Tx -> Record] /\ mem[t] \in Record /\ todo \in [Tx -> SUBSET Op]
      /\ UNCHANGED <<disk, plan, pc, cur, cancelled, proc, listed, clean, crashes>>
    BY <1>a DEF Compensate, JournalInv, RunsAlone, TypeOK, bootVars
<1>c. /\ res \in [Iface -> [Resource -> Owner]] /\ proute \in [Iface -> SUBSET Peer]
      /\ dev \in [Iface -> [cfg : Owner, up : BOOLEAN]]
    BY <1>b DEF TypeOK
<1>1. /\ \A q \in Op : mem'[t].status[q] # mem[t].status[q] =>
             q = o /\ mem'[t].status[q] # "none"
      /\ mem'[t].ended = mem[t].ended /\ mem'[t].committed = mem[t].committed
      /\ \A u \in Tx \ {t} : mem'[u] = mem[u]
  <2>1. CASE mem' = mem
    BY <2>1
  <2>2. CASE mem' = [mem EXCEPT ![t] = SetStatus(mem[t], o, "rolledback")]
    <3> DEFINE rec == SetStatus(mem[t], o, "rolledback")
    <3>1. /\ rec.status[o] = "rolledback"
          /\ \A q \in Op \ {o} : rec.status[q] = mem[t].status[q]
      BY <1>b, SetStatusType DEF Status
    <3>2. rec.ended = mem[t].ended /\ rec.committed = mem[t].committed
      BY <1>b DEF SetStatus, Record
    <3>3. mem'[t] = rec /\ \A u \in Tx \ {t} : mem'[u] = mem[u]
      BY <1>b, <2>2
    <3> HIDE DEF rec
    <3> QED BY <3>1, <3>2, <3>3
  <2> QED BY <1>a, <2>1, <2>2
<1>2. todo'[t] = todo[t] \ {o} /\ \A u \in Tx \ {t} : todo'[u] = todo[u]
    BY <1>a, <1>b
<1> DEFINE Host ==
      /\ o \in plan[t].existed => UNCHANGED <<res, proute, dev>>
      /\ \A r \in Resource : res'[i][r] = res[i][r] \/ res'[i][r] = None
      /\ o # "create" => \A r \in Resource \ {o} : res'[i][r] = res[i][r]
      /\ o # "create" => proute[i] \ {o} \subseteq proute'[i]
      /\ o = "create" =>
            \/ UNCHANGED <<res, proute, dev>>
            \/ \A r \in Resource : res'[i][r] = None
      /\ \/ "undo" \in Faults \/ cancelled[t] \/ o \in plan[t].existed
         \/ o \in Resource => res'[i][o] = None
      /\ \A j \in Iface \ {i} : res'[j] = res[j] /\ dev'[j] = dev[j] /\ proute'[j] = proute[j]
<1>3. Host
  <2>1. CASE Spared(t, o) /\ UNCHANGED hostVars
    BY <2>1 DEF Spared, hostVars
  <2>2. CASE ~Spared(t, o) /\ NotUndone(t, i, o)
    <3>0. o \notin plan[t].existed /\ i \in Iface
      BY <1>b, <2>2 DEF Spared
    <3>1. CASE (cancelled[t] \/ "undo" \in Faults) /\ UNCHANGED hostVars
      BY <3>0, <3>1 DEF hostVars
    <3>2. CASE /\ o \in Peer /\ "undo" \in Faults
               /\ proute' = [proute EXCEPT ![i] = @ \ {o}] /\ UNCHANGED <<res, dev>>
      <4>1. o # "create"
        BY <3>2, NetStateAssumption
      <4>2. proute'[i] = proute[i] \ {o} /\ \A j \in Iface \ {i} : proute'[j] = proute[j]
        BY <1>c, <3>0, <3>2
      <4> HIDE DEF i
      <4> QED BY <3>0, <3>2, <4>1, <4>2
    <3> QED BY <2>2, <3>1, <3>2 DEF NotUndone
  <2>3. CASE ~Spared(t, o) /\ Undone(i, o)
    <3>0. o \notin plan[t].existed /\ i \in Iface
      BY <1>b, <2>3 DEF Spared
    <3>1. CASE o = "create"
      <4>1. RemoveInterface(i)
        BY <2>3, <3>1, NetStateAssumption DEF Undone
      <4>2. /\ \A r \in Resource : res'[i][r] = None
            /\ \A j \in Iface \ {i} : res'[j] = res[j] /\ dev'[j] = dev[j] /\ proute'[j] = proute[j]
        BY <1>c, <3>0, <4>1 DEF RemoveInterface
      <4> HIDE DEF i
      <4> QED BY <3>0, <3>1, <4>2
    <3>2. CASE o \in Peer \cup Prefix
      <4>1. o # "create" /\ o \in Resource /\ ~(o \in Peer /\ o \in Prefix)
        BY <3>2, NetStateAssumption DEF Resource
      <4>2. RemovePeer(i, o) \/ RemoveRoute(i, o)
        BY <2>3, <3>2, <4>1 DEF Undone
      <4>3. /\ res' = [res EXCEPT ![i][o] = None] /\ dev' = dev
            /\ proute' = proute \/ proute' = [proute EXCEPT ![i] = @ \ {o}]
        BY <4>2 DEF RemovePeer, RemoveRoute
      <4>4. /\ res'[i][o] = None /\ \A r \in Resource \ {o} : res'[i][r] = res[i][r]
            /\ \A j \in Iface \ {i} : res'[j] = res[j] /\ proute'[j] = proute[j]
            /\ proute[i] \ {o} \subseteq proute'[i]
        BY <1>c, <3>0, <4>1, <4>3
      <4> HIDE DEF i
      <4> QED BY <3>0, <4>1, <4>3, <4>4
    <3>3. CASE o \notin Resource
      <4>1. UNCHANGED hostVars
        BY <2>3, <3>3, NetStateAssumption DEF Undone, Resource
      <4> QED BY <3>0, <3>3, <4>1, CreateIsResource DEF hostVars
    <3> QED BY <3>1, <3>2, <3>3 DEF Resource
  <2> QED BY <1>a, <2>1, <2>2, <2>3
<1>4. OnlyOwn(t)
    BY <1>1, <1>2, <1>3, <1>b DEF OnlyOwn
<1>5. Undoes(t, o)
    BY <1>1, <1>2, <1>3, <1>4, <1>a, <1>b DEF Undoes
<1> QED BY <1>5, <1>b

(* The end of a rollback closes the record.                                *)
LEMMA CloseShape ==
    ASSUME JournalInv, NEW t \in Tx, Close(t)
    PROVE  Closes(t)
<1> USE DEF Goto, Save, SaveFails, hostVars, bootVars
<1> DEFINE rec == [mem[t] EXCEPT !.ended = TRUE]
<1>a. /\ mem[t] \in Record /\ mem \in [Tx -> Record] /\ disk \in [Tx -> Record]
      /\ pc \in [Tx -> Steps]
    BY DEF JournalInv, TypeOK
<1>b. Running(t) => plan[t].iface \in Iface \ Foreign
    BY DEF JournalInv, RunsAlone
<1>1. rec \in Record /\ rec.status = mem[t].status
    BY <1>a, RecordType
<1>2. /\ proc = "serving" /\ pc[t] = "undo" /\ todo[t] = {}
      /\ mem' = [mem EXCEPT ![t] = rec]
      /\ disk' = [disk EXCEPT ![t] = rec] \/ disk' = disk
      /\ pc' = [pc EXCEPT ![t] = "err"]
      /\ UNCHANGED <<res, proute, dev, plan, cur, todo, cancelled, proc, listed, clean, crashes>>
    BY DEF Close, Compensated
<1> HIDE DEF rec
<1>3. /\ mem'[t] = rec /\ disk'[t] \in {disk[t], rec} /\ pc'[t] = "err"
      /\ \A u \in Tx \ {t} : pc'[u] = pc[u] /\ mem'[u] = mem[u] /\ disk'[u] = disk[u]
    BY <1>a, <1>2
<1>4. OnlyOwn(t)
    BY <1>b, <1>2, <1>3 DEF OnlyOwn
<1> QED BY <1>1, <1>2, <1>3, <1>4 DEF Closes

(* Every step of an Apply has one of these shapes.                         *)
LEMMA ApplyShape ==
    ASSUME JournalInv, NEW t \in Tx, ApplyStep(t)
    PROVE  Marks(t) \/ Acts(t) \/ (\E o \in Op : Undoes(t, o)) \/ Closes(t)
BY MarkShape, ActShape, UndoShape, CloseShape DEF ApplyStep
-----------------------------------------------------------------------------
(* Peers are resources other than the link.                                *)
LEMMA PeerIsResource ==
    /\ \A p \in Peer : p \in Resource /\ p \in Op /\ p # "create" /\ p \notin Prefix
    /\ \A d \in Prefix : d \in Resource /\ d \in Op /\ d # "create" /\ d \notin Peer
BY NetStateAssumption DEF Resource, Op

(* The specification starts with nothing to roll back.                     *)
LEMMA InitRollback == Init => RollbackInv
<1> SUFFICES ASSUME Init PROVE RollbackInv
    OBVIOUS
<1>1. JournalInv
    BY InitEstablishes
<1>2. StartsClean
    BY CreateIsResource, NetStateAssumption DEF Init, StartsClean
<1>3. UndoesOwn /\ AppliedHeld /\ CommittedExisted /\ CommittedSurvives
    BY DEF Init, UndoesOwn, AppliedHeld, CommittedExisted, CommittedSurvives
<1> QED BY <1>1, <1>2, <1>3 DEF RollbackInv

(* Starting an Apply: a committed one it builds on is recorded as existing.*)
LEMMA StartRollback ==
    ASSUME RollbackInv, NEW t \in Tx, NEW i \in Iface, NEW ops \in SUBSET Op,
           StartApply(t, i, ops)
    PROVE  StartsClean' /\ UndoesOwn' /\ AppliedHeld' /\ CommittedExisted' /\ CommittedSurvives'
<1> DEFINE rec == [NoRecord EXCEPT !.status =
                    [o \in Op |-> IF o \in ops THEN "planned" ELSE "none"]]
<1>a. rec \in Record /\ \A o \in Op : rec.status[o] = IF o \in ops THEN "planned" ELSE "none"
    BY DEF NoRecord, Record, Status
<1>b. /\ proc = "serving" /\ pc[t] = "none" /\ disk[t] = NoRecord
      /\ i \notin Foreign /\ ~Busy(i)
      /\ plan' = [plan EXCEPT ![t] = [iface |-> i, existed |-> Existing(i, ops)]]
      /\ mem' = [mem EXCEPT ![t] = rec]
      /\ disk' = [disk EXCEPT ![t] = rec] \/ disk' = disk
      /\ pc' = [pc EXCEPT ![t] = "next"] \/ pc' = [pc EXCEPT ![t] = "err"]
      /\ UNCHANGED <<res, proute, dev, cur, todo, cancelled, proc, listed, clean, crashes>>
    BY DEF StartApply, Save, SaveFails, Goto, hostVars, bootVars, OwnsInterface
<1>c. JournalInv /\ TypeOK
    BY DEF RollbackInv, JournalInv
<1>d. /\ mem'[t] = rec /\ plan'[t].iface = i /\ plan'[t].existed = Existing(i, ops)
      /\ pc'[t] \in {"next", "err"}
      /\ \A u \in Tx \ {t} : /\ mem'[u] = mem[u] /\ plan'[u] = plan[u] /\ pc'[u] = pc[u]
                             /\ disk'[u] = disk[u]
    BY <1>b, <1>c DEF TypeOK
<1>e. \A j \in Iface, r \in Resource : res[j][r] # t
    BY <1>b, <1>c, CreateIsResource, NoRecordType DEF JournalInv, HostIsJournaled
<1> HIDE DEF rec
<1>1. StartsClean'
    BY <1>b, <1>d DEF StartsClean, RollbackInv
<1>2. UndoesOwn'
  <2>1. todo[t] = {}
    BY <1>b DEF UndoesOwn, RollbackInv
  <2> QED BY <1>b, <1>d, <2>1 DEF UndoesOwn, RollbackInv
<1>3. AppliedHeld'
    BY <1>a, <1>b, <1>d, PeerIsResource DEF AppliedHeld, RollbackInv, Held
<1>4. CommittedExisted'
  <2> SUFFICES ASSUME NEW v \in Tx, NEW u \in Tx, pc'[v] = "ok", Running(u)',
                      res[plan'[u].iface]["create"] = v
               PROVE  /\ mem'[u].status["create"] # "none" => "create" \in plan'[u].existed
                      /\ \A p \in Peer : mem'[v].status[p] = "applied" /\ mem'[u].status[p] # "none"
                            => p \in plan'[u].existed
    BY <1>b DEF CommittedExisted
  <2>1. v # t /\ pc[v] = "ok" /\ mem'[v] = mem[v]
    BY <1>d
  <2>2. CASE u # t
    BY <1>d, <2>1, <2>2 DEF CommittedExisted, RollbackInv
  <2>3. CASE u = t
    <3>1. res[i]["create"] = v /\ v # None
      BY <1>d, <2>3, NetStateAssumption
    <3>2. \A r \in ops \cap Resource : res[i][r] # None => r \in Existing(i, ops)
      BY <3>1 DEF Existing
    <3>3. \A p \in Peer : mem[v].status[p] = "applied" => res[i][p] # None
      BY <2>1, <3>1 DEF CommittedSurvives, RollbackInv
    <3>4. \A o \in Op : mem'[t].status[o] # "none" => o \in ops
      BY <1>a, <1>d
    <3> QED BY <1>d, <2>1, <2>3, <3>1, <3>2, <3>3, <3>4, CreateIsResource, PeerIsResource
  <2> QED BY <2>2, <2>3
<1>5. CommittedSurvives'
    BY <1>b, <1>d DEF CommittedSurvives, RollbackInv
<1> QED BY <1>1, <1>2, <1>3, <1>4, <1>5

(* A step of an Apply: what it undoes is its own and not a committed one's.*)
LEMMA ApplyRollback ==
    ASSUME RollbackInv, NEW t \in Tx, ApplyStep(t)
    PROVE  StartsClean' /\ UndoesOwn' /\ AppliedHeld' /\ CommittedExisted' /\ CommittedSurvives'
<1>a. JournalInv /\ TypeOK
    BY DEF RollbackInv, JournalInv
<1>b. /\ \A u \in Tx : todo[u] \subseteq Op /\ cur[u] \in Op
      /\ \A u \in Tx : u # None /\ u # Operator
    BY <1>a, NetStateAssumption DEF TypeOK
<1>c. OnlyOwn(t)
    BY <1>a, ApplyShape DEF Marks, Acts, Undoes, Closes
<1>d. \A u \in Tx \ {t} : Running(u) => plan[u].iface \in Iface \ {plan[t].iface}
    BY <1>a, <1>c DEF OnlyOwn, RunsAlone, JournalInv
<1>e. \A u \in Tx \ {t} : (Running(u)' <=> Running(u))
    BY <1>c DEF OnlyOwn
<1>f. \A j \in Iface : j # plan[t].iface => res[j]["create"] # t
    BY <1>a, <1>c, CreateIsResource DEF OnlyOwn, MemoryCovers, JournalInv
<1>1. CASE Marks(t)
  <2>1. StartsClean'
    BY <1>1, <1>c DEF Marks, OnlyOwn, StartsClean, RollbackInv
  <2>2. UndoesOwn'
    BY <1>1, <1>b, <1>c DEF Marks, OnlyOwn, UndoesOwn, RollbackInv
  <2>3. AppliedHeld'
    <3> SUFFICES ASSUME NEW u \in Tx, Running(u)', pc'[u] # "undo"
                 PROVE  /\ \A p \in Peer : mem'[u].status[p] = "applied" => Held(plan[u].iface, p)'
                        /\ pc'[u] \in {"link", "config", "up", "observe"} => cur'[u] = "create"
                        /\ pc'[u] = "peerroute" => res'[plan[u].iface][cur'[u]] # None
                        /\ pc'[u] = "complete" /\ cur'[u] \in Peer => Held(plan[u].iface, cur[u])'
      BY <1>c DEF AppliedHeld, OnlyOwn, Held
    <3>1. CASE u = t
      BY <1>1, <1>c, <3>1, PeerIsResource, SMTT(30) DEF Marks, OnlyOwn, AppliedHeld, Held, RollbackInv
    <3>2. CASE u # t
      BY <1>1, <1>c, <1>e, <3>2 DEF Marks, OnlyOwn, AppliedHeld, Held, RollbackInv
    <3> QED BY <3>1, <3>2
  <2>4. CommittedExisted'
    <3> SUFFICES ASSUME NEW v \in Tx, NEW u \in Tx, pc'[v] = "ok", Running(u)',
                        res[plan[u].iface]["create"] = v
                 PROVE  /\ mem'[u].status["create"] # "none" => "create" \in plan[u].existed
                        /\ \A p \in Peer : mem'[v].status[p] = "applied" /\ mem'[u].status[p] # "none"
                              => p \in plan[u].existed
      BY <1>1, <1>c DEF CommittedExisted, Marks, OnlyOwn
    <3>1. CASE v = t
      BY <1>d, <1>e, <1>f, <3>1
    <3>2. CASE v # t /\ u = t
      BY <1>1, <1>c, <3>2, CreateIsResource, PeerIsResource
         DEF Marks, OnlyOwn, CommittedExisted, RollbackInv
    <3>3. CASE v # t /\ u # t
      BY <1>c, <1>e, <3>3 DEF OnlyOwn, CommittedExisted, RollbackInv
    <3> QED BY <3>1, <3>2, <3>3
  <2>5. CommittedSurvives'
    <3> SUFFICES ASSUME NEW v \in Tx, NEW j \in Iface, res[j]["create"] = v, pc'[v] = "ok",
                        NEW p \in Peer, mem'[v].status[p] = "applied"
                 PROVE  res[j][p] # None /\ p \in proute[j]
      BY <1>1 DEF Marks, CommittedSurvives
    <3>1. CASE v = t
      BY <1>1, <1>f, <3>1 DEF Marks, AppliedHeld, Held, RollbackInv
    <3>2. CASE v # t
      BY <1>c, <3>2 DEF OnlyOwn, CommittedSurvives, RollbackInv
    <3> QED BY <3>1, <3>2
  <2> QED BY <2>1, <2>2, <2>3, <2>4, <2>5
<1>2. CASE Acts(t)
  <2>a. \A j \in Iface, r \in Resource :
           \/ res'[j][r] = res[j][r]
           \/ res[j][r] = None /\ res'[j][r] = t /\ j = plan[t].iface
    BY <1>2, <1>c DEF Acts, OnlyOwn
  <2>b. \A j \in Iface : proute[j] \subseteq proute'[j]
    BY <1>2, <1>c DEF Acts, OnlyOwn
  <2>c. \A j \in Iface, p \in Peer : Held(j, p) => Held(j, p)'
    BY <1>b, <2>a, <2>b, PeerIsResource DEF Held
  <2>1. StartsClean'
    BY <1>2, <1>b, <1>c, <2>a, CreateIsResource DEF Acts, OnlyOwn, StartsClean, RollbackInv
  <2>2. UndoesOwn'
    BY <1>2, <1>b, <1>c DEF Acts, OnlyOwn, UndoesOwn, RollbackInv
  <2>3. AppliedHeld'
    <3> SUFFICES ASSUME NEW u \in Tx, Running(u)', pc'[u] # "undo"
                 PROVE  /\ \A p \in Peer : mem[u].status[p] = "applied" => Held(plan[u].iface, p)'
                        /\ pc'[u] \in {"link", "config", "up", "observe"} => cur[u] = "create"
                        /\ pc'[u] = "peerroute" => res'[plan[u].iface][cur[u]] # None
                        /\ pc'[u] = "complete" /\ cur[u] \in Peer => Held(plan[u].iface, cur[u])'
      BY <1>2, <1>c DEF Acts, AppliedHeld, OnlyOwn, Held
    <3>1. CASE u = t
      <4>1. /\ pc[t] = "link" => cur[t] = "create"
            /\ pc[t] = "peer" => cur[t] \in Peer
            /\ pc[t] = "route" => cur[t] \in Prefix
        BY <1>a DEF EffectJournaled, JournalInv
      <4>2. plan[t].iface \in Iface
        BY <1>c DEF OnlyOwn
      <4>3. pc[t] = "peerroute" /\ cur[t] \in Peer => Held(plan[t].iface, cur[t])'
        <5> HAVE pc[t] = "peerroute" /\ cur[t] \in Peer
        <5>1. res[plan[t].iface][cur[t]] # None
          BY DEF AppliedHeld, RollbackInv
        <5>2. res'[plan[t].iface][cur[t]] # None
          BY <1>b, <2>a, <4>2, <5>1, PeerIsResource
        <5> QED BY <1>2, <1>c, <5>2 DEF Held, Acts, OnlyOwn
      <4>4. \A p \in Peer : mem[t].status[p] = "applied" => Held(plan[t].iface, p)'
        BY <1>2, <1>c, <2>c, <4>2 DEF Acts, AppliedHeld, RollbackInv, OnlyOwn, Held
      <4> QED BY <1>2, <3>1, <4>1, <4>3, <4>4, PeerIsResource DEF Acts, AppliedHeld, RollbackInv
    <3>2. CASE u # t
      <4>1. plan[u].iface \in Iface \ {plan[t].iface} /\ Running(u) /\ pc'[u] = pc[u]
        BY <1>c, <1>d, <1>e, <3>2 DEF OnlyOwn
      <4>2. /\ res'[plan[u].iface] = res[plan[u].iface]
            /\ proute'[plan[u].iface] = proute[plan[u].iface]
        BY <1>c, <4>1 DEF OnlyOwn
      <4> QED BY <1>2, <1>c, <4>1, <4>2 DEF AppliedHeld, Held, RollbackInv, Acts, OnlyOwn
    <3> QED BY <3>1, <3>2
  <2>4. CommittedExisted'
    <3> SUFFICES ASSUME NEW v \in Tx, NEW u \in Tx, pc'[v] = "ok", Running(u)',
                        res'[plan[u].iface]["create"] = v
                 PROVE  /\ mem[u].status["create"] # "none" => "create" \in plan[u].existed
                        /\ \A p \in Peer : mem[v].status[p] = "applied" /\ mem[u].status[p] # "none"
                              => p \in plan[u].existed
      BY <1>2, <1>c DEF CommittedExisted, Acts, OnlyOwn
    <3>1. v # t /\ pc[v] = "ok" /\ Running(u) /\ plan[u].iface \in Iface
      BY <1>2, <1>c, <1>d, <1>e DEF Acts, OnlyOwn
    <3>2. res[plan[u].iface]["create"] = v
      BY <2>a, <3>1, CreateIsResource
    <3> QED BY <3>1, <3>2 DEF CommittedExisted, RollbackInv
  <2>5. CommittedSurvives'
    <3> SUFFICES ASSUME NEW v \in Tx, NEW j \in Iface, res'[j]["create"] = v, pc'[v] = "ok",
                        NEW p \in Peer, mem[v].status[p] = "applied"
                 PROVE  Held(j, p)'
      BY <1>2 DEF Acts, CommittedSurvives, Held
    <3>1. v # t /\ pc[v] = "ok"
      BY <1>2, <1>c DEF Acts, OnlyOwn
    <3>2. res[j]["create"] = v
      BY <2>a, <3>1, CreateIsResource
    <3>3. Held(j, p)
      BY <3>1, <3>2 DEF CommittedSurvives, Held, RollbackInv
    <3> QED BY <2>c, <3>3
  <2> QED BY <2>1, <2>2, <2>3, <2>4, <2>5
<1>3. ASSUME NEW o \in Op, Undoes(t, o)
      PROVE  StartsClean' /\ UndoesOwn' /\ AppliedHeld' /\ CommittedExisted' /\ CommittedSurvives'
  <2> DEFINE i == plan[t].iface
  <2>a. i \in Iface \ Foreign /\ pc[t] = "undo" /\ o \in todo[t] /\ pc' = pc /\ disk' = disk
    BY <1>3 DEF Undoes, OnlyOwn
  <2>b. \A j \in Iface, r \in Resource : res'[j][r] # res[j][r] => res'[j][r] = None /\ j = i
    BY <1>3, <1>c DEF Undoes, OnlyOwn
  <2>c. mem[t].status[o] # "none"
    BY <2>a DEF UndoesOwn, RollbackInv
  <2>d. \A q \in Op : mem'[t].status[q] = "none" <=> mem[t].status[q] = "none"
    BY <1>3, <2>c DEF Undoes
  <2> HIDE DEF i
  <2>1. StartsClean'
    BY <1>b, <1>c, <2>a, <2>b, CreateIsResource, NetStateAssumption DEF OnlyOwn, StartsClean, RollbackInv
  <2>2. UndoesOwn'
    BY <1>3, <1>b, <1>c, <2>a, <2>d DEF Undoes, OnlyOwn, UndoesOwn, RollbackInv
  <2>3. AppliedHeld'
    <3> SUFFICES ASSUME NEW u \in Tx, Running(u), pc[u] # "undo"
                 PROVE  /\ \A p \in Peer : mem'[u].status[p] = "applied" => Held(plan[u].iface, p)'
                        /\ pc[u] \in {"link", "config", "up", "observe"} => cur'[u] = "create"
                        /\ pc[u] = "peerroute" => res'[plan[u].iface][cur'[u]] # None
                        /\ pc[u] = "complete" /\ cur'[u] \in Peer => Held(plan[u].iface, cur[u])'
      BY <1>c, <2>a DEF AppliedHeld, OnlyOwn, Held
    <3>1. u # t /\ plan[u].iface \in Iface \ {plan[t].iface} /\ mem'[u] = mem[u] /\ cur'[u] = cur[u]
      BY <1>c, <1>d, <2>a DEF OnlyOwn
    <3>2. /\ res'[plan[u].iface] = res[plan[u].iface]
          /\ proute'[plan[u].iface] = proute[plan[u].iface]
      BY <1>c, <3>1 DEF OnlyOwn
    <3> QED BY <1>c, <3>1, <3>2 DEF AppliedHeld, Held, RollbackInv, OnlyOwn
  <2>4. CommittedExisted'
    <3> SUFFICES ASSUME NEW v \in Tx, NEW u \in Tx, pc[v] = "ok", Running(u),
                        res'[plan[u].iface]["create"] = v
                 PROVE  /\ mem'[u].status["create"] # "none" => "create" \in plan[u].existed
                        /\ \A p \in Peer : mem'[v].status[p] = "applied" /\ mem'[u].status[p] # "none"
                              => p \in plan[u].existed
      BY <1>c, <2>a DEF CommittedExisted, OnlyOwn
    <3>1. v # t /\ mem'[v] = mem[v] /\ plan[u].iface \in Iface
      BY <1>c, <1>d, <2>a DEF OnlyOwn
    <3>2. res[plan[u].iface]["create"] = v
      BY <1>b, <2>b, <3>1, CreateIsResource
    <3>3. \A q \in Op : mem'[u].status[q] = "none" <=> mem[u].status[q] = "none"
      BY <1>c, <2>d DEF OnlyOwn
    <3> QED BY <3>1, <3>2, <3>3, CreateIsResource, PeerIsResource DEF CommittedExisted, RollbackInv
  <2>5. CommittedSurvives'
    <3> SUFFICES ASSUME NEW v \in Tx, NEW j \in Iface, res'[j]["create"] = v, pc[v] = "ok",
                        NEW p \in Peer, mem'[v].status[p] = "applied"
                 PROVE  Held(j, p)'
      BY <2>a DEF CommittedSurvives, Held
    <3>1. v # t /\ mem'[v] = mem[v]
      BY <1>c, <2>a DEF OnlyOwn
    <3>2. res[j]["create"] = v
      BY <1>b, <2>b, CreateIsResource
    <3>3. Held(j, p)
      BY <3>1, <3>2 DEF CommittedSurvives, Held, RollbackInv
    <3>4. CASE j # i
      BY <1>c, <3>3, <3>4 DEF OnlyOwn, Held, i
    <3>5. CASE j = i
      <4>1. /\ "create" \in plan[t].existed \/ o # "create"
            /\ p \in plan[t].existed \/ o # p
        BY <2>a, <2>c, <3>1, <3>2, <3>5 DEF CommittedExisted, RollbackInv, i
      <4>2. CASE o = "create" \/ o = p
        BY <1>3, <3>3, <4>1, <4>2 DEF Undoes, Held
      <4>3. CASE o # "create" /\ o # p
        BY <1>3, <3>3, <3>5, <4>3, PeerIsResource DEF Undoes, Held, i
      <4> QED BY <4>2, <4>3
    <3> QED BY <3>4, <3>5
  <2> QED BY <2>1, <2>2, <2>3, <2>4, <2>5
<1>4. CASE Closes(t)
  <2>1. StartsClean'
    BY <1>4, <1>c DEF Closes, OnlyOwn, StartsClean, RollbackInv
  <2>2. UndoesOwn'
    BY <1>4, <1>b, <1>c DEF Closes, OnlyOwn, UndoesOwn, RollbackInv
  <2>3. AppliedHeld'
    BY <1>4, <1>c DEF Closes, OnlyOwn, AppliedHeld, Held, RollbackInv
  <2>4. CommittedExisted'
    BY <1>4, <1>c DEF Closes, OnlyOwn, CommittedExisted, RollbackInv
  <2>5. CommittedSurvives'
    BY <1>4, <1>c DEF Closes, OnlyOwn, CommittedSurvives, RollbackInv
  <2> QED BY <2>1, <2>2, <2>3, <2>4, <2>5
<1> QED BY <1>1, <1>2, <1>3, <1>4, <1>a, ApplyShape

(* A step that is no Apply's: an interface nobody works on may go, all of  *)
(* it at once, and its peers are otherwise left as they are.               *)
LEMMA QuietRollback ==
    ASSUME RollbackInv,
           UNCHANGED <<mem, plan, pc, cur, todo>>,
           \A j \in Iface :
               \/ /\ res'[j]["create"] = res[j]["create"] /\ proute'[j] = proute[j]
                  /\ \A p \in Peer : res'[j][p] = res[j][p]
               \/ ~Busy(j) /\ \A r \in Resource : res'[j][r] = None
    PROVE  UndoesOwn' /\ AppliedHeld' /\ CommittedExisted' /\ CommittedSurvives'
<1>a. \A t \in Tx : Running(t) => plan[t].iface \in Iface
    BY DEF RunsAlone, JournalInv, RollbackInv
<1>b. \A t \in Tx : t # None
    BY NetStateAssumption
<1>c. \A t \in Tx : pc[t] = "peerroute" => cur[t] \in Peer
    BY DEF EffectJournaled, JournalInv, RollbackInv
<1>d. \A t \in Tx : Running(t) =>
        /\ \A p \in Peer : res'[plan[t].iface][p] = res[plan[t].iface][p]
        /\ proute'[plan[t].iface] = proute[plan[t].iface]
    BY <1>a
<1>1. UndoesOwn'
    BY DEF UndoesOwn, RollbackInv
<1>2. AppliedHeld'
    BY <1>c, <1>d DEF AppliedHeld, Held, RollbackInv
<1>3. CommittedExisted'
    BY <1>a, <1>b, CreateIsResource DEF CommittedExisted, RollbackInv
<1>4. CommittedSurvives'
    BY <1>b, CreateIsResource DEF CommittedSurvives, RollbackInv
<1> QED BY <1>1, <1>2, <1>3, <1>4

(* A route comes or goes: its interface's link and peers are left alone.   *)
LEMMA RouteChanges ==
    ASSUME TypeOK, NEW i \in Iface, NEW d \in Prefix, NEW x \in Owner,
           res' = [res EXCEPT ![i][d] = x]
    PROVE  /\ \A j \in Iface : /\ res'[j]["create"] = res[j]["create"]
                               /\ \A p \in Peer : res'[j][p] = res[j][p]
                               /\ \A e \in Prefix : e # d \/ j # i => res'[j][e] = res[j][e]
           /\ \A j \in Iface \ {i} : res'[j] = res[j]
           /\ res'[i][d] = x
<1>1. res \in [Iface -> [Resource -> Owner]]
    BY DEF TypeOK
<1> QED BY <1>1, PeerIsResource, CreateIsResource

(* Every step of the specification.                                        *)
LEMMA NextRollback == RollbackInv /\ [Next]_vars => RollbackInv'
<1> SUFFICES ASSUME RollbackInv, [Next]_vars PROVE RollbackInv'
    OBVIOUS
<1> USE DEF hostVars, runVars, bootVars
<1>a. JournalInv /\ TypeOK /\ JournalInv'
    BY NextKeeps DEF RollbackInv, JournalInv
<1> SUFFICES StartsClean' /\ UndoesOwn' /\ AppliedHeld' /\ CommittedExisted' /\ CommittedSurvives'
    BY <1>a DEF RollbackInv
<1>1. ASSUME NEW t \in Tx, ApplyInterface(t) \/ ApplyRoutes(t)
      PROVE  StartsClean' /\ UndoesOwn' /\ AppliedHeld' /\ CommittedExisted' /\ CommittedSurvives'
  <2>1. PICK i \in Iface, ops \in SUBSET Op : StartApply(t, i, ops)
    BY <1>1 DEF ApplyInterface, ApplyRoutes, Op
  <2> QED BY <2>1, StartRollback
<1>2. ASSUME NEW t \in Tx, ApplyStep(t)
      PROVE  StartsClean' /\ UndoesOwn' /\ AppliedHeld' /\ CommittedExisted' /\ CommittedSurvives'
    BY <1>2, ApplyRollback
<1>3. ASSUME NEW t \in Tx, Cancel(t)
      PROVE  StartsClean' /\ UndoesOwn' /\ AppliedHeld' /\ CommittedExisted' /\ CommittedSurvives'
  <2>1. UNCHANGED <<res, proute, dev, disk, mem, plan, pc, cur, todo, proc, listed, clean>>
    BY <1>3 DEF Cancel
  <2>2. StartsClean'
    BY <2>1 DEF StartsClean, RollbackInv
  <2> QED BY <2>1, <2>2, QuietRollback
<1>4. ASSUME NEW i \in Iface, Remove(i)
      PROVE  StartsClean' /\ UndoesOwn' /\ AppliedHeld' /\ CommittedExisted' /\ CommittedSurvives'
  <2>1. /\ RemoveInterface(i) /\ ~Busy(i) /\ proc = "serving"
        /\ UNCHANGED <<disk, mem, plan, pc, cur, todo, proc, listed, clean>>
    BY <1>4 DEF Remove
  <2>2. /\ \A r \in Resource : res'[i][r] = None
        /\ \A j \in Iface \ {i} : res'[j] = res[j] /\ proute'[j] = proute[j]
    BY <1>a, <2>1 DEF RemoveInterface, TypeOK
  <2>3. StartsClean'
    BY <2>1, <2>2, CreateIsResource, NetStateAssumption DEF StartsClean, RollbackInv
  <2> QED BY <2>1, <2>2, <2>3, QuietRollback
<1>5. ASSUME NEW i \in Iface, NEW d \in Prefix, WithdrawRoute(i, d) \/ OperatorRoute(i, d)
      PROVE  StartsClean' /\ UndoesOwn' /\ AppliedHeld' /\ CommittedExisted' /\ CommittedSurvives'
  <2>1. /\ UNCHANGED <<proute, dev, disk, mem, plan, pc, cur, todo, proc, listed, clean>>
        /\ \E x \in Owner : res' = [res EXCEPT ![i][d] = x]
    BY <1>5 DEF WithdrawRoute, OperatorRoute, RemoveRoute, Owner
  <2>2. \A j \in Iface : /\ res'[j]["create"] = res[j]["create"]
                         /\ \A p \in Peer : res'[j][p] = res[j][p]
    BY <1>a, <2>1, RouteChanges
  <2>3. StartsClean'
    BY <2>1, <2>2 DEF StartsClean, RollbackInv
  <2> QED BY <2>1, <2>2, <2>3, QuietRollback
<1>6. CASE BootStep
  <2> USE DEF GotoBoot, BootUnchanged
  <2>a. /\ \A t \in Tx : ~Running(t)
        /\ UNCHANGED <<mem, plan, pc, cur, todo>> /\ ~clean
    <3>1. proc # "serving" /\ UNCHANGED <<mem, plan, pc, cur, todo>>
      BY <1>6 DEF BootStep, Start, Recover, Teardown, RemoveOne, RemovedAll, ReconcileJournal,
           ReconciledAll, JournalUnreadable
    <3> QED BY <1>a, <3>1 DEF JournalInv, RunsAlone, StartsClean, RollbackInv
  <2>b. \A i \in Iface \ Foreign : res[i]["create"] # Operator
    BY DEF StartsClean, RollbackInv
  <2>1. CASE Start \/ Recover \/ Teardown \/ RemovedAll \/ JournalUnreadable \/ ReconcileJournal
    <3>1. /\ UNCHANGED <<res, proute, dev>> /\ ~clean'
          /\ listed' = listed \/ listed' = ListOwnedInterfaces
      BY <2>1, <2>a DEF Start, Recover, Teardown, RemovedAll, JournalUnreadable, ReconcileJournal
    <3>2. StartsClean'
      BY <2>b, <3>1 DEF StartsClean, RollbackInv, ListOwnedInterfaces, OwnsInterface
    <3> QED BY <2>a, <3>1, <3>2, QuietRollback
  <2>2. CASE RemoveOne
    <3>1. PICK i \in listed :
            \/ RemoveInterface(i) /\ listed' = listed \ {i}
            \/ listed' = {} /\ UNCHANGED hostVars
      BY <2>2 DEF RemoveOne
    <3>2. ~clean' /\ i \in Iface
      BY <1>a, <2>2, <2>a DEF RemoveOne, TypeOK
    <3>3. CASE RemoveInterface(i) /\ listed' = listed \ {i}
      <4>1. /\ \A r \in Resource : res'[i][r] = None
            /\ \A j \in Iface \ {i} : res'[j] = res[j] /\ proute'[j] = proute[j]
        BY <1>a, <3>2, <3>3 DEF RemoveInterface, TypeOK
      <4>2. StartsClean'
        BY <2>b, <3>2, <3>3, <4>1, CreateIsResource, NetStateAssumption DEF StartsClean, RollbackInv
      <4> QED BY <2>a, <4>1, <4>2, QuietRollback
    <3>4. CASE listed' = {} /\ UNCHANGED hostVars
      <4>1. StartsClean'
        BY <2>b, <3>2, <3>4 DEF StartsClean
      <4> QED BY <2>a, <3>4, <4>1, QuietRollback
    <3> QED BY <3>1, <3>3, <3>4
  <2>3. CASE ReconciledAll
    <3>1. /\ UNCHANGED <<res, proute, dev, disk, listed>> /\ PendingRecovery = {}
          /\ clean' => proc = "teardownJournal" /\ proc' = "serving"
      BY <2>3 DEF ReconciledAll, AfterError
    <3>2. \A i \in Iface \ Foreign : res[i]["create"] = None
      BY <1>a, <2>3 DEF ReconciledAll, BootRemoves, JournalInv
    <3>3. \A t \in Tx : ~NeedsRecovery(disk[t])
      BY <3>1 DEF PendingRecovery
    <3>4. StartsClean'
      BY <2>a, <2>b, <3>1, <3>2, <3>3, NetStateAssumption DEF StartsClean, RollbackInv
    <3> QED BY <2>a, <3>1, <3>4, QuietRollback
  <2> QED BY <1>6, <2>1, <2>2, <2>3 DEF BootStep
<1>7. CASE Crash
  <2>1. /\ UNCHANGED <<res, proute, dev, disk>> /\ listed' = {} /\ ~clean'
        /\ \A t \in Tx : pc'[t] = "none" /\ todo'[t] = {}
    BY <1>7 DEF Crash
  <2>2. StartsClean'
    BY <2>1 DEF StartsClean, RollbackInv
  <2>3. UndoesOwn' /\ AppliedHeld' /\ CommittedExisted' /\ CommittedSurvives'
    BY <2>1 DEF UndoesOwn, AppliedHeld, CommittedExisted, CommittedSurvives
  <2> QED BY <2>2, <2>3
<1>8. CASE UNCHANGED vars
  <2>1. UNCHANGED <<res, proute, dev, disk, mem, plan, pc, cur, todo, proc, listed, clean>>
    BY <1>8 DEF vars
  <2>2. StartsClean'
    BY <2>1 DEF StartsClean, RollbackInv
  <2> QED BY <2>1, <2>2, QuietRollback
<1> QED BY <1>1, <1>2, <1>3, <1>4, <1>5, <1>6, <1>7, <1>8 DEF Next

(* The invariant holds in every state of every behaviour.                  *)
LEMMA RollbackHolds == Spec => []RollbackInv
BY InitRollback, NextRollback, PTL DEF Spec

(* After a start-up whose Down reported no error, every interface of       *)
(* NostMesh's on the host was created by the process that is serving,      *)
(* whatever earlier processes left and wherever they died: Down removes    *)
(* every owned interface before it closes the journal (recoverHostState).  *)
THEOREM NothingOrphaned == Spec => []NoOrphans
<1>1. RollbackInv => NoOrphans
  <2> SUFFICES ASSUME RollbackInv, proc = "serving", clean, NEW i \in Iface, OwnsInterface(i),
                      res[i]["create"] # None
               PROVE  \E t \in Tx : res[i]["create"] = t /\ pc[t] # "none"
    BY DEF NoOrphans
  <2>1. i \in Iface \ Foreign
    BY DEF OwnsInterface
  <2>2. res[i]["create"] \in Tx \cup {None, Operator}
    BY CreateIsResource DEF RollbackInv, JournalInv, TypeOK, Owner
  <2> QED BY <2>1, <2>2 DEF StartsClean, RollbackInv
<1> QED BY <1>1, RollbackHolds, PTL

(* After such a start-up no transaction of an earlier process is reported  *)
(* as pending: reconcileJournal closed every record before serving.        *)
THEOREM NothingStale == Spec => []NoStalePending
<1>1. RollbackInv => NoStalePending
    BY DEF NoStalePending, StartsClean, RollbackInv
<1> QED BY <1>1, RollbackHolds, PTL

(* A successful Apply stays whole while its interface exists: a later      *)
(* Apply on the interface that fails, is cancelled or is rolled back       *)
(* half-way takes away no peer it applied and no route to one, because     *)
(* PlanInterface recorded them as existing and compensate spares those.    *)
THEOREM CommittedStays == Spec => []CommittedSurvives
<1>1. RollbackInv => CommittedSurvives
    BY DEF RollbackInv
<1> QED BY <1>1, RollbackHolds, PTL
-----------------------------------------------------------------------------
(* Where the operator does not act behind a running Apply, a route of the  *)
(* operator's is never mistaken for the Apply's own.                       *)
LEMMA OperatorStep ==
    ASSUME ~OperatorRaces, RollbackInv, OperatorExisted, [Next]_vars
    PROVE  OperatorExisted' /\ [LeavesOperators]_vars
<1> USE DEF hostVars, runVars, bootVars
<1>a. JournalInv /\ TypeOK /\ Foreign \subseteq Iface
    BY NetStateAssumption DEF RollbackInv, JournalInv
<1>b. \A t \in Tx : t # None /\ t # Operator
    BY NetStateAssumption
<1>c. None # Operator
    BY NetStateAssumption
<1>d. \A t \in Tx : Running(t) => plan[t].iface \in Iface \ Foreign
    BY <1>a DEF RunsAlone, JournalInv
<1>e. ASSUME UNCHANGED <<mem, plan, pc>>,
             \A j \in Iface : Busy(j) =>
                \A d \in Prefix : res'[j][d] = Operator => res[j][d] = Operator
      PROVE  OperatorExisted'
    BY <1>d, <1>e DEF OperatorExisted
<1>f. ASSUME NEW i \in Iface \ Foreign, RemoveInterface(i)
      PROVE  /\ LeavesOperators
             /\ \A j \in Iface, d \in Prefix : res'[j][d] = Operator => res[j][d] = Operator
  <2>1. /\ \A r \in Resource : res'[i][r] = None
        /\ \A j \in Iface \ {i} : res'[j] = res[j] /\ dev'[j] = dev[j]
    BY <1>a, <1>f DEF RemoveInterface, TypeOK
  <2>2. \A j \in Foreign : res'[j] = res[j] /\ dev'[j] = dev[j]
    BY <1>a, <2>1
  <2> QED BY <1>c, <2>1, <2>2, CreateIsResource, PeerIsResource DEF LeavesOperators
<1>1. ASSUME NEW t \in Tx, ApplyInterface(t) \/ ApplyRoutes(t)
      PROVE  OperatorExisted' /\ LeavesOperators
  <2>1. PICK i \in Iface, ops \in SUBSET Op : StartApply(t, i, ops)
    BY <1>1 DEF ApplyInterface, ApplyRoutes, Op
  <2> DEFINE rec == [NoRecord EXCEPT !.status =
                      [o \in Op |-> IF o \in ops THEN "planned" ELSE "none"]]
  <2>2. \A o \in Op : rec.status[o] # "none" => o \in ops
    BY DEF NoRecord
  <2>3. /\ plan' = [plan EXCEPT ![t] = [iface |-> i, existed |-> Existing(i, ops)]]
        /\ mem' = [mem EXCEPT ![t] = rec] /\ UNCHANGED <<res, proute, dev>>
        /\ pc' = [pc EXCEPT ![t] = "next"] \/ pc' = [pc EXCEPT ![t] = "err"]
    BY <2>1 DEF StartApply, Goto
  <2> HIDE DEF rec
  <2>4. /\ mem'[t] = rec /\ plan'[t].iface = i /\ plan'[t].existed = Existing(i, ops)
        /\ \A u \in Tx \ {t} : mem'[u] = mem[u] /\ plan'[u] = plan[u] /\ pc'[u] = pc[u]
    BY <1>a, <2>3 DEF TypeOK
  <2>5. \A d \in Prefix : res[i][d] = Operator /\ d \in ops => d \in Existing(i, ops)
    <3>1. \A d \in Prefix : res[i][d] # None => res[i]["create"] # None
      BY <1>a, PeerIsResource DEF LinkCarries, JournalInv
    <3> QED BY <1>c, <3>1, PeerIsResource DEF Existing
  <2>6. OperatorExisted'
    BY <2>2, <2>3, <2>4, <2>5, PeerIsResource DEF OperatorExisted
  <2> QED BY <2>3, <2>6 DEF LeavesOperators
<1>2. ASSUME NEW t \in Tx, ApplyStep(t) PROVE OperatorExisted' /\ LeavesOperators
  <2>a. /\ OnlyOwn(t)
        /\ \A d \in Prefix : mem[t].status[d] = "none" => mem'[t].status[d] = "none"
        /\ \A d \in Prefix : res'[plan[t].iface][d] # res[plan[t].iface][d] =>
              /\ res'[plan[t].iface][d] # Operator
              /\ res[plan[t].iface][d] = Operator =>
                    \/ res'[plan[t].iface]["create"] = None
                    \/ mem[t].status[d] # "none" /\ d \notin plan[t].existed
    <3>1. CASE Marks(t)
      BY <3>1, PeerIsResource DEF Marks
    <3>2. CASE Acts(t)
      BY <1>b, <1>c, <3>2, PeerIsResource DEF Acts
    <3>3. ASSUME NEW o \in Op, Undoes(t, o) PROVE <2>a!2 /\ <2>a!3 /\ OnlyOwn(t)
      <4>1. mem[t].status[o] # "none"
        BY <3>3 DEF Undoes, UndoesOwn, RollbackInv
      <4>2. \A d \in Prefix : mem[t].status[d] = "none" => mem'[t].status[d] = "none"
        BY <3>3, <4>1, PeerIsResource DEF Undoes
      <4>3. ASSUME NEW d \in Prefix, res'[plan[t].iface][d] # res[plan[t].iface][d]
            PROVE  /\ res'[plan[t].iface][d] # Operator
                   /\ \/ res'[plan[t].iface]["create"] = None
                      \/ mem[t].status[d] # "none" /\ d \notin plan[t].existed
        <5>1. CASE o = "create"
          BY <1>c, <3>3, <4>3, <5>1, PeerIsResource, CreateIsResource DEF Undoes
        <5>2. CASE o # "create"
          BY <1>c, <3>3, <4>1, <4>3, <5>2, PeerIsResource DEF Undoes
        <5> QED BY <5>1, <5>2
      <4> QED BY <3>3, <4>2, <4>3 DEF Undoes
    <3>4. CASE Closes(t)
      BY <3>4 DEF Closes
    <3> QED BY <1>2, <1>a, <3>1, <3>2, <3>3, <3>4, ApplyShape
  <2>b. \A u \in Tx \ {t} : Running(u) => plan[u].iface \in Iface \ {plan[t].iface}
    BY <1>a, <2>a DEF OnlyOwn, RunsAlone, JournalInv
  <2>1. OperatorExisted'
    <3> SUFFICES ASSUME NEW u \in Tx, NEW d \in Prefix, Running(u)',
                        res'[plan[u].iface][d] = Operator, mem'[u].status[d] # "none"
                 PROVE  d \in plan[u].existed
      BY <2>a DEF OperatorExisted, OnlyOwn
    <3>1. CASE u = t
      BY <2>a, <3>1 DEF OnlyOwn, OperatorExisted
    <3>2. CASE u # t
      <4>1. Running(u) /\ mem'[u] = mem[u]
        BY <2>a, <3>2 DEF OnlyOwn
      <4>2. res'[plan[u].iface] = res[plan[u].iface]
        BY <2>a, <2>b, <3>2, <4>1 DEF OnlyOwn
      <4> QED BY <4>1, <4>2 DEF OperatorExisted
    <3> QED BY <3>1, <3>2
  <2>2. LeavesOperators
    <3>1. \A j \in Foreign : res'[j] = res[j] /\ dev'[j] = dev[j]
      BY <1>a, <2>a DEF OnlyOwn
    <3>2. ASSUME NEW j \in Iface, NEW d \in Prefix, res[j][d] = Operator, res'[j][d] # Operator
          PROVE  res'[j]["create"] = None
      <4>1. j = plan[t].iface
        BY <2>a, <3>2 DEF OnlyOwn
      <4>2. mem[t].status[d] # "none" => d \in plan[t].existed
        BY <2>a, <3>2, <4>1 DEF OnlyOwn, OperatorExisted
      <4> QED BY <2>a, <3>2, <4>1, <4>2
    <3> QED BY <3>1, <3>2 DEF LeavesOperators
  <2> QED BY <2>1, <2>2
<1>3. ASSUME NEW t \in Tx, Cancel(t) PROVE OperatorExisted' /\ LeavesOperators
    BY <1>3, <1>e DEF Cancel, LeavesOperators
<1>4. ASSUME NEW i \in Iface, Remove(i) PROVE OperatorExisted' /\ LeavesOperators
  <2>1. RemoveInterface(i) /\ i \in Iface \ Foreign /\ UNCHANGED <<mem, plan, pc>>
    BY <1>4 DEF Remove, OwnsInterface
  <2> QED BY <2>1, <1>e, <1>f
<1>5. ASSUME NEW i \in Iface, NEW d \in Prefix, WithdrawRoute(i, d) \/ OperatorRoute(i, d)
      PROVE  OperatorExisted' /\ LeavesOperators
  <2>1. /\ i \in Iface \ Foreign /\ ~Busy(i) /\ UNCHANGED <<mem, plan, pc, dev>>
        /\ \E x \in Owner : res' = [res EXCEPT ![i][d] = x]
    BY <1>5 DEF WithdrawRoute, OperatorRoute, RemoveRoute, Owner, OwnsInterface
  <2>2. /\ \A j \in Iface \ {i} : res'[j] = res[j]
        /\ \A e \in Prefix : e # d => res'[i][e] = res[i][e]
    BY <1>a, <2>1, RouteChanges
  <2>3. OperatorExisted'
    BY <1>e, <2>1, <2>2
  <2>4. \A j \in Foreign : res'[j] = res[j] /\ dev'[j] = dev[j]
    BY <1>a, <2>1, <2>2
  <2>5. res[i][d] = Operator => WithdrawRoute(i, d)
    BY <1>5, <1>c DEF OperatorRoute
  <2> QED BY <2>2, <2>3, <2>4, <2>5 DEF LeavesOperators
<1>6. CASE BootStep
  <2> USE DEF GotoBoot, BootUnchanged
  <2>1. UNCHANGED <<mem, plan, pc>>
    BY <1>6 DEF BootStep, Start, Recover, Teardown, RemoveOne, RemovedAll, ReconcileJournal,
           ReconciledAll, JournalUnreadable
  <2>2. CASE UNCHANGED <<res, proute, dev>>
    BY <1>e, <2>1, <2>2 DEF LeavesOperators
  <2>3. ASSUME NEW i \in listed, RemoveInterface(i) PROVE OperatorExisted' /\ LeavesOperators
    <3>1. i \in Iface \ Foreign
      BY DEF StartsClean, RollbackInv
    <3> QED BY <1>e, <1>f, <2>1, <2>3, <3>1
  <2> QED BY <1>6, <2>2, <2>3 DEF BootStep, Start, Recover, Teardown, RemoveOne, RemovedAll,
             ReconcileJournal, ReconciledAll, JournalUnreadable
<1>7. CASE Crash
  <2>1. /\ UNCHANGED <<res, proute, dev>> /\ \A t \in Tx : pc'[t] = "none"
    BY <1>7 DEF Crash
  <2> QED BY <2>1 DEF OperatorExisted, LeavesOperators
<1>8. CASE UNCHANGED vars
  <2>1. UNCHANGED <<res, mem, plan, pc>>
    BY <1>8 DEF vars
  <2> QED BY <1>8, <1>e, <2>1
<1> QED BY <1>1, <1>2, <1>3, <1>4, <1>5, <1>6, <1>7, <1>8 DEF Next

(* Neither a failure, a rollback nor a start-up touches an interface of    *)
(* the operator's, and a route the operator added to an interface of       *)
(* NostMesh's goes only with the interface or by an explicit withdrawal.   *)
(* The operator is assumed not to add a route behind a running Apply: the  *)
(* plan cannot have recorded that one as existing.                         *)
THEOREM OperatorsOwn == ASSUME ~OperatorRaces PROVE Spec => OperatorUntouched
<1>1. Init => OperatorExisted
    BY DEF Init, OperatorExisted
<1>2. RollbackInv /\ OperatorExisted /\ [Next]_vars => OperatorExisted'
    BY OperatorStep
<1>3. RollbackInv /\ OperatorExisted /\ [Next]_vars => [LeavesOperators]_vars
    BY OperatorStep
<1>4. Spec => []OperatorExisted
    BY <1>1, <1>2, RollbackHolds, PTL DEF Spec
<1> QED BY <1>3, <1>4, RollbackHolds, PTL DEF Spec, OperatorUntouched
-----------------------------------------------------------------------------
(* Where the adapter does what a rollback asks and no context is           *)
(* cancelled, the rollback accounts for everything the Apply introduced.   *)
LEMMA StrictStep ==
    ASSUME Faults \subseteq {"refuse", "save"}, RollbackInv, StrictInv, [Next]_vars
    PROVE  StrictInv'
<1> USE DEF hostVars, runVars, bootVars
<1>a. JournalInv /\ TypeOK
    BY DEF RollbackInv, JournalInv
<1>b. \A t \in Tx : t # None /\ t # Operator
    BY NetStateAssumption
<1>c. \A t \in Tx : ~cancelled[t]
    BY DEF StrictInv, ClosedHonestly
<1>d. "partial" \notin Faults /\ "undo" \notin Faults /\ "cancel" \notin Faults /\ "boot" \notin Faults
    OBVIOUS
<1>e. ASSUME UNCHANGED <<mem, cur, todo, cancelled, pc>>,
             \A t \in Tx, j \in Iface, r \in Resource : res'[j][r] = t => res[j][r] = t,
             \/ disk' = disk
             \/ \A t \in Tx : ~Running(t) /\ \A j \in Iface : res[j]["create"] # t
      PROVE  StrictInv'
    BY <1>e, CreateIsResource DEF StrictInv, OwnsAccounted, ClosedHonestly
<1>1. ASSUME NEW t \in Tx, ApplyInterface(t) \/ ApplyRoutes(t) PROVE StrictInv'
  <2>1. PICK i \in Iface, ops \in SUBSET Op : StartApply(t, i, ops)
    BY <1>1 DEF ApplyInterface, ApplyRoutes, Op
  <2> DEFINE rec == [NoRecord EXCEPT !.status =
                      [o \in Op |-> IF o \in ops THEN "planned" ELSE "none"]]
  <2>2. ~rec.ended /\ ~NoRecord.ended
    BY DEF NoRecord
  <2>3. /\ pc[t] = "none" /\ disk[t] = NoRecord
        /\ mem' = [mem EXCEPT ![t] = rec] /\ UNCHANGED <<res, cur, todo, cancelled>>
        /\ pc' = [pc EXCEPT ![t] = "next"] \/ pc' = [pc EXCEPT ![t] = "err"]
        /\ disk' = [disk EXCEPT ![t] = rec] \/ disk' = disk
    BY <2>1 DEF StartApply, Goto, Save, SaveFails
  <2> HIDE DEF rec
  <2>4. /\ mem'[t] = rec /\ disk'[t] \in {NoRecord, rec}
        /\ \A u \in Tx \ {t} : mem'[u] = mem[u] /\ pc'[u] = pc[u] /\ disk'[u] = disk[u]
    BY <1>a, <2>3 DEF TypeOK
  <2>5. \A j \in Iface, r \in Resource : res[j][r] # t
    BY <1>a, <2>3, CreateIsResource, NoRecordType DEF JournalInv, HostIsJournaled
  <2>6. OwnsAccounted'
    BY <2>3, <2>4, <2>5 DEF OwnsAccounted, StrictInv
  <2>7. ClosedHonestly'
    BY <2>2, <2>3, <2>4, <2>5, CreateIsResource DEF ClosedHonestly, StrictInv
  <2> QED BY <2>6, <2>7 DEF StrictInv
<1>2. ASSUME NEW t \in Tx, ApplyStep(t) PROVE StrictInv'
  <2>a. OnlyOwn(t)
    BY <1>2, <1>a, ApplyShape DEF Marks, Acts, Undoes, Closes
  <2>b. \A j \in Iface, r \in Resource : res[j][r] = t => j = plan[t].iface /\ mem[t].status[r] \in Reached
    BY <1>a, <2>a DEF OnlyOwn, MemoryCovers, JournalInv
  <2>c. \A u \in Tx : ~cancelled'[u]
    BY <1>c, <2>a DEF OnlyOwn
  <2>1. CASE Marks(t)
    <3>1. OwnsAccounted'
      <4> SUFFICES ASSUME NEW u \in Tx, NEW j \in Iface, NEW r \in Resource, res[j][r] = u
                   PROVE  /\ pc'[u] # "err"
                          /\ pc'[u] = "undo" => r \in todo'[u]
                          /\ Running(u)' /\ pc'[u] # "undo" =>
                                \/ mem'[u].status[r] = "applied"
                                \/ /\ r = cur'[u]
                                   /\ pc'[u] \in {"config", "up", "observe", "peerroute", "complete"}
        BY <2>1 DEF OwnsAccounted, Marks
      <4>1. CASE u = t
        <5>1. r \in Op
          BY CreateIsResource
        <5>2. mem[t].status[r] = "applied" \/ (r = cur[t] /\ pc[t] = "complete")
          BY <1>c, <1>d, <2>1, <2>a, <4>1 DEF Marks, OnlyOwn, OwnsAccounted, StrictInv
        <5>3. mem'[t].status[r] = "applied"
          BY <2>1, <5>1, <5>2 DEF Marks
        <5> QED BY <2>1, <4>1, <5>1, <5>3 DEF Marks
      <4>2. CASE u # t
        BY <2>a, <4>2 DEF OnlyOwn, OwnsAccounted, StrictInv
      <4> QED BY <4>1, <4>2
    <3>2. ClosedHonestly'
      BY <2>1, <2>a, <2>c DEF Marks, OnlyOwn, ClosedHonestly, StrictInv
    <3> QED BY <3>1, <3>2 DEF StrictInv
  <2>2. CASE Acts(t)
    <3>a. \A j \in Iface, r \in Resource :
             \/ res'[j][r] = res[j][r]
             \/ /\ pc[t] \in {"link", "peer", "route"} /\ r = cur[t] /\ res'[j][r] = t
                /\ disk[t].status[r] = "applying"
      <4>1. pc[t] \in {"link", "peer", "route"} => disk[t].status[cur[t]] = "applying"
        BY <1>a DEF EffectJournaled, JournalInv
      <4> QED BY <2>2, <2>a, <4>1 DEF Acts, OnlyOwn
    <3>1. OwnsAccounted'
      <4> SUFFICES ASSUME NEW u \in Tx, NEW j \in Iface, NEW r \in Resource, res'[j][r] = u
                   PROVE  /\ pc'[u] # "err"
                          /\ pc'[u] = "undo" => r \in todo[u]
                          /\ Running(u)' /\ pc'[u] # "undo" =>
                                \/ mem[u].status[r] = "applied"
                                \/ /\ r = cur[u]
                                   /\ pc'[u] \in {"config", "up", "observe", "peerroute", "complete"}
        BY <2>2 DEF OwnsAccounted, Acts
      <4>1. CASE u = t
        BY <2>2, <3>a, <4>1 DEF Acts, OwnsAccounted, StrictInv
      <4>2. CASE u # t
        BY <2>a, <3>a, <4>2 DEF OnlyOwn, OwnsAccounted, StrictInv
      <4> QED BY <4>1, <4>2
    <3>2. ClosedHonestly'
      <4>1. \A u \in Tx, j \in Iface : res'[j]["create"] = u => res[j]["create"] = u \/ Running(u)
        BY <2>a, <3>a, CreateIsResource DEF OnlyOwn
      <4> QED BY <2>2, <2>a, <2>c, <4>1 DEF Acts, OnlyOwn, ClosedHonestly, StrictInv
    <3> QED BY <3>1, <3>2 DEF StrictInv
  <2>3. ASSUME NEW o \in Op, Undoes(t, o) PROVE StrictInv'
    <3>a. \A j \in Iface, r \in Resource : res'[j][r] = res[j][r] \/ res'[j][r] = None
      BY <2>3, <2>a DEF Undoes, OnlyOwn
    <3>b. \A j \in Iface, r \in Resource : res'[j][r] = t => r \in todo[t] /\ r # o
      <4> SUFFICES ASSUME NEW j \in Iface, NEW r \in Resource, res'[j][r] = t
                   PROVE  r \in todo[t] /\ r # o
        OBVIOUS
      <4>1. res[j][r] = t /\ j = plan[t].iface
        BY <1>b, <2>b, <3>a
      <4>2. r \in todo[t]
        BY <2>3, <4>1 DEF Undoes, OwnsAccounted, StrictInv
      <4>3. r \notin plan[t].existed
        BY <1>a, <2>a, <4>1 DEF OnlyOwn, ExistedKept, JournalInv
      <4>4. r # o
        BY <1>b, <1>c, <1>d, <2>3, <4>1, <4>3 DEF Undoes
      <4> QED BY <4>2, <4>4
    <3>1. OwnsAccounted'
      BY <1>b, <2>3, <2>a, <3>a, <3>b DEF Undoes, OnlyOwn, OwnsAccounted, StrictInv
    <3>2. ClosedHonestly'
      BY <1>b, <2>3, <2>a, <2>c, <3>a, CreateIsResource DEF Undoes, OnlyOwn, ClosedHonestly, StrictInv
    <3> QED BY <3>1, <3>2 DEF StrictInv
  <2>4. CASE Closes(t)
    <3>1. \A j \in Iface, r \in Resource : res[j][r] # t
      BY <2>4 DEF Closes, OwnsAccounted, StrictInv
    <3>2. OwnsAccounted'
      BY <2>4, <2>a, <3>1 DEF Closes, OnlyOwn, OwnsAccounted, StrictInv
    <3>3. ClosedHonestly'
      BY <2>4, <2>a, <2>c, <3>1, CreateIsResource DEF Closes, OnlyOwn, ClosedHonestly, StrictInv
    <3> QED BY <3>2, <3>3 DEF StrictInv
  <2> QED BY <1>2, <1>a, <2>1, <2>2, <2>3, <2>4, ApplyShape
<1>3. ASSUME NEW t \in Tx, Cancel(t) PROVE FALSE
    BY <1>3, <1>d DEF Cancel
<1>4. ASSUME NEW i \in Iface, Remove(i) PROVE StrictInv'
  <2>1. RemoveInterface(i) /\ UNCHANGED <<disk, mem, cur, todo, cancelled, pc>>
    BY <1>4 DEF Remove
  <2> QED BY <1>a, <1>b, <1>e, <2>1, RemoveInterfaceRemoves
<1>5. ASSUME NEW i \in Iface, NEW d \in Prefix, WithdrawRoute(i, d) \/ OperatorRoute(i, d)
      PROVE  StrictInv'
  <2>1. /\ UNCHANGED <<disk, mem, cur, todo, cancelled, pc>>
        /\ \E x \in {None, Operator} : res' = [res EXCEPT ![i][d] = x]
    BY <1>5 DEF WithdrawRoute, OperatorRoute, RemoveRoute
  <2>2. \A j \in Iface, r \in Resource : res'[j][r] = res[j][r] \/ res'[j][r] \in {None, Operator}
    <3>1. res \in [Iface -> [Resource -> Owner]]
      BY <1>a DEF TypeOK
    <3> QED BY <2>1, <3>1, PeerIsResource
  <2> QED BY <1>b, <1>e, <2>1, <2>2
<1>6. CASE BootStep
  <2> USE DEF GotoBoot, BootUnchanged
  <2>1. UNCHANGED <<mem, cur, todo, cancelled, pc>>
    BY <1>6 DEF BootStep, Start, Recover, Teardown, RemoveOne, RemovedAll, ReconcileJournal,
           ReconciledAll, JournalUnreadable
  <2>2. CASE UNCHANGED <<res, proute, dev, disk>>
    BY <1>e, <2>1, <2>2
  <2>3. ASSUME NEW i \in listed, RemoveInterface(i), UNCHANGED disk PROVE StrictInv'
    <3>1. i \in Iface
      BY <1>a DEF TypeOK
    <3> QED BY <1>a, <1>b, <1>e, <2>1, <2>3, <3>1, RemoveInterfaceRemoves
  <2>4. CASE ReconcileJournal
    <3>1. UNCHANGED res /\ proc \in {"recoverJournal", "teardownJournal"}
      BY <2>4 DEF ReconcileJournal
    <3>2. \A t \in Tx, j \in Iface : res[j]["create"] # t
      BY <1>a, <1>b, <3>1, CreateIsResource DEF BootRemoves, LinkCarries, JournalInv
    <3>3. \A t \in Tx : ~Running(t)
      BY <1>a, <3>1 DEF RunsAlone, JournalInv
    <3> QED BY <1>e, <2>1, <3>1, <3>2, <3>3
  <2> QED BY <1>6, <2>2, <2>3, <2>4 DEF BootStep, Start, Recover, Teardown, RemoveOne, RemovedAll,
             ReconciledAll, JournalUnreadable
<1>7. CASE Crash
  <2>1. /\ UNCHANGED <<res, disk>> /\ \A t \in Tx : pc'[t] = "none" /\ ~cancelled'[t]
    BY <1>7 DEF Crash
  <2> QED BY <2>1 DEF StrictInv, OwnsAccounted, ClosedHonestly
<1>8. CASE UNCHANGED vars
    BY <1>8, <1>e DEF vars
<1> QED BY <1>1, <1>2, <1>3, <1>4, <1>5, <1>6, <1>7, <1>8 DEF Next

(* So does the one about failures, where calls are whole, undo works and   *)
(* nobody cancels.                                                         *)
LEMMA StrictHolds == ASSUME Faults \subseteq {"refuse", "save"} PROVE Spec => []StrictInv
<1>1. Init => StrictInv
  <2> SUFFICES ASSUME Init PROVE StrictInv
    OBVIOUS
  <2>1. \A t \in Tx, j \in Iface, r \in Resource : res[j][r] # t
    BY NetStateAssumption DEF Init
  <2> QED BY <2>1, CreateIsResource DEF Init, StrictInv, OwnsAccounted, ClosedHonestly
<1>2. RollbackInv /\ StrictInv /\ [Next]_vars => StrictInv'
    BY StrictStep
<1> QED BY <1>1, <1>2, RollbackHolds, PTL DEF Spec

(* Apply's contract: when it returns an error nothing it introduced is on  *)
(* the host, wherever the kernel refused or a save failed.  It is proved   *)
(* for an adapter whose calls are whole and whose undo works, in a context *)
(* nobody cancels; without that the contract does not hold.                *)
THEOREM FailureUndone ==
    ASSUME Faults \subseteq {"refuse", "save"} PROVE Spec => []FailedLeavesNothing
<1>1. StrictInv => FailedLeavesNothing
    BY DEF StrictInv, OwnsAccounted, FailedLeavesNothing
<1> QED BY <1>1, StrictHolds, PTL

(* Under the same assumption a link whose Apply died with its process is   *)
(* committed or reported by PendingRecovery, wherever the crash fell.      *)
THEOREM CrashNoticed ==
    ASSUME Faults \subseteq {"refuse", "save"} PROVE Spec => []JournalTellsCrash
<1>1. JournalInv /\ StrictInv => JournalTellsCrash
  <2> SUFFICES ASSUME JournalInv, StrictInv, NEW t \in Tx, NEW i \in Iface, res[i]["create"] = t
               PROVE  NeedsRecovery(disk[t]) \/ disk[t].committed
    BY DEF JournalTellsCrash
  <2>1. disk[t] # NoRecord
    BY CreateIsResource, NoRecordType DEF JournalInv, HostIsJournaled
  <2> QED BY <2>1 DEF StrictInv, ClosedHonestly, NeedsRecovery
<1>2. RollbackInv => JournalInv
    BY DEF RollbackInv
<1> QED BY <1>1, <1>2, StrictHolds, RollbackHolds, PTL
=============================================================================
