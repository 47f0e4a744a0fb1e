--------------------------- MODULE NetStateProofs ---------------------------
(* Nothing NostMesh introduced on the host is unknown to the journal, for  *)
(* every set of transactions, interfaces, peers and destinations, every    *)
(* mixture of faults and any number of crashes.                            *)
EXTENDS NetState, TLAPS

USE DEF Running, Busy, Reached, EffectSteps

(* What the records of the journal are made of.                            *)
LEMMA NoRecordType ==
    /\ NoRecord \in Record
    /\ \A o \in Op : NoRecord.status[o] = "none"
BY DEF NoRecord, Record, Status

(* Marking an operation gives it the status and leaves the others alone.   *)
LEMMA SetStatusType ==
    ASSUME NEW rec \in Record, NEW o \in Op, NEW s \in Status
    PROVE  /\ SetStatus(rec, o, s) \in Record
           /\ SetStatus(rec, o, s).status[o] = s
           /\ \A q \in Op \ {o} : SetStatus(rec, o, s).status[q] = rec.status[q]
BY DEF SetStatus, Record

(* Ending or committing a transaction keeps the statuses of its operations.*)
LEMMA RecordType ==
    ASSUME NEW rec \in Record
    PROVE  /\ \A o \in Op : rec.status[o] \in Status
           /\ [rec EXCEPT !.ended = TRUE] \in Record
           /\ [rec EXCEPT !.ended = TRUE].status = rec.status
           /\ [rec EXCEPT !.ended = TRUE, !.committed = TRUE] \in Record
           /\ [rec EXCEPT !.ended = TRUE, !.committed = TRUE].status = rec.status
BY DEF Record

(* The link itself is one of the resources an operation introduces.        *)
LEMMA CreateIsResource == "create" \in Resource /\ "create" \in Op /\ Resource \subseteq Op
BY DEF Op, IfaceOp, Resource

(* The specification starts in the invariant.                              *)
LEMMA InitEstablishes == Init => JournalInv
<1> SUFFICES ASSUME Init PROVE JournalInv
    OBVIOUS
<1> USE NetStateAssumption DEF Init
<1>1. TypeOK
  <2>1. res \in [Iface -> [Resource -> Owner]]
    BY DEF Owner
  <2>2. dev \in [Iface -> [cfg : Owner, up : BOOLEAN]]
    BY DEF Owner
  <2>3. plan \in [Tx -> [iface : Iface \cup {None}, existed : SUBSET Op]]
    BY DEF NoPlan
  <2>4. disk \in [Tx -> Record] /\ mem \in [Tx -> Record]
    BY NoRecordType
  <2>5. /\ pc \in [Tx -> Steps] /\ cur \in [Tx -> Op] /\ cancelled \in [Tx -> BOOLEAN]
        /\ todo \in [Tx -> SUBSET Op] /\ proute \in [Iface -> SUBSET Peer]
    BY CreateIsResource DEF Steps
  <2>6. proc \in Boot /\ listed \in SUBSET Iface /\ clean \in BOOLEAN
    BY DEF Boot
  <2>7. crashes \in 0..MaxCrashes
    OBVIOUS
  <2> QED BY <2>1, <2>2, <2>3, <2>4, <2>5, <2>6, <2>7 DEF TypeOK
<1>2. HostIsJournaled /\ MemoryCovers /\ RunsAlone
    BY DEF HostIsJournaled, MemoryCovers, RunsAlone
<1>3. EffectJournaled /\ ExistedKept /\ LinkHolds
    BY DEF EffectJournaled, ExistedKept, LinkHolds
<1>4. LinkCarries /\ BootRemoves
    BY CreateIsResource DEF LinkCarries, BootRemoves
<1> QED BY <1>1, <1>2, <1>3, <1>4 DEF JournalInv

(* Starting an Apply: a transaction with an empty record owns nothing yet. *)
LEMMA StartKeeps ==
    ASSUME JournalInv, NEW t \in Tx, NEW i \in Iface, NEW ops \in SUBSET Op,
           StartApply(t, i, ops),
           "create" \in ops \/ res[i]["create"] # None
    PROVE  JournalInv'
<1> DEFINE rec == [NoRecord EXCEPT !.status =
                    [o \in Op |-> IF o \in ops THEN "planned" ELSE "none"]]
<1>a. rec \in Record /\ \A o \in Op : rec.status[o] = IF o \in ops THEN "planned" ELSE "none"
    BY DEF NoRecord, Record, Status
<1>b. /\ proc = "serving" /\ pc[t] = "none" /\ disk[t] = NoRecord
      /\ OwnsInterface(i) /\ ~Busy(i)
      /\ plan' = [plan EXCEPT ![t] = [iface |-> i, existed |-> Existing(i, ops)]]
      /\ mem' = [mem EXCEPT ![t] = rec]
      /\ disk' = [disk EXCEPT ![t] = rec] \/ disk' = disk
      /\ pc' = [pc EXCEPT ![t] = "next"] \/ pc' = [pc EXCEPT ![t] = "err"]
      /\ UNCHANGED <<res, proute, dev, cur, todo, cancelled, proc, listed, clean, crashes>>
    BY DEF StartApply, Save, SaveFails, Goto, hostVars, bootVars
<1>c. Existing(i, ops) \subseteq ops
    BY DEF Existing
<1>d. TypeOK
    BY DEF JournalInv
<1>e. \A j \in Iface, r \in Resource : res[j][r] # t
    BY <1>b, CreateIsResource, NoRecordType DEF JournalInv, HostIsJournaled
<1> HIDE DEF rec
<1>1. TypeOK'
  <2>1. plan' \in [Tx -> [iface : Iface \cup {None}, existed : SUBSET Op]]
    <3>1. plan \in [Tx -> [iface : Iface \cup {None}, existed : SUBSET Op]]
      BY <1>d DEF TypeOK
    <3>2. [iface |-> i, existed |-> Existing(i, ops)]
             \in [iface : Iface \cup {None}, existed : SUBSET Op]
      BY <1>c
    <3> QED BY <1>b, <3>1, <3>2
  <2>2. disk' \in [Tx -> Record] /\ mem' \in [Tx -> Record]
    <3>1. disk \in [Tx -> Record] /\ mem \in [Tx -> Record]
      BY <1>d DEF TypeOK
    <3>2. rec \in Record
      BY <1>a
    <3> QED BY <1>b, <3>1, <3>2
  <2>3. pc' \in [Tx -> Steps]
    BY <1>b, <1>d DEF TypeOK, Steps
  <2> QED BY <1>b, <1>d, <2>1, <2>2, <2>3 DEF TypeOK
<1>2. HostIsJournaled' /\ MemoryCovers'
    BY <1>a, <1>b, <1>d, <1>e DEF TypeOK, HostIsJournaled, MemoryCovers, JournalInv
<1>3. RunsAlone' 
    BY <1>b, <1>d DEF TypeOK, RunsAlone, JournalInv, OwnsInterface
<1>4. EffectJournaled'
    BY <1>b, <1>d DEF TypeOK, EffectJournaled, JournalInv
<1>5. ExistedKept'
  <2>1. \A r \in Resource : r \in Existing(i, ops) => res[i][r] # None
    BY DEF Existing
  <2>2. "create" \in ops /\ "create" \notin Existing(i, ops) => Existing(i, ops) = {}
    BY CreateIsResource DEF Existing
  <2>3. plan'[t].iface = i /\ plan'[t].existed = Existing(i, ops)
    BY <1>b, <1>d DEF TypeOK
  <2>4. mem'[t] = rec /\ pc'[t] # "undo"
    BY <1>b, <1>d DEF TypeOK
  <2>5. ASSUME NEW u \in Tx, u # t
        PROVE  /\ plan'[u] = plan[u] /\ mem'[u] = mem[u] /\ pc'[u] = pc[u]
               /\ res' = res /\ todo' = todo
    BY <1>b, <1>d, <2>5 DEF TypeOK
  <2> SUFFICES ASSUME NEW u \in Tx, Running(u)'
               PROVE  /\ \A r \in Resource : r \in plan'[u].existed =>
                           res'[plan'[u].iface][r] # None /\ res'[plan'[u].iface][r] # u
                      /\ mem'[u].status["create"] # "none" /\ "create" \notin plan'[u].existed
                           => plan'[u].existed = {}
                      /\ pc'[u] = "undo" /\ "create" \in todo'[u]
                           => mem'[u].status["create"] # "none"
    BY DEF ExistedKept
  <2>6. CASE u = t
    BY <1>a, <1>b, <1>e, <2>1, <2>2, <2>3, <2>4, <2>6, CreateIsResource
  <2>7. CASE u # t
    <3>1. Running(u)
      BY <2>5, <2>7 DEF Running
    <3> QED BY <2>5, <2>7, <3>1 DEF ExistedKept, JournalInv
  <2> QED BY <2>6, <2>7
<1>6. LinkHolds'
    BY <1>a, <1>b, <1>d, CreateIsResource DEF TypeOK, LinkHolds, JournalInv
<1>7. LinkCarries' /\ BootRemoves'
    BY <1>b DEF LinkCarries, BootRemoves, JournalInv
<1> QED BY <1>1, <1>2, <1>3, <1>4, <1>5, <1>6, <1>7 DEF JournalInv

(* A step of an Apply that writes its record and leaves the host alone:    *)
(* the record becomes rec, the Apply goes to p with operation c in hand    *)
(* and td left to compensate.                                              *)
WritesRecord(t, rec, p, c, td) ==
    /\ mem' = [mem EXCEPT ![t] = rec]
    /\ disk' = [disk EXCEPT ![t] = rec] \/ disk' = disk
    /\ pc' = [pc EXCEPT ![t] = p]
    /\ cur' = [cur EXCEPT ![t] = c]
    /\ todo' = [todo EXCEPT ![t] = td]
    /\ UNCHANGED <<res, proute, dev, plan, cancelled, proc, listed, clean, crashes>>

(* What the record says reached the kernel stays said, and the step is one *)
(* the record allows.                                                      *)
KeepsRecord(t, rec, p, c, td) ==
    /\ \A r \in Resource : mem[t].status[r] \in Reached => rec.status[r] \in Reached
    /\ rec.status["create"] # "none" => mem[t].status["create"] # "none"
    /\ p = "undo" => \A o \in td : rec.status[o] # "none"
    /\ p \in EffectSteps \cup {"complete"} =>
          rec.status[c] = "applying" /\ rec.status["create"] # "planned"
    /\ p \in {"link", "peer", "route"} => disk'[t] = rec
    /\ p = "link" => c = "create"
    /\ p \in {"peer", "peerroute"} => c \in Peer
    /\ p = "route" => c \in Prefix
    /\ p \notin {"none", "ok", "err", "undo", "link"} /\ rec.status["create"] # "planned"
          => mem[t].status["create"] # "planned" /\ pc[t] \notin {"undo", "link"}

(* A step of an Apply that writes its record keeps the invariant.          *)
LEMMA JournalStep ==
    ASSUME JournalInv, NEW t \in Tx, Running(t),
           NEW rec \in Record, NEW p \in Steps, NEW c \in Op, NEW td \in SUBSET Op,
           WritesRecord(t, rec, p, c, td),
           KeepsRecord(t, rec, p, c, td)
    PROVE  JournalInv'
<1> USE DEF WritesRecord, KeepsRecord
<1>d. TypeOK
    BY DEF JournalInv
<1>1. TypeOK'
    BY <1>d DEF TypeOK
<1>2. HostIsJournaled' /\ MemoryCovers'
    BY <1>d DEF TypeOK, HostIsJournaled, MemoryCovers, JournalInv
<1>3. RunsAlone'
    BY <1>d DEF TypeOK, RunsAlone, JournalInv
<1>4. EffectJournaled'
    BY <1>d, SMTT(30) DEF TypeOK, EffectJournaled, JournalInv
<1>5. ExistedKept'
    BY <1>d, SMTT(30) DEF TypeOK, ExistedKept, JournalInv
<1>6. LinkHolds'
    BY <1>d DEF TypeOK, LinkHolds, JournalInv
<1>7. LinkCarries' /\ BootRemoves'
    BY DEF LinkCarries, BootRemoves, JournalInv
<1> QED BY <1>1, <1>2, <1>3, <1>4, <1>5, <1>6, <1>7 DEF JournalInv

(* A step of an Apply that changes the host and leaves the journal alone:  *)
(* it may introduce the operation in hand, already journaled as applying.  *)
TakesEffect(t, p) ==
    /\ pc[t] \in EffectSteps
    /\ p \in EffectSteps \cup {"complete"} /\ p \notin {"link", "peer", "route"}
    /\ p = "peerroute" => pc[t] = "peer"
    /\ pc' = [pc EXCEPT ![t] = p]
    /\ UNCHANGED <<disk, mem, plan, cur, todo, cancelled, proc, listed, clean, crashes>>
    /\ \/ /\ pc[t] \in {"link", "peer", "route"}
          /\ res' = [res EXCEPT ![plan[t].iface][cur[t]] = IF @ = None THEN t ELSE @]
       \/ pc[t] # "link" /\ res' = res
    /\ proute' \in [Iface -> SUBSET Peer]
    /\ dev' \in [Iface -> [cfg : Owner, up : BOOLEAN]]

(* A step of an Apply on the host keeps the invariant.                     *)
LEMMA EffectStep ==
    ASSUME JournalInv, NEW t \in Tx, NEW p, TakesEffect(t, p)
    PROVE  JournalInv'
<1> USE DEF TakesEffect
<1> DEFINE i == plan[t].iface
<1>a. TypeOK /\ i \in Iface \ Foreign /\ proc = "serving"
    BY DEF JournalInv, RunsAlone
<1>b. pc[t] \in {"link", "peer", "route"} => cur[t] \in Resource
    BY CreateIsResource DEF JournalInv, EffectJournaled, Resource
<1>c. mem[t].status[cur[t]] = "applying"
    BY DEF JournalInv, EffectJournaled
<1>d. /\ res' \in [Iface -> [Resource -> Owner]]
      /\ \A j \in Iface, r \in Resource :
           \/ res'[j][r] = res[j][r]
           \/ /\ pc[t] \in {"link", "peer", "route"} /\ j = i /\ r = cur[t]
              /\ res[j][r] = None /\ res'[j][r] = t
  <2>1. CASE res' = res
    BY <2>1, <1>a DEF TypeOK
  <2>2. CASE /\ pc[t] \in {"link", "peer", "route"}
             /\ res' = [res EXCEPT ![i][cur[t]] = IF @ = None THEN t ELSE @]
    <3>1. cur[t] \in Resource /\ i \in Iface /\ t \in Owner
      BY <1>a, <1>b, <2>2 DEF Owner
    <3>2. res \in [Iface -> [Resource -> Owner]]
      BY <1>a DEF TypeOK
    <3> DEFINE now == IF res[i][cur[t]] = None THEN t ELSE res[i][cur[t]]
    <3>3. res' = [res EXCEPT ![i] = [@ EXCEPT ![cur[t]] = now]]
      BY <2>2
    <3>4. now \in Owner /\ (res[i][cur[t]] # None => now = res[i][cur[t]])
          /\ (res[i][cur[t]] = None => now = t)
      BY <3>1, <3>2
    <3> HIDE DEF i, now
    <3>5. [res[i] EXCEPT ![cur[t]] = now] \in [Resource -> Owner]
      BY <3>1, <3>2, <3>4
    <3>6. res' \in [Iface -> [Resource -> Owner]]
      BY <3>1, <3>2, <3>3, <3>5
    <3>7. \A j \in Iface, r \in Resource :
             res'[j][r] = IF j = i /\ r = cur[t] THEN now ELSE res[j][r]
      BY <3>1, <3>2, <3>3
    <3>8. \A j \in Iface, r \in Resource :
             \/ res'[j][r] = res[j][r]
             \/ j = i /\ r = cur[t] /\ res[j][r] = None /\ res'[j][r] = t
      BY <3>4, <3>7
    <3> HIDE DEF TakesEffect
    <3> QED BY <2>2, <3>6, <3>8
  <2> QED BY <2>1, <2>2
<1>f. pc[t] = "link" => res'[i]["create"] # None
  <2> HAVE pc[t] = "link"
  <2>1. cur[t] = "create"
    BY DEF JournalInv, EffectJournaled
  <2>2. t # None
    BY NetStateAssumption
  <2> QED BY <1>a, <2>1, <2>2, CreateIsResource DEF TypeOK
<1>g. pc[t] \in {"peer", "route"} => res[i]["create"] # None
    BY DEF JournalInv, EffectJournaled, LinkHolds
<1> HIDE DEF i
<1>1. TypeOK'
    BY <1>a, <1>d DEF TypeOK, Steps
<1>2. HostIsJournaled'
    BY <1>d, SMTT(30) DEF HostIsJournaled, EffectJournaled, JournalInv
<1>8. MemoryCovers'
    BY <1>a, <1>c, <1>d DEF TypeOK, MemoryCovers, JournalInv, i
<1>3. RunsAlone'
    BY <1>a DEF TypeOK, RunsAlone, JournalInv
<1>4. EffectJournaled'
    BY <1>a DEF TypeOK, EffectJournaled, JournalInv
<1>5. ExistedKept'
  <2>1. \A j \in Iface, r \in Resource : res[j][r] # None => res'[j][r] = res[j][r]
    BY <1>d
  <2>2. ASSUME NEW u \in Tx, Running(u)'
        PROVE  /\ Running(u) /\ plan[u].iface \in Iface
               /\ pc'[u] = "undo" => pc[u] = "undo"
               /\ UNCHANGED <<plan, mem, todo>>
    <3>1. pc'[u] = IF u = t THEN p ELSE pc[u]
      BY <1>a DEF TypeOK
    <3>2. Running(u) /\ (pc'[u] = "undo" => pc[u] = "undo")
      BY <2>2, <3>1 DEF Running, EffectSteps
    <3> QED BY <3>2 DEF JournalInv, RunsAlone
  <2> HIDE DEF TakesEffect
  <2> QED BY <2>1, <2>2 DEF ExistedKept, JournalInv
<1>6. LinkHolds'
    BY <1>a, <1>d, <1>f, <1>g, CreateIsResource, SMTT(30) DEF TypeOK, LinkHolds, EffectJournaled, JournalInv, RunsAlone, i
<1>7. BootRemoves'
    BY <1>a DEF BootRemoves
<1>9. LinkCarries'
  <2>1. res[i]["create"] # None => res'[i]["create"] # None
    BY <1>a, <1>d, CreateIsResource
  <2>2. ASSUME NEW j \in Iface, NEW r \in Resource, res'[j]["create"] = None
        PROVE  res'[j][r] = None
    BY <1>d, <1>f, <1>g, <2>1, <2>2, CreateIsResource DEF LinkCarries, JournalInv
  <2>3. ASSUME NEW j \in Foreign, NEW r \in Resource PROVE res'[j][r] \notin Tx
    <3>1. j \in Iface /\ j # i
      BY <1>a, NetStateAssumption
    <3>2. res'[j][r] = res[j][r]
      BY <1>d, <3>1
    <3> QED BY <3>2 DEF LinkCarries, JournalInv
  <2> QED BY <2>2, <2>3 DEF LinkCarries
<1> QED BY <1>1, <1>2, <1>3, <1>4, <1>5, <1>6, <1>7, <1>8, <1>9 DEF JournalInv

(* A step outside the journal: resources go, or the operator adds one, and *)
(* an interface an Apply works on loses nothing.                           *)
LEMMA QuietStep ==
    ASSUME JournalInv,
           res' \in [Iface -> [Resource -> Owner]],
           proute' \in [Iface -> SUBSET Peer],
           dev' \in [Iface -> [cfg : Owner, up : BOOLEAN]],
           cancelled' \in [Tx -> BOOLEAN],
           proc' \in Boot, listed' \in SUBSET Iface, clean' \in BOOLEAN,
           UNCHANGED <<disk, mem, plan, pc, cur, todo, crashes>>,
           \A j \in Iface, r \in Resource :
               /\ res'[j][r] \in {res[j][r], None, Operator}
               /\ res'[j]["create"] = None => res'[j][r] = None
               /\ Busy(j) /\ res[j][r] # None => res'[j][r] = res[j][r],
           proc' = proc \/ \A t \in Tx : ~Running(t),
           BootRemoves'
    PROVE  JournalInv'
<1>1. TypeOK'
    BY DEF TypeOK, JournalInv
<1>0. \A t \in Tx, j \in Iface, r \in Resource : res'[j][r] = t => res[j][r] = t
    BY NetStateAssumption
<1>2. HostIsJournaled' /\ MemoryCovers'
    BY <1>0 DEF HostIsJournaled, MemoryCovers, JournalInv
<1>3. RunsAlone' /\ EffectJournaled'
    BY DEF RunsAlone, EffectJournaled, JournalInv
<1>4. ExistedKept'
    BY DEF ExistedKept, RunsAlone, JournalInv
<1>5. LinkHolds'
  <2> SUFFICES ASSUME NEW t \in Tx, Running(t)', pc[t] \notin {"undo", "link"},
                      mem[t].status["create"] # "planned"
               PROVE  res'[plan[t].iface]["create"] # None
    BY DEF LinkHolds
  <2>1. Running(t)
    BY DEF Running
  <2>2. plan[t].iface \in Iface /\ res[plan[t].iface]["create"] # None
    BY <2>1 DEF LinkHolds, RunsAlone, JournalInv
  <2>3. Busy(plan[t].iface)
    BY <2>1 DEF Busy
  <2> QED BY <2>2, <2>3, CreateIsResource
<1>6. LinkCarries'
  <2>1. \A i \in Iface, r \in Resource : res'[i]["create"] = None => res'[i][r] = None
    OBVIOUS
  <2>2. ASSUME NEW i \in Foreign, NEW r \in Resource PROVE res'[i][r] \notin Tx
    <3>1. i \in Iface /\ res[i][r] \notin Tx
      BY NetStateAssumption DEF LinkCarries, JournalInv
    <3>2. res'[i][r] \in {res[i][r], None, Operator}
      BY <3>1
    <3> QED BY <3>1, <3>2, NetStateAssumption
  <2> QED BY <2>1, <2>2 DEF LinkCarries
<1> QED BY <1>1, <1>2, <1>3, <1>4, <1>5, <1>6 DEF JournalInv

(* One turn of a rollback: the record says rolled back only once the       *)
(* resource is gone, or when it was never the transaction's own.           *)
LEMMA CompensateKeeps ==
    ASSUME JournalInv, NEW t \in Tx, Compensate(t)
    PROVE  JournalInv'
<1> DEFINE i == plan[t].iface
<1>a. PICK o \in todo[t] :
        /\ todo' = [todo EXCEPT ![t] = @ \ {o}]
        /\ \/ /\ Spared(t, o) /\ mem' = [mem EXCEPT ![t] = SetStatus(mem[t], o, "rolledback")]
              /\ UNCHANGED hostVars
           \/ /\ ~Spared(t, o) /\ mem' = [mem EXCEPT ![t] = SetStatus(mem[t], o, "rolledback")]
              /\ Undone(i, o)
           \/ ~Spared(t, o) /\ NotUndone(t, i, o) /\ UNCHANGED mem
    BY DEF Compensate
<1>b. /\ TypeOK /\ pc[t] = "undo" /\ proc = "serving"
      /\ i \in Iface \ Foreign /\ o \in Op
      /\ UNCHANGED <<disk, plan, pc, cur, cancelled, proc, listed, clean, crashes>>
    BY <1>a DEF Compensate, JournalInv, RunsAlone, TypeOK, bootVars
<1>c. /\ \A q \in Op : mem'[t].status[q] = mem[t].status[q] \/ q = o
      /\ mem' \in [Tx -> Record]
      /\ \A u \in Tx \ {t} : mem'[u] = mem[u]
      /\ mem'[t].status["create"] # "none" => mem[t].status["create"] # "none"
      /\ "create" \in todo[t] => mem'[t].status["create"] # "none"
  <2>1. "rolledback" \in Status /\ mem[t] \in Record /\ mem \in [Tx -> Record]
    BY <1>b DEF Status, TypeOK
  <2>2. "create" \in todo[t] => mem[t].status["create"] # "none"
    BY <1>b DEF JournalInv, ExistedKept
  <2>3. CASE mem' = mem
    BY <2>1, <2>2, <2>3
  <2>4. CASE mem' = [mem EXCEPT ![t] = SetStatus(mem[t], o, "rolledback")]
    <3> DEFINE rec == SetStatus(mem[t], o, "rolledback")
    <3>1. /\ rec \in Record /\ rec.status[o] = "rolledback"
          /\ \A q \in Op \ {o} : rec.status[q] = mem[t].status[q]
      BY <1>b, <2>1, SetStatusType
    <3>2. rec.status["create"] # "none" => mem[t].status["create"] # "none"
      BY <1>a, <2>2, <3>1, CreateIsResource
    <3>3. mem'[t] = rec /\ \A u \in Tx \ {t} : mem'[u] = mem[u]
      BY <2>1, <2>4
    <3> HIDE DEF rec
    <3> QED BY <2>1, <2>2, <2>4, <3>1, <3>2, <3>3, CreateIsResource
  <2> QED BY <1>a, <2>3, <2>4
<1>d. /\ res' \in [Iface -> [Resource -> Owner]]
      /\ proute' \in [Iface -> SUBSET Peer]
      /\ dev' \in [Iface -> [cfg : Owner, up : BOOLEAN]]
      /\ \A j \in Iface, r \in Resource :
           \/ res'[j][r] = res[j][r] /\ (r = o /\ j = i => mem' = mem \/ o \in plan[t].existed)
           \/ /\ res'[j][r] = None /\ j = i /\ o \notin plan[t].existed
              /\ \/ r = o /\ r # "create"
                 \/ o = "create" /\ \A q \in Resource : res'[i][q] = None
  <2> USE <1>b DEF TypeOK
  <2>1. CASE Undone(i, o) /\ ~Spared(t, o)
    <3>0. None \in Owner /\ o \notin plan[t].existed /\ i \in Iface
      BY <2>1 DEF Spared, Owner
    <3>a. res \in [Iface -> [Resource -> Owner]] /\ proute \in [Iface -> SUBSET Peer]
          /\ dev \in [Iface -> [cfg : Owner, up : BOOLEAN]]
      OBVIOUS
    <3> HIDE DEF i, TypeOK
    <3>1. CASE o = "create"
      <4>1. RemoveInterface(i)
        BY <2>1, <3>1, NetStateAssumption DEF Undone
      <4>2. /\ res' = [res EXCEPT ![i] = [r \in Resource |-> None]]
            /\ proute' \in [Iface -> SUBSET Peer]
            /\ dev' \in [Iface -> [cfg : Owner, up : BOOLEAN]]
        BY <3>0, <3>a, <4>1 DEF RemoveInterface
      <4> QED BY <3>0, <3>a, <3>1, <4>2
    <3>2. CASE o \in Peer \cup Prefix
      <4>1. o # "create" /\ o \in Resource /\ ~(o \in Peer /\ o \in Prefix)
        BY <3>2, NetStateAssumption DEF Resource
      <4>2. RemovePeer(i, o) \/ RemoveRoute(i, o)
        BY <2>1, <3>2, <4>1 DEF Undone
      <4>3. /\ res' = [res EXCEPT ![i][o] = None]
            /\ proute' \in [Iface -> SUBSET Peer]
            /\ dev' = dev
        BY <3>0, <3>a, <4>2 DEF RemovePeer, RemoveRoute
      <4> QED BY <3>0, <3>a, <4>1, <4>3
    <3>4. CASE o \notin Resource
      <4>1. UNCHANGED hostVars
        BY <2>1, <3>4, NetStateAssumption DEF Undone, Resource
      <4> QED BY <3>a, <3>4, <4>1 DEF hostVars
    <3> QED BY <3>1, <3>2, <3>4 DEF Resource
  <2>2. CASE NotUndone(t, i, o) /\ UNCHANGED mem
    BY <2>2 DEF NotUndone, hostVars
  <2>3. CASE Spared(t, o) /\ UNCHANGED hostVars
    BY <2>3 DEF Spared, hostVars
  <2> QED BY <1>a, <2>1, <2>2, <2>3
<1> HIDE DEF i
<1>1. TypeOK'
    BY <1>a, <1>b, <1>c, <1>d DEF TypeOK
<1>0. \A u \in Tx, j \in Iface, r \in Resource : res'[j][r] = u => res[j][r] = u
    BY <1>d, NetStateAssumption
<1>2. HostIsJournaled'
    BY <1>0, <1>b DEF HostIsJournaled, JournalInv
<1>3. MemoryCovers'
  <2> SUFFICES ASSUME NEW u \in Tx, NEW j \in Iface, NEW r \in Resource,
                      Running(u)', res'[j][r] = u
               PROVE  j = plan'[u].iface /\ mem'[u].status[r] \in Reached
    BY DEF MemoryCovers
  <2>1. Running(u) /\ res[j][r] = u
    BY <1>b, <1>0 DEF Running
  <2>2. j = plan[u].iface /\ mem[u].status[r] \in Reached
    BY <2>1 DEF JournalInv, MemoryCovers
  <2>3. CASE u # t
    BY <1>b, <1>c, <2>2, <2>3
  <2>4. CASE u = t /\ r # o
    BY <1>b, <1>c, <2>2, <2>4, CreateIsResource
  <2>5. CASE u = t /\ r = o
    <3>1. j = i /\ o \notin plan[t].existed
      BY <2>1, <2>2, <2>5 DEF JournalInv, ExistedKept, i
    <3>2. mem' = mem
      BY <1>d, <2>1, <2>5, <3>1, NetStateAssumption
    <3> QED BY <1>b, <2>2, <3>2
  <2> QED BY <2>3, <2>4, <2>5
<1>4. RunsAlone' /\ EffectJournaled'
    BY <1>b, <1>c DEF RunsAlone, EffectJournaled, JournalInv
<1>5. ExistedKept'
    BY <1>a, <1>b, <1>c, <1>d, SMTT(30) DEF ExistedKept, RunsAlone, JournalInv, TypeOK, i
<1>6. LinkHolds'
    BY <1>b, <1>c, <1>d, CreateIsResource DEF LinkHolds, RunsAlone, JournalInv, i
<1>7. LinkCarries'
  <2>1. ASSUME NEW j \in Iface, NEW r \in Resource, res'[j]["create"] = None
        PROVE  res'[j][r] = None
    <3>1. CASE res'[j]["create"] = res[j]["create"]
      <4>1. res[j][r] = None
        BY <2>1, <3>1 DEF JournalInv, LinkCarries
      <4> QED BY <1>d, <4>1
    <3>2. CASE res'[j]["create"] # res[j]["create"]
      BY <1>d, <3>2, CreateIsResource
    <3> QED BY <3>1, <3>2
  <2>2. ASSUME NEW j \in Foreign, NEW r \in Resource PROVE res'[j][r] \notin Tx
    <3>1. j \in Iface /\ res[j][r] \notin Tx
      BY NetStateAssumption DEF LinkCarries, JournalInv
    <3> QED BY <1>0, <3>1
  <2> QED BY <2>1, <2>2 DEF LinkCarries
<1>8. BootRemoves'
    BY <1>b DEF BootRemoves
<1> QED BY <1>1, <1>2, <1>3, <1>4, <1>5, <1>6, <1>7, <1>8 DEF JournalInv

(* One action of a running Apply.                                          *)
LEMMA ApplyStepKeeps ==
    ASSUME JournalInv, NEW t \in Tx, ApplyStep(t)
    PROVE  JournalInv'
<1> USE DEF Goto, Save, SaveFails, Fail, hostVars, bootVars
<1>a. /\ TypeOK /\ mem[t] \in Record /\ cur[t] \in Op /\ todo[t] \in SUBSET Op
      /\ mem \in [Tx -> Record] /\ todo = [todo EXCEPT ![t] = @] /\ cur = [cur EXCEPT ![t] = @]
    BY DEF JournalInv, TypeOK
<1>b. \A o \in Op : mem[t].status[o] \in Status
    BY <1>a, RecordType
<1>c. /\ "applying" \in Status /\ "applied" \in Status /\ "failed" \in Status
      /\ \A s \in {"next", "ok", "err", "undo", "link", "peer", "route", "complete"} : s \in Steps
    BY DEF Status, Steps
<1>1. CASE Begin(t)
  <2>1. PICK o \in Op :
          LET rec == SetStatus(mem[t], o, "applying")
          IN  /\ mem[t].status[o] = "planned"
              /\ \A q \in Op : mem[t].status[q] = "planned" => Rank(o) <= Rank(q)
              /\ cur' = [cur EXCEPT ![t] = o]
              /\ mem' = [mem EXCEPT ![t] = rec]
              /\ \/ Save(t, rec) /\ Goto(t, FirstStep(o))
                 \/ SaveFails(t, rec) /\ Fail(t, rec)
    BY <1>1 DEF Begin
  <2> DEFINE rec == SetStatus(mem[t], o, "applying")
  <2>2. /\ rec \in Record /\ rec.status[o] = "applying"
        /\ \A q \in Op \ {o} : rec.status[q] = mem[t].status[q]
    BY <1>a, <1>c, SetStatusType
  <2>3. /\ pc[t] = "next"
        /\ UNCHANGED <<res, proute, dev, plan, cancelled, proc, listed, clean, crashes>>
    BY <1>1 DEF Begin
  <2>4. rec.status["create"] # "planned"
    <3>1. o # "create" => Rank(o) > 1
      BY DEF Rank
    <3>2. Rank("create") = 1
      BY NetStateAssumption DEF Rank
    <3>3. Rank(o) \in Nat
      BY DEF Rank
    <3> QED BY <2>1, <2>2, <3>1, <3>2, <3>3, CreateIsResource
  <2>5. \A r \in Resource : mem[t].status[r] \in Reached => rec.status[r] \in Reached
    BY <2>2, CreateIsResource
  <2>6. rec.status["create"] # "none" => mem[t].status["create"] # "none"
    BY <2>1, <2>2, CreateIsResource
  <2> HIDE DEF rec
  <2>7. CASE Save(t, rec) /\ Goto(t, FirstStep(o))
    <3>1. /\ FirstStep(o) \in {"link", "peer", "route", "complete"}
          /\ FirstStep(o) = "link" <=> o = "create"
          /\ FirstStep(o) = "peer" => o \in Peer
          /\ FirstStep(o) = "route" => o \in Prefix
      BY NetStateAssumption DEF FirstStep, Op, IfaceOp
    <3>2. WritesRecord(t, rec, FirstStep(o), o, todo[t])
      BY <1>a, <2>1, <2>3, <2>7 DEF WritesRecord, rec
    <3>3. disk'[t] = rec
      BY <1>a, <2>7 DEF TypeOK
    <3>4. KeepsRecord(t, rec, FirstStep(o), o, todo[t])
      BY <2>1, <2>2, <2>3, <2>4, <2>5, <2>6, <3>1, <3>3, CreateIsResource DEF KeepsRecord
    <3> QED BY <1>a, <1>c, <2>2, <2>3, <3>1, <3>2, <3>4, JournalStep
  <2>8. CASE SaveFails(t, rec) /\ Fail(t, rec)
    <3> DEFINE td == {q \in Op : rec.status[q] = "applied"}
    <3>1. WritesRecord(t, rec, "undo", o, td)
      BY <1>a, <2>1, <2>3, <2>8 DEF WritesRecord, rec
    <3>2. KeepsRecord(t, rec, "undo", o, td)
      BY <2>5, <2>6 DEF KeepsRecord
    <3> QED BY <1>a, <1>c, <2>2, <2>3, <3>1, <3>2, JournalStep
  <2> QED BY <2>1, <2>7, <2>8 DEF rec
<1>2. CASE Complete(t)
  <2> DEFINE rec == SetStatus(mem[t], cur[t], "applied")
             td  == {q \in Op : rec.status[q] = "applied"}
  <2>0. mem[t] \in Record /\ cur[t] \in Op /\ "applied" \in Status
    BY <1>a, <1>c
  <2>1. /\ rec \in Record /\ rec.status[cur[t]] = "applied"
        /\ \A q \in Op \ {cur[t]} : rec.status[q] = mem[t].status[q]
    BY <2>0, SetStatusType
  <2>2. /\ pc[t] = "complete" /\ mem' = [mem EXCEPT ![t] = rec]
        /\ UNCHANGED <<res, proute, dev, plan, cur, cancelled, proc, listed, clean, crashes>>
        /\ \/ Save(t, rec) /\ Goto(t, "next")
           \/ SaveFails(t, rec) /\ Fail(t, rec)
    BY <1>2 DEF Complete
  <2>3. mem[t].status[cur[t]] = "applying" /\ mem[t].status["create"] # "planned"
    BY <2>2 DEF JournalInv, EffectJournaled
  <2> HIDE DEF rec
  <2>4. \/ WritesRecord(t, rec, "next", cur[t], todo[t])
        \/ WritesRecord(t, rec, "undo", cur[t], td)
    BY <1>a, <2>2 DEF WritesRecord
  <2>5. KeepsRecord(t, rec, "next", cur[t], todo[t]) /\ KeepsRecord(t, rec, "undo", cur[t], td)
    BY <2>1, <2>2, <2>3, CreateIsResource DEF KeepsRecord
  <2> QED BY <1>a, <1>c, <2>1, <2>2, <2>4, <2>5, JournalStep
<1>3. CASE Commit(t)
  <2> DEFINE rec == [mem[t] EXCEPT !.ended = TRUE, !.committed = TRUE]
             td  == {q \in Op : rec.status[q] = "applied"}
  <2>1. rec \in Record /\ rec.status = mem[t].status
    BY <1>a, RecordType
  <2>2. /\ pc[t] = "next" /\ mem' = [mem EXCEPT ![t] = rec]
        /\ UNCHANGED <<res, proute, dev, plan, cur, cancelled, proc, listed, clean, crashes>>
        /\ \/ Save(t, rec) /\ Goto(t, "ok")
           \/ SaveFails(t, rec) /\ Fail(t, rec)
    BY <1>3 DEF Commit
  <2> HIDE DEF rec
  <2>3. \/ WritesRecord(t, rec, "ok", cur[t], todo[t])
        \/ WritesRecord(t, rec, "undo", cur[t], td)
    BY <1>a, <2>2 DEF WritesRecord
  <2>4. KeepsRecord(t, rec, "ok", cur[t], todo[t]) /\ KeepsRecord(t, rec, "undo", cur[t], td)
    BY <2>1 DEF KeepsRecord
  <2> QED BY <1>a, <1>c, <2>1, <2>2, <2>3, <2>4, JournalStep
<1>4. CASE EffectFails(t)
  <2> DEFINE rec == SetStatus(mem[t], cur[t], "failed")
             td  == {q \in Op : rec.status[q] = "applied"}
  <2>0. mem[t] \in Record /\ cur[t] \in Op /\ "failed" \in Status
    BY <1>a, <1>c
  <2>1. /\ rec \in Record /\ rec.status[cur[t]] = "failed"
        /\ \A q \in Op \ {cur[t]} : rec.status[q] = mem[t].status[q]
    BY <2>0, SetStatusType
  <2>2. /\ pc[t] \in EffectSteps /\ mem' = [mem EXCEPT ![t] = rec]
        /\ UNCHANGED <<res, proute, dev, plan, cur, cancelled, proc, listed, clean, crashes>>
        /\ (Save(t, rec) \/ SaveFails(t, rec)) /\ Fail(t, rec)
    BY <1>4 DEF EffectFails, EffectRefused
  <2>3. mem[t].status[cur[t]] = "applying"
    BY <2>2 DEF JournalInv, EffectJournaled
  <2> HIDE DEF rec
  <2>4. WritesRecord(t, rec, "undo", cur[t], td)
    BY <1>a, <2>2 DEF WritesRecord
  <2>5. KeepsRecord(t, rec, "undo", cur[t], td)
    BY <2>1, <2>3, CreateIsResource DEF KeepsRecord
  <2> QED BY <1>a, <1>c, <2>1, <2>2, <2>4, <2>5, JournalStep
<1>5. CASE Close(t)
  <2> DEFINE rec == [mem[t] EXCEPT !.ended = TRUE]
  <2>1. rec \in Record /\ rec.status = mem[t].status
    BY <1>a, RecordType
  <2>2. /\ pc[t] = "undo" /\ mem' = [mem EXCEPT ![t] = rec]
        /\ UNCHANGED <<res, proute, dev, plan, cur, cancelled, proc, listed, clean, crashes>>
        /\ (Save(t, rec) \/ SaveFails(t, rec)) /\ Goto(t, "err")
    BY <1>5 DEF Close
  <2> HIDE DEF rec
  <2>3. WritesRecord(t, rec, "err", cur[t], todo[t])
    BY <1>a, <2>2 DEF WritesRecord
  <2>4. KeepsRecord(t, rec, "err", cur[t], todo[t])
    BY <2>1 DEF KeepsRecord
  <2> QED BY <1>a, <1>c, <2>1, <2>2, <2>3, <2>4, JournalStep
<1>6. CASE EnsureLink(t) \/ ApplyPeer(t) \/ AddRoute(t)
  <2>1. pc[t] = "link" => cur[t] = "create"
    BY DEF JournalInv, EffectJournaled
  <2>2. TakesEffect(t, "config") \/ TakesEffect(t, "peerroute") \/ TakesEffect(t, "complete")
    BY <1>6, <1>a, <2>1 DEF EnsureLink, ApplyPeer, AddRoute, Effect, Introduce, TakesEffect, TypeOK
  <2> QED BY <2>2, EffectStep
<1>7. CASE ConfigureDevice(t) \/ LinkSetUp(t) \/ ObserveInterface(t) \/ EnsurePeerRoutes(t)
  <2>1. /\ pc[t] = "peerroute" => cur[t] \in Peer
        /\ Running(t) => plan[t].iface \in Iface
    BY DEF JournalInv, EffectJournaled, RunsAlone
  <2>2. /\ proute' \in [Iface -> SUBSET Peer]
        /\ dev' \in [Iface -> [cfg : Owner, up : BOOLEAN]]
    <3> USE <1>a, <2>1 DEF Effect, TypeOK, Owner
    <3>0. ASSUME NEW i \in Iface, NEW x \in Owner
          PROVE  /\ [dev EXCEPT ![i].cfg = x] \in [Iface -> [cfg : Owner, up : BOOLEAN]]
                 /\ [dev EXCEPT ![i].up = TRUE] \in [Iface -> [cfg : Owner, up : BOOLEAN]]
      <4>1. dev \in [Iface -> [cfg : Owner, up : BOOLEAN]]
        OBVIOUS
      <4> QED BY ONLY <3>0, <4>1
    <3>1. CASE ConfigureDevice(t)
      <4>1. /\ plan[t].iface \in Iface /\ t \in Owner /\ UNCHANGED proute
            /\ dev' = [dev EXCEPT ![plan[t].iface].cfg = t]
        BY <3>1 DEF ConfigureDevice
      <4> QED BY <3>0, <4>1
    <3>2. CASE LinkSetUp(t)
      <4>1. /\ plan[t].iface \in Iface /\ t \in Owner /\ UNCHANGED proute
            /\ dev' = [dev EXCEPT ![plan[t].iface].up = TRUE]
        BY <3>2 DEF LinkSetUp
      <4> QED BY <3>0, <4>1
    <3>3. CASE ObserveInterface(t)
      BY <3>3 DEF ObserveInterface
    <3>4. CASE EnsurePeerRoutes(t)
      BY <3>4 DEF EnsurePeerRoutes
    <3> QED BY <1>7, <3>1, <3>2, <3>3, <3>4
  <2>3. TakesEffect(t, "up") \/ TakesEffect(t, "observe") \/ TakesEffect(t, "complete")
    BY <1>7, <2>2 DEF ConfigureDevice, LinkSetUp, ObserveInterface, EnsurePeerRoutes,
                      Effect, TakesEffect
  <2> QED BY <2>3, EffectStep
<1>8. CASE Compensate(t)
    BY <1>8, CompensateKeeps
<1> QED BY <1>1, <1>2, <1>3, <1>4, <1>5, <1>6, <1>7, <1>8 DEF ApplyStep

(* Taking an interface away, whoever asks.                                 *)
LEMMA RemoveInterfaceRemoves ==
    ASSUME TypeOK, NEW i \in Iface, RemoveInterface(i)
    PROVE  /\ res' \in [Iface -> [Resource -> Owner]]
           /\ proute' \in [Iface -> SUBSET Peer]
           /\ dev' \in [Iface -> [cfg : Owner, up : BOOLEAN]]
           /\ \A r \in Resource : res'[i][r] = None
           /\ \A j \in Iface \ {i} : res'[j] = res[j]
<1>1. None \in Owner
    BY DEF Owner
<1> QED BY <1>1 DEF TypeOK, RemoveInterface

(* One action of the start-up.                                             *)
LEMMA BootStepKeeps ==
    ASSUME JournalInv, BootStep
    PROVE  JournalInv'
<1> USE DEF GotoBoot, BootUnchanged, hostVars, runVars
<1>a. TypeOK
    BY DEF JournalInv
<1>b. \A t \in Tx : ~Running(t)
    BY DEF BootStep, Start, Recover, Teardown, RemoveOne, RemovedAll, ReconcileJournal,
           ReconciledAll, JournalUnreadable, JournalInv, RunsAlone
<1>c. /\ \A b \in Boot : AfterError(b) \in {"teardown", "serving"}
      /\ \A b \in {"recover", "recoverRemove", "recoverJournal", "teardown", "teardownRemove",
                    "teardownJournal", "serving"} : b \in Boot
    BY DEF AfterError, Boot
<1>d. \A j \in Iface, r \in Resource : res[j]["create"] = None => res[j][r] = None
    BY DEF JournalInv, LinkCarries
<1>1. CASE Start \/ Recover \/ Teardown \/ RemovedAll \/ ReconciledAll \/ JournalUnreadable
  <2>1. /\ UNCHANGED <<res, proute, dev, disk, mem, plan, pc, cur, todo, cancelled, crashes>>
        /\ proc' \in Boot /\ listed' \in SUBSET Iface /\ clean' \in BOOLEAN
    <3>1. clean' \in BOOLEAN
      BY <1>1, <1>a DEF Start, Recover, Teardown, RemovedAll, ReconciledAll, JournalUnreadable, TypeOK
    <3>2. proc' \in Boot
      BY <1>1, <1>a, <1>c DEF Start, Recover, Teardown, RemovedAll, ReconciledAll, JournalUnreadable, TypeOK
    <3>3. listed' \in SUBSET Iface
      BY <1>1, <1>a DEF Start, Recover, Teardown, RemovedAll, ReconciledAll, JournalUnreadable,
                        ListOwnedInterfaces, TypeOK
    <3> QED BY <1>1, <3>1, <3>2, <3>3 DEF Start, Recover, Teardown, RemovedAll, ReconciledAll,
                                           JournalUnreadable
  <2>2. BootRemoves'
    <3>1. CASE Start
      BY <3>1 DEF Start, BootRemoves
    <3>2. CASE Recover \/ Teardown
      BY <3>2 DEF Recover, Teardown, ListOwnedInterfaces, OwnsInterface, BootRemoves
    <3>3. CASE RemovedAll
      BY <3>3 DEF RemovedAll, BootRemoves, JournalInv
    <3>4. CASE ReconciledAll \/ JournalUnreadable
      BY <3>4, <1>a, <1>c DEF ReconciledAll, JournalUnreadable, BootRemoves, TypeOK
    <3> QED BY <1>1, <3>1, <3>2, <3>3, <3>4
  <2> QED BY <1>a, <1>b, <1>d, <2>1, <2>2, QuietStep DEF TypeOK
<1>2. CASE RemoveOne
  <2>1. PICK i \in listed :
          \/ /\ RemoveInterface(i) /\ listed' = listed \ {i}
             /\ UNCHANGED <<proc, clean>>
          \/ /\ proc' = AfterError(proc) /\ UNCHANGED clean
             /\ listed' = {} /\ UNCHANGED hostVars
    BY <1>2 DEF RemoveOne
  <2>2. /\ UNCHANGED <<disk, mem, plan, pc, cur, todo, cancelled, crashes>>
        /\ proc \in {"recoverRemove", "teardownRemove"} /\ i \in Iface
        /\ proc' \in Boot /\ listed' \in SUBSET Iface /\ clean' \in BOOLEAN
    BY <1>2, <1>a, <1>c, <2>1 DEF RemoveOne, TypeOK
  <2>3. CASE RemoveInterface(i) /\ listed' = listed \ {i} /\ UNCHANGED <<proc, clean>>
    <3>1. BootRemoves'
      BY <1>a, <2>2, <2>3, RemoveInterfaceRemoves, CreateIsResource DEF BootRemoves, JournalInv
    <3>2. \A j \in Iface, r \in Resource :
            /\ res'[j][r] \in {res[j][r], None, Operator}
            /\ res'[j]["create"] = None => res'[j][r] = None
      BY <1>a, <1>d, <2>2, <2>3, RemoveInterfaceRemoves
    <3> QED BY <1>a, <1>b, <2>2, <2>3, <3>1, <3>2, RemoveInterfaceRemoves, QuietStep DEF TypeOK
  <2>4. CASE proc' = AfterError(proc) /\ listed' = {} /\ UNCHANGED hostVars
    <3>1. BootRemoves'
      BY <1>a, <1>c, <2>4 DEF BootRemoves, TypeOK
    <3> QED BY <1>a, <1>b, <1>d, <2>2, <2>4, <3>1, QuietStep DEF TypeOK
  <2> QED BY <2>1, <2>3, <2>4
<1>3. CASE ReconcileJournal
  <2>1. \A t \in Tx, i \in Iface, r \in Resource : res[i][r] # t
    BY <1>3, <1>d, NetStateAssumption, CreateIsResource
       DEF ReconcileJournal, JournalInv, BootRemoves, LinkCarries
  <2>2. PICK t \in Tx : /\ disk' = [disk EXCEPT ![t] = Reconciled(disk[t])] \/ disk' = disk
                        /\ proc' = proc \/ proc' = AfterError(proc)
    BY <1>3 DEF ReconcileJournal, PendingRecovery, Save, SaveFails
  <2>3. /\ UNCHANGED <<res, proute, dev, mem, plan, pc, cur, todo, cancelled, crashes, listed, clean>>
        /\ proc' \in Boot /\ proc \in {"recoverJournal", "teardownJournal"}
    BY <1>3, <1>a, <1>c, <2>2 DEF ReconcileJournal, TypeOK
  <2>4. Reconciled(disk[t]) \in Record
    <3>1. disk[t] \in Record
      BY <1>a DEF TypeOK
    <3> QED BY <3>1 DEF Reconciled, Record, Status
  <2>5. TypeOK'
    BY <1>a, <2>2, <2>3, <2>4 DEF TypeOK
  <2>6. HostIsJournaled' /\ MemoryCovers' /\ LinkCarries'
    BY <2>1, <2>3 DEF HostIsJournaled, MemoryCovers, LinkCarries, JournalInv
  <2>7. RunsAlone' /\ EffectJournaled' /\ ExistedKept' /\ LinkHolds'
    BY <1>b, <2>3 DEF RunsAlone, EffectJournaled, ExistedKept, LinkHolds
  <2>8. BootRemoves'
    BY <1>a, <1>c, <2>2, <2>3 DEF BootRemoves, JournalInv, TypeOK
  <2> QED BY <2>5, <2>6, <2>7, <2>8 DEF JournalInv
<1> QED BY <1>1, <1>2, <1>3 DEF BootStep

(* Every step of the specification.                                        *)
LEMMA NextKeeps == JournalInv /\ [Next]_vars => JournalInv'
<1> SUFFICES ASSUME JournalInv, [Next]_vars PROVE JournalInv'
    OBVIOUS
<1> USE DEF hostVars, runVars, bootVars
<1>a. TypeOK
    BY DEF JournalInv
<1>b. \A j \in Iface, r \in Resource : res[j]["create"] = None => res[j][r] = None
    BY DEF JournalInv, LinkCarries
<1>1. ASSUME NEW t \in Tx, ApplyInterface(t) PROVE JournalInv'
  <2>1. PICK i \in Iface, peers \in SUBSET Peer : StartApply(t, i, IfaceOp \cup peers)
    BY <1>1 DEF ApplyInterface
  <2>2. IfaceOp \cup peers \in SUBSET Op /\ "create" \in IfaceOp \cup peers
    BY DEF Op, IfaceOp
  <2> QED BY <2>1, <2>2, StartKeeps
<1>2. ASSUME NEW t \in Tx, ApplyRoutes(t) PROVE JournalInv'
  <2>1. PICK i \in Iface, ds \in SUBSET Prefix : res[i]["create"] # None /\ StartApply(t, i, ds)
    BY <1>2 DEF ApplyRoutes
  <2>2. ds \in SUBSET Op
    BY DEF Op
  <2> QED BY <2>1, <2>2, StartKeeps
<1>3. ASSUME NEW t \in Tx, ApplyStep(t) PROVE JournalInv'
    BY <1>3, ApplyStepKeeps
<1>4. ASSUME NEW t \in Tx, Cancel(t) PROVE JournalInv'
  <2>1. UNCHANGED <<res, proute, dev, disk, mem, plan, pc, cur, todo, proc, listed, clean, crashes>>
        /\ cancelled' \in [Tx -> BOOLEAN]
    BY <1>4, <1>a DEF Cancel, TypeOK
  <2>2. BootRemoves'
    BY <2>1 DEF BootRemoves, JournalInv
  <2> QED BY <1>a, <1>b, <2>1, <2>2, QuietStep DEF TypeOK
<1>5. ASSUME NEW i \in Iface, Remove(i) PROVE JournalInv'
  <2>1. /\ RemoveInterface(i) /\ ~Busy(i) /\ proc = "serving"
        /\ UNCHANGED <<disk, mem, plan, pc, cur, todo, cancelled, proc, listed, clean, crashes>>
    BY <1>5 DEF Remove
  <2>2. BootRemoves'
    BY <2>1 DEF BootRemoves
  <2>3. \A j \in Iface, r \in Resource :
          /\ res'[j][r] \in {res[j][r], None, Operator}
          /\ res'[j]["create"] = None => res'[j][r] = None
          /\ Busy(j) => res'[j][r] = res[j][r]
    BY <1>a, <1>b, <2>1, RemoveInterfaceRemoves
  <2> QED BY <1>a, <2>1, <2>2, <2>3, RemoveInterfaceRemoves, QuietStep DEF TypeOK
<1>6. ASSUME NEW i \in Iface, NEW d \in Prefix, WithdrawRoute(i, d) \/ OperatorRoute(i, d)
      PROVE  JournalInv'
  <2>1. /\ UNCHANGED <<proute, dev, disk, mem, plan, pc, cur, todo, cancelled, proc, listed, clean, crashes>>
        /\ \/ ~Busy(i) /\ res' = [res EXCEPT ![i][d] = None]
           \/ /\ res[i]["create"] # None /\ res[i][d] = None
              /\ res' = [res EXCEPT ![i][d] = Operator]
    BY <1>6 DEF WithdrawRoute, OperatorRoute, RemoveRoute
  <2>2. d \in Resource /\ d # "create" /\ None \in Owner /\ Operator \in Owner
    BY NetStateAssumption DEF Resource, Owner
  <2>3. /\ res' \in [Iface -> [Resource -> Owner]]
        /\ \A j \in Iface : res'[j]["create"] = res[j]["create"]
    <3>1. res \in [Iface -> [Resource -> Owner]]
      BY <1>a DEF TypeOK
    <3>2. CASE res' = [res EXCEPT ![i][d] = None]
      BY <2>2, <3>1, <3>2, CreateIsResource
    <3>3. CASE res' = [res EXCEPT ![i][d] = Operator]
      BY <2>2, <3>1, <3>3, CreateIsResource
    <3> QED BY <2>1, <3>2, <3>3
  <2>4. \A j \in Iface, r \in Resource :
          /\ res'[j][r] \in {res[j][r], None, Operator}
          /\ res'[j]["create"] = None => res'[j][r] = None
          /\ Busy(j) /\ res[j][r] # None => res'[j][r] = res[j][r]
    <3>1. res \in [Iface -> [Resource -> Owner]]
      BY <1>a DEF TypeOK
    <3>2. \A j \in Iface, r \in Resource : res[j]["create"] = None => res[j][r] = None
      BY <1>b
    <3>3. CASE ~Busy(i) /\ res' = [res EXCEPT ![i][d] = None]
      <4>1. \A j \in Iface, r \in Resource :
               res'[j][r] = IF j = i /\ r = d THEN None ELSE res[j][r]
        BY <3>1, <3>3
      <4> QED BY <2>3, <3>2, <3>3, <4>1
    <3>4. CASE /\ res[i]["create"] # None /\ res[i][d] = None
               /\ res' = [res EXCEPT ![i][d] = Operator]
      <4>1. \A j \in Iface, r \in Resource :
               res'[j][r] = IF j = i /\ r = d THEN Operator ELSE res[j][r]
        BY <3>1, <3>4
      <4> QED BY <2>3, <3>2, <3>4, <4>1
    <3> QED BY <2>1, <3>3, <3>4
  <2>5. BootRemoves'
    BY <2>1, <2>3 DEF BootRemoves, JournalInv
  <2> QED BY <1>a, <2>1, <2>3, <2>4, <2>5, QuietStep DEF TypeOK
<1>7. CASE BootStep
    BY <1>7, BootStepKeeps
<1>8. CASE Crash
  <2>1. /\ UNCHANGED <<res, proute, dev, disk>>
        /\ proc' = "down" /\ \A t \in Tx : pc'[t] = "none"
    BY <1>8 DEF Crash
  <2>2. /\ mem' \in [Tx -> Record] /\ plan' \in [Tx -> [iface : Iface \cup {None}, existed : SUBSET Op]]
        /\ pc' \in [Tx -> Steps] /\ cur' \in [Tx -> Op] /\ todo' \in [Tx -> SUBSET Op]
        /\ cancelled' \in [Tx -> BOOLEAN]
    BY <1>8, NoRecordType, CreateIsResource DEF Crash, NoPlan, Steps
  <2>3. proc' \in Boot /\ listed' \in SUBSET Iface /\ clean' \in BOOLEAN
    BY <1>8 DEF Crash, Boot
  <2>4. crashes' \in 0..MaxCrashes
    BY <1>8, <1>a, NetStateAssumption DEF Crash, TypeOK
  <2>5. TypeOK'
    BY <1>a, <2>1, <2>2, <2>3, <2>4 DEF TypeOK
  <2>6. HostIsJournaled' /\ LinkCarries' /\ BootRemoves'
    BY <2>1 DEF HostIsJournaled, LinkCarries, BootRemoves, JournalInv
  <2>7. MemoryCovers' /\ RunsAlone' /\ EffectJournaled' /\ ExistedKept' /\ LinkHolds'
    BY <2>1 DEF MemoryCovers, RunsAlone, EffectJournaled, ExistedKept, LinkHolds
  <2> QED BY <2>5, <2>6, <2>7 DEF JournalInv
<1>9. CASE UNCHANGED vars
  <2>1. UNCHANGED <<res, proute, dev, disk, mem, plan, pc, cur, todo, cancelled, proc,
                    listed, clean, crashes>>
    BY <1>9 DEF vars
  <2>2. BootRemoves'
    BY <2>1 DEF BootRemoves, JournalInv
  <2> QED BY <1>a, <1>b, <2>1, <2>2, QuietStep DEF TypeOK
<1> QED BY <1>1, <1>2, <1>3, <1>4, <1>5, <1>6, <1>7, <1>8, <1>9 DEF Next

(* The values of every variable stay within their types, so no record of   *)
(* the journal ever carries a status the code does not define.             *)
THEOREM TypeCorrect == Spec => []TypeOK
<1>1. JournalInv => TypeOK
    BY DEF JournalInv
<1> QED BY <1>1, InitEstablishes, NextKeeps, PTL DEF Spec

(* Every link, peer and route a transaction introduced is recorded in the  *)
(* journal as applying, applied or failed for as long as it is on the      *)
(* host, through any failure, rollback, crash and recovery: begin saves    *)
(* before the effect, and neither a rollback nor reconcileJournal writes   *)
(* an operation off while its resource is still there.                     *)
THEOREM Journaled == Spec => []HostIsJournaled
<1>1. JournalInv => HostIsJournaled
    BY DEF JournalInv
<1> QED BY <1>1, InitEstablishes, NextKeeps, PTL DEF Spec
=============================================================================
