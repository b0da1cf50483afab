--------------------- MODULE CashuMintReconciler_proofs ---------------------
(***************************************************************************)
(* Proofs about CashuMintReconciler, for every set of specs and every      *)
(* bound: type correctness, and the inductive invariant IInv with the      *)
(* properties that follow from it.                                         *)
(***************************************************************************)
EXTENDS CashuMintReconciler, TLAPS

---------------------------------------------------------------------------
(* Facts about the operators *)

\* The names used below are kinds, and the secrets are not applied.
LEMMA KindNames ==
    /\ {"mnemonic", "pgSecret", "rpcTLS", "configMap", "ingress", "deployment",
        "pgStatefulSet", "cronJob", "restoreJob", "podMonitor", "pvc",
        "orchardPVC"} \subseteq Kinds
    /\ ReadBack \subseteq Kinds
    /\ Applied \subseteq Kinds
    /\ \A k \in Kinds : Position[k] \in Nat
BY DEF Kinds, Position, ReadBack, CreateOnce, Applied

\* meta.SetStatusCondition changes one condition and nothing else.
LEMMA SetConditionFacts ==
    ASSUME NEW s \in Status, NEW c \in CondTypes,
           NEW v \in {"Unknown", "True", "False"}, NEW g \in Nat
    PROVE  LET t == SetStatusCondition(s, c, v, g) IN
           /\ t \in Status
           /\ t.obs = s.obs /\ t.phase = s.phase
           /\ t.cond[c] = [st |-> v, og |-> g]
           /\ \A d \in CondTypes : d # c => t.cond[d] = s.cond[d]
BY DEF Status, Condition, SetStatusCondition

\* Changing the phase of a status changes nothing else.
LEMMA SetPhaseFacts ==
    ASSUME NEW s \in Status, NEW p \in Phases
    PROVE  LET t == [s EXCEPT !.phase = p] IN
           t \in Status /\ t.phase = p /\ t.obs = s.obs /\ t.cond = s.cond
BY DEF Status

\* The users' writes, field by field.
LEMMA UserWriteFacts ==
    ASSUME NEW m \in Mint, NEW g \in Nat, NEW u \in Nat, NEW s \in SUBSET Features
    PROVE  /\ LET n == [m EXCEPT !.spec = s, !.gen = g] IN
              /\ n \in Mint /\ n.gen = g /\ n.spec = s /\ n.uid = m.uid
              /\ n.fin = m.fin /\ n.del = m.del /\ n.status = m.status
           /\ LET n == [m EXCEPT !.del = TRUE, !.gen = g] IN
              /\ n \in Mint /\ n.gen = g /\ n.spec = m.spec /\ n.uid = m.uid
              /\ n.fin = m.fin /\ n.del = TRUE /\ n.status = m.status
           /\ LET n == [m EXCEPT !.uid = u, !.gen = g, !.spec = s] IN
              /\ n \in Mint /\ n.gen = g /\ n.spec = s /\ n.uid = u
              /\ n.fin = m.fin /\ n.del = m.del /\ n.status = m.status
BY DEF Mint

\* transitionReconciliationPhase leaves the initial phases, keeps
\* observedGeneration, and can only turn Ready to False.
LEMMA TransitionFacts ==
    ASSUME NEW o \in Mint
    PROVE  LET t == TransitionPhase(o) IN
           /\ t \in Status
           /\ t.obs = o.status.obs
           /\ o.status.phase # "" => t.phase \notin {"", "Pending"}
           /\ \A d \in CondTypes : d # "Ready" => t.cond[d] = o.status.cond[d]
           /\ \/ t.cond["Ready"] = o.status.cond["Ready"]
              \/ t.cond["Ready"] = [st |-> "False", og |-> o.gen]
<1> o.status \in Status /\ o.gen \in Nat
  BY DEF Mint
<1> "Ready" \in CondTypes /\ "Provisioning" \in Phases /\ "Updating" \in Phases
  BY DEF CondTypes, Phases
<1> DEFINE s0 == [o.status EXCEPT !.phase = "Provisioning"]
           s1 == IF o.status.phase = "Pending"
                 THEN SetStatusCondition(s0, "Ready", "False", o.gen) ELSE o.status
           s2 == [s1 EXCEPT !.phase = "Updating"]
           s3 == SetStatusCondition(s2, "Ready", "False", o.gen)
<1>0. s0 \in Status /\ s0.phase = "Provisioning" /\ s0.obs = o.status.obs /\ s0.cond = o.status.cond
  BY SetPhaseFacts
<1>1. /\ s1 \in Status /\ s1.obs = o.status.obs
      /\ o.status.phase # "" => s1.phase \notin {"", "Pending"}
      /\ \A d \in CondTypes : d # "Ready" => s1.cond[d] = o.status.cond[d]
      /\ \/ s1.cond["Ready"] = o.status.cond["Ready"]
         \/ s1.cond["Ready"] = [st |-> "False", og |-> o.gen]
  <2> DEFINE t == SetStatusCondition(s0, "Ready", "False", o.gen)
  <2>1. /\ t \in Status /\ t.obs = s0.obs /\ t.phase = s0.phase
        /\ t.cond["Ready"] = [st |-> "False", og |-> o.gen]
        /\ \A d \in CondTypes : d # "Ready" => t.cond[d] = s0.cond[d]
    <3> HIDE DEF s0
    <3> QED BY <1>0, SetConditionFacts
  <2>2. s1 = IF o.status.phase = "Pending" THEN t ELSE o.status
    OBVIOUS
  <2> HIDE DEF s0, s1, t
  <2> QED BY <1>0, <2>1, <2>2
<1>2. s2 \in Status /\ s2.phase = "Updating" /\ s2.obs = s1.obs /\ s2.cond = s1.cond
  <2> HIDE DEF s1
  <2> QED BY <1>1, SetPhaseFacts
<1>3. /\ s3 \in Status /\ s3.obs = o.status.obs /\ s3.phase = "Updating"
      /\ \A d \in CondTypes : d # "Ready" => s3.cond[d] = o.status.cond[d]
      /\ s3.cond["Ready"] = [st |-> "False", og |-> o.gen]
  <2>1. /\ s3 \in Status /\ s3.obs = s2.obs /\ s3.phase = s2.phase
        /\ s3.cond["Ready"] = [st |-> "False", og |-> o.gen]
        /\ \A d \in CondTypes : d # "Ready" => s3.cond[d] = s2.cond[d]
    <3> HIDE DEF s2
    <3> QED BY <1>2, SetConditionFacts
  <2> HIDE DEF s1, s2, s3
  <2> QED BY <1>1, <1>2, <2>1
<1>4. TransitionPhase(o) = IF o.status.obs # 0 /\ o.status.obs # o.gen THEN s3 ELSE s1
  BY DEF TransitionPhase
<1> HIDE DEF s0, s1, s2, s3
<1> QED
  BY <1>1, <1>3, <1>4

\* What Reconcile's first look at its copy leads to.
LEMMA FirstStepFacts ==
    ASSUME NEW o \in Mint
    PROVE  LET w == FirstStep(o) IN
           /\ w \in Worker
           /\ w = Idle \/ (o.uid # 0 /\ w.obj = o)
           /\ w.pc \in {"idle", "addFinalizer", "initStatus", "resources",
                        "cleanup", "removeFinalizer"}
           /\ w.pc \in {"cleanup", "removeFinalizer"} => o.del
           /\ w.pc = "initStatus" => o.status.phase = ""
           /\ w.pc = "resources" =>
                 /\ o.fin /\ ~o.del /\ o.status.phase # ""
                 /\ w.todo = Steps(o) /\ w.st = TransitionPhase(o)
<1> Idle \in Worker
  BY DEF Idle, Worker, PCs, NoMint, NewStatus, Mint, Status, Condition, CondTypes, Phases, Kinds
<1> TransitionPhase(o) \in Status /\ Steps(o) \in SUBSET Kinds
  BY TransitionFacts DEF Steps
<1> DEFINE p == IF "pgAuto" \in o.spec THEN "cleanup" ELSE "removeFinalizer"
           a == [Idle EXCEPT !.pc = p, !.obj = o]
           b == [Idle EXCEPT !.pc = "addFinalizer", !.obj = o]
           c == [Idle EXCEPT !.pc = "initStatus", !.obj = o]
           d == [pc |-> "resources", obj |-> o, st |-> TransitionPhase(o), todo |-> Steps(o)]
<1>1. /\ a \in Worker /\ a.obj = o /\ a.pc \in {"cleanup", "removeFinalizer"}
      /\ b \in Worker /\ b.obj = o /\ b.pc = "addFinalizer"
      /\ c \in Worker /\ c.obj = o /\ c.pc = "initStatus"
  BY DEF Worker, PCs
<1>2. /\ d \in Worker /\ d.obj = o /\ d.pc = "resources"
      /\ d.todo = Steps(o) /\ d.st = TransitionPhase(o)
  BY DEF Worker, PCs
<1>3. Idle.pc = "idle"
  BY DEF Idle
<1>4. CASE o.uid = 0 \/ (o.del /\ ~o.fin)
  BY <1>3, <1>4 DEF FirstStep
<1>5. CASE o.uid # 0 /\ o.del /\ o.fin
  <2>1. FirstStep(o) = a
    BY <1>5 DEF FirstStep, Mint
  <2> HIDE DEF a
  <2> QED BY <1>1, <1>5, <2>1
<1>6. CASE o.uid # 0 /\ ~o.del /\ ~o.fin
  <2>1. FirstStep(o) = b
    BY <1>6 DEF FirstStep, Mint
  <2> HIDE DEF b
  <2> QED BY <1>1, <1>6, <2>1
<1>7. CASE o.uid # 0 /\ ~o.del /\ o.fin /\ o.status.phase = ""
  <2>1. FirstStep(o) = c
    BY <1>7 DEF FirstStep, Mint
  <2> HIDE DEF c
  <2> QED BY <1>1, <1>7, <2>1
<1>8. CASE o.uid # 0 /\ ~o.del /\ o.fin /\ o.status.phase # ""
  <2>1. FirstStep(o) = d
    BY <1>8 DEF FirstStep, Mint
  <2> HIDE DEF d
  <2> QED BY <1>2, <1>8, <2>1
<1> QED
  BY <1>4, <1>5, <1>6, <1>7, <1>8 DEF Mint

\* A step writes its own object only, from the copy it was given, or leaves
\* the stored uid and generation alone; an applied object it wants it writes.
LEMMA WriteFacts ==
    ASSUME TypeOK, NEW o \in Mint, NEW k \in Kinds, Write(k, o)
    PROVE  /\ child' \in [Kinds -> Child] /\ dep' \in Rollout /\ conf' \in SUBSET Features
           /\ \A j \in Kinds : j # k => child'[j] = child[j]
           /\ \/ child'[k].uid = child[k].uid /\ child'[k].gen = child[k].gen
              \/ child'[k].uid = o.uid /\ child'[k].gen = o.gen
           /\ k \in Applied /\ Wanted(k, o) =>
                 child'[k].uid = o.uid /\ child'[k].gen = o.gen
<1> DEFINE new == [uid |-> o.uid, gen |-> o.gen, live |-> TRUE, fixed |-> Immutable(k, o.spec)]
<1>1. new \in Child
  <2>1. Immutable(k, o.spec) \in SUBSET Features
    BY DEF Immutable, Mint
  <2> QED BY <2>1 DEF Child, Mint
<1>2. child \in [Kinds -> Child] /\ dep \in Rollout
  BY DEF TypeOK
<1>3. PICK w \in {child, [child EXCEPT ![k] = new], [child EXCEPT ![k].live = FALSE]} :
         /\ child' = w
         /\ k \in Applied /\ Wanted(k, o) => w = [child EXCEPT ![k] = new]
  BY DEF Write, Written, Applied
<1>4. dep' \in Rollout /\ conf' \in SUBSET Features
  <2>1. [pod |-> PodSpec(o.spec), hash |-> confView] \in Template
    BY DEF PodSpec, Mint, Template, TypeOK
  <2>2. child["deployment"].live \in BOOLEAN
    BY <1>2, KindNames DEF Child
  <2>3. Redeployed(o) \in Rollout
    BY <1>2, <2>1, <2>2 DEF Redeployed, Rollout
  <2>4. conf \in SUBSET Features /\ ConfigToml(o.spec) \in SUBSET Features
    BY DEF ConfigToml, Mint, TypeOK
  <2> QED BY <1>2, <2>3, <2>4 DEF Write
<1>5. CASE w = child
  BY <1>1, <1>2, <1>3, <1>4, <1>5 DEF Child
<1>6. CASE w = [child EXCEPT ![k] = new]
  BY <1>1, <1>2, <1>3, <1>4, <1>6
<1>7. CASE w = [child EXCEPT ![k].live = FALSE] /\ ~(k \in Applied /\ Wanted(k, o))
  <2>1. /\ w \in [Kinds -> Child] /\ w[k].uid = child[k].uid /\ w[k].gen = child[k].gen
        /\ \A j \in Kinds : j # k => w[j] = child[j]
    BY <1>2, <1>7 DEF Child
  <2> QED BY <1>3, <1>4, <1>7, <2>1
<1> QED
  BY <1>3, <1>5, <1>6, <1>7

\* The status a step leaves: at most one condition of the object's
\* generation, never Ready.
LEMMA StepStatusFacts ==
    ASSUME NEW s \in Status, NEW o \in Mint, NEW k \in Kinds, NEW up \in BOOLEAN
    PROVE  LET t == StepStatus(k, o, s, up) IN
           /\ t \in Status /\ t.obs = s.obs /\ t.phase = s.phase
           /\ t.cond["Ready"] = s.cond["Ready"]
           /\ t.cond["ConfigValid"] = s.cond["ConfigValid"]
                 \/ (k = "configMap" /\ t.cond["ConfigValid"].og = o.gen)
           /\ t.cond["DatabaseReady"] = s.cond["DatabaseReady"]
                 \/ (k = "pgStatefulSet" /\ t.cond["DatabaseReady"].og = o.gen)
           /\ \/ t.cond["BackupReady"] = s.cond["BackupReady"]
              \/ /\ k \in {"cronJob", "restoreJob"}
                 /\ t.cond["BackupReady"].og = o.gen
                 /\ t.cond["BackupReady"].st = "True" => Wanted(k, o)
<1> o.gen \in Nat
  BY DEF Mint
<1> QED
  BY DEF StepStatus, SetStatusCondition, Status, Condition, CondTypes

\* Under the lock, the Update that stores the finalizer changes nothing else:
\* the copy it sends is the stored object.
LEMMA FinalizerWrite ==
    ASSUME mint \in Mint, AddFinalizer
    PROVE  mint' = mint \/ (mint.uid # 0 /\ mint' = [mint EXCEPT !.fin = TRUE])
<1>1. CASE LockHolds(op.obj)
  <2> DEFINE n == [mint EXCEPT !.fin = TRUE]
  <2>1. mint.uid # 0 /\ mint' = Updated(n)
    BY <1>1 DEF AddFinalizer, LockHolds
  <2>2. n \in Mint /\ n.del = mint.del /\ n.status = mint.status /\ n.gen = mint.gen
        /\ n.spec = mint.spec
    BY DEF Mint
  <2> HIDE DEF n
  <2>3. Updated(n) = [n EXCEPT !.del = mint.del, !.status = mint.status, !.gen = mint.gen]
    BY <2>2 DEF Updated
  <2>4. Updated(n) = n
    BY <2>2, <2>3 DEF Mint
  <2> QED BY <2>1, <2>4 DEF n
<1>2. CASE ~LockHolds(op.obj)
  BY <1>2 DEF AddFinalizer
<1> QED BY <1>1, <1>2

---------------------------------------------------------------------------
(* Type correctness *)

\* The idle worker and the absent mint are well typed.
LEMMA IdleTypes == Idle \in Worker /\ NoMint \in Mint /\ NewStatus \in Status
BY DEF Idle, Worker, PCs, NoMint, NewStatus, Mint, Status, Condition, CondTypes, Phases, Kinds

\* The initial state is well typed.
LEMMA TypeInit == Init => TypeOK
<1> SUFFICES ASSUME Init PROVE TypeOK
  OBVIOUS
<1>1. child \in [Kinds -> Child]
  BY DEF Init, Child
<1> QED
  BY <1>1, IdleTypes DEF Init, TypeOK, Rollout, Template

\* Every action preserves the types of the state.
LEMMA TypeStep == TypeOK /\ [Next]_vars => TypeOK'
<1> SUFFICES ASSUME TypeOK, [Next]_vars PROVE TypeOK'
  OBVIOUS
<1> USE DEF Return, Goto, Fault, cluster, caches, counters
<1>0. /\ mint \in Mint /\ view \in Mint /\ op \in Worker /\ op.obj \in Mint
      /\ op.st \in Status /\ op.todo \in SUBSET Kinds
      /\ child \in [Kinds -> Child] /\ dep \in Rollout /\ seen \in SUBSET ReadBack
      /\ queued \in BOOLEAN /\ lastUid \in Nat /\ faults \in Nat
      /\ depView \in {"absent", "down", "up"}
      /\ conf \in SUBSET Features /\ confView \in SUBSET Features
      /\ Idle \in Worker /\ NoMint \in Mint /\ NewStatus \in Status
  BY IdleTypes DEF TypeOK, Worker
<1>1. CASE Reconcile
  BY <1>0, <1>1, FirstStepFacts DEF Reconcile, TypeOK
<1>2. CASE AddFinalizer
  <2>1. mint' \in Mint
    BY <1>0, <1>2, FinalizerWrite DEF Mint
  <2> QED BY <1>0, <1>2, <2>1 DEF AddFinalizer, TypeOK
<1>3. CASE InitStatus
  <2>1. mint' \in Mint
    BY <1>0, <1>3 DEF InitStatus, Mint, Status, Phases
  <2> QED BY <1>0, <1>3, <2>1 DEF InitStatus, TypeOK
<1>4. ASSUME NEW k \in Kinds, NEW up \in BOOLEAN, StepDone(k, up) PROVE TypeOK'
  <2>1. child' \in [Kinds -> Child] /\ dep' \in Rollout /\ conf' \in SUBSET Features
    BY <1>0, <1>4, WriteFacts DEF StepDone
  <2>2. StepStatus(k, op.obj, op.st, up) \in Status
    BY <1>0, StepStatusFacts
  <2>3. op' \in Worker
    BY <1>0, <1>4, <2>2 DEF StepDone, Worker, PCs
  <2> QED BY <1>0, <1>4, <2>1, <2>3 DEF StepDone, TypeOK
<1>5. ASSUME NEW k \in Kinds, StepNotReady(k) PROVE TypeOK'
  BY <1>0, <1>5 DEF StepNotReady, TypeOK
<1>26. ASSUME NEW k \in Kinds, StepRejected(k) PROVE TypeOK'
  <2>1. op' \in Worker
    BY <1>0, <1>26 DEF StepRejected, Worker, PCs
  <2> QED BY <1>0, <1>26, <2>1 DEF StepRejected, TypeOK
<1>6. CASE HandleError
  <2> DEFINE s == [op.st EXCEPT !.phase = "Failed"]
             t == SetStatusCondition(s, "Ready", "False", op.obj.gen)
  <2>1. s \in Status
    BY <1>0, SetPhaseFacts DEF Phases
  <2>2. t \in Status
    <3> HIDE DEF s
    <3> QED BY <1>0, <2>1, SetConditionFacts DEF CondTypes, Mint
  <2>3. mint' \in Mint
    <3>1. mint' = IF LockHolds(op.obj) THEN [mint EXCEPT !.status = t] ELSE mint
      BY <1>6 DEF HandleError
    <3> HIDE DEF t
    <3> QED BY <1>0, <2>2, <3>1 DEF Mint
  <2> QED BY <1>0, <1>6, <2>3 DEF HandleError, TypeOK
<1>7. CASE UpdateReadiness
  <2> DEFINE s == [op.st EXCEPT !.phase = "Ready"]
             t == SetStatusCondition(s, "Ready", "True", op.obj.gen)
             u == SetStatusCondition(op.st, "Ready", "False", op.obj.gen)
  <2>1. s \in Status
    BY <1>0, SetPhaseFacts DEF Phases
  <2>2. t \in Status /\ u \in Status
    <3> HIDE DEF s
    <3> QED BY <1>0, <2>1, SetConditionFacts DEF CondTypes, Mint
  <2>3. op' \in Worker
    <3>1. PICK v \in {op.st, t, u} : op' = [op EXCEPT !.pc = "updateStatus", !.st = v]
      BY <1>0, <1>7 DEF UpdateReadiness
    <3> HIDE DEF t, u
    <3> QED BY <1>0, <2>2, <3>1 DEF Worker, PCs
  <2> QED BY <1>0, <1>7, <2>3 DEF UpdateReadiness, TypeOK
<1>8. ASSUME NEW lb \in BOOLEAN, UpdateStatus(lb) PROVE TypeOK'
  <2> DEFINE v == IF lb THEN "True" ELSE "False"
             u == SetStatusCondition(op.st, "IngressReady", v, view.gen)
  <2>1. u \in Status
    BY <1>0, SetConditionFacts DEF CondTypes, Mint
  <2>2. mint' \in Mint
    <3>1. PICK w \in {op.st, u} :
              mint' = IF LockHolds(view)
                      THEN [mint EXCEPT !.status = [w EXCEPT !.obs = view.gen]] ELSE mint
      BY <1>8 DEF UpdateStatus
    <3>2. w \in Status
      BY <1>0, <2>1
    <3>3. [w EXCEPT !.obs = view.gen] \in Status
      BY <1>0, <3>2 DEF Status, Mint
    <3> QED BY <1>0, <3>1, <3>3 DEF Mint
  <2> QED BY <1>0, <1>8, <2>2 DEF UpdateStatus, TypeOK
<1>9. CASE CleanupSecret
  <2>1. child' \in [Kinds -> Child]
    BY <1>0, <1>9, KindNames DEF CleanupSecret, Child
  <2>2. op' \in Worker
    BY <1>0, <1>9 DEF CleanupSecret, Worker, PCs
  <2> QED BY <1>0, <1>9, <2>1, <2>2 DEF CleanupSecret, TypeOK
<1>10. CASE RemoveFinalizer
  BY <1>0, <1>10 DEF RemoveFinalizer, TypeOK
<1>11. ASSUME NEW k \in Kinds, NEW landed \in BOOLEAN, NEW class \in {"retried", "other"},
              StepFails(k, landed, class)
       PROVE  TypeOK'
  <2>1. child' \in [Kinds -> Child] /\ dep' \in Rollout /\ conf' \in SUBSET Features
    <3>1. Write(k, op.obj) \/ UNCHANGED <<child, conf, dep>>
      BY <1>11 DEF StepFails
    <3> QED BY <1>0, <3>1, WriteFacts
  <2>2. op' \in Worker /\ queued' \in BOOLEAN
    BY <1>0, <1>11 DEF StepFails, Worker, PCs
  <2> QED BY <1>0, <1>11, <2>1, <2>2 DEF StepFails, TypeOK
<1>12. CASE CallFails
  BY <1>0, <1>12 DEF CallFails, TypeOK
<1>13. CASE Restart
  BY <1>0, <1>13 DEF Restart, TypeOK
<1>14. CASE PodFails
  <2>1. dep' \in Rollout
    BY <1>0, <1>14 DEF PodFails, Rollout
  <2> QED BY <1>0, <1>14, <2>1 DEF PodFails, TypeOK
<1>15. ASSUME NEW k \in Kinds, ChildLost(k) PROVE TypeOK'
  <2>1. child' \in [Kinds -> Child]
    BY <1>0, <1>15 DEF ChildLost, Child
  <2> QED BY <1>0, <1>15, <2>1 DEF ChildLost, TypeOK
<1>16. CASE SyncMint
  BY <1>0, <1>16 DEF SyncMint, TypeOK
<1>17. CASE SyncDeployment
  BY <1>0, <1>17 DEF SyncDeployment, TypeOK, DeploymentState
<1>18. ASSUME NEW k \in ReadBack, SyncChild(k) PROVE TypeOK'
  BY <1>0, <1>18 DEF SyncChild, TypeOK
<1>19. CASE DeploymentObserves
  BY <1>0, <1>19 DEF DeploymentObserves, TypeOK, Rollout
<1>20. CASE DeploymentAvailable
  BY <1>0, <1>20 DEF DeploymentAvailable, TypeOK, Rollout
<1>21. ASSUME NEW K \in Batches, GarbageCollect(K) PROVE TypeOK'
  <2>1. child' \in [Kinds -> Child]
    BY <1>0, <1>21 DEF GarbageCollect, Child
  <2> QED BY <1>0, <1>21, <2>1 DEF GarbageCollect, TypeOK
<1>22. ASSUME NEW s \in Specs, UserCreates(s) \/ UserEdits(s) PROVE TypeOK'
  <2>0. s \in SUBSET Features
    BY SpecsAssumption
  <2>1. mint' \in Mint
    <3>0. mint.gen + 1 \in Nat /\ lastUid + 1 \in Nat
      BY <1>0 DEF Mint
    <3>1. CASE UserCreates(s)
      BY <1>0, <2>0, <3>0, <3>1, UserWriteFacts DEF UserCreates
    <3>2. CASE UserEdits(s)
      BY <1>0, <2>0, <3>0, <3>2, UserWriteFacts DEF UserEdits
    <3> QED BY <1>22, <3>1, <3>2
  <2> QED BY <1>0, <1>22, <2>1 DEF UserCreates, UserEdits, TypeOK
<1>23. CASE UserRequestsRestore
  BY <1>0, <1>23 DEF UserRequestsRestore, TypeOK, Mint
<1>24. CASE UserDeletes
  <2>0. mint.gen + 1 \in Nat
    BY <1>0 DEF Mint
  <2>1. mint' \in Mint
    BY <1>0, <1>24, <2>0, UserWriteFacts DEF UserDeletes
  <2> QED BY <1>0, <1>24, <2>1 DEF UserDeletes, TypeOK
<1>25. CASE UNCHANGED vars
  BY <1>25 DEF vars, TypeOK
<1> QED
  BY <1>1, <1>2, <1>3, <1>4, <1>5, <1>6, <1>7, <1>8, <1>9, <1>10, <1>11, <1>12,
     <1>13, <1>14, <1>15, <1>16, <1>17, <1>18, <1>19, <1>20, <1>21, <1>22, <1>23,
     <1>24, <1>25, <1>26
     DEF Next, Operator, Failures, Informers, Cluster, User

\* Every reachable state of the reconciler and its cluster is well typed.
THEOREM TypeCorrect == Spec => []TypeOK
BY TypeInit, TypeStep, PTL DEF Spec

---------------------------------------------------------------------------
(* The inductive invariant *)

\* The generator of every kind but the restore Job looks at the spec alone.
LEMMA WantedSpec ==
    ASSUME NEW m, NEW n, m.spec = n.spec, NEW k, k # "restoreJob"
    PROVE  Wanted(k, m) <=> Wanted(k, n)
BY DEF Wanted

\* No object changed hands or generation.
SameStamps == \A k \in Kinds : child'[k].uid = child[k].uid /\ child'[k].gen = child[k].gen

\* An idle worker holds no copy of a mint.
LEMMA IdleFacts == Idle.pc = "idle" /\ Idle.obj.uid = 0
BY DEF Idle, NoMint

\* Every object a condition speaks of is a kind, every such condition a type.
LEMMA ConditionObjectFacts ==
    \A c \in DOMAIN ConditionObject :
        ConditionObject[c] \in Kinds /\ c \in CondTypes /\ c # "Ready" /\ c # "IngressReady"
BY DEF ConditionObject, Kinds, Position, CondTypes

\* A backed status stays backed while the mint keeps its generation and no
\* object is written.
LEMMA BackedKept ==
    ASSUME mint'.uid = mint.uid, mint'.gen = mint.gen, mint'.spec = mint.spec, SameStamps
    PROVE  \A s \in Status : Backed(s) => Backed(s)'
<1>1. \A k \in Applied : k # "restoreJob" => (Wanted(k, mint') <=> Wanted(k, mint))
  BY WantedSpec
<1>2. \A c \in DOMAIN ConditionObject, s \in Status : ObjectBacks(s, c) => ObjectBacks(s, c)'
  BY ConditionObjectFacts DEF ObjectBacks, SameStamps
<1> QED
  BY <1>1, <1>2, KindNames DEF Backed, SameStamps

\* A newer generation takes the ground from under a Ready=True.
LEMMA BackedEdited ==
    ASSUME TypeOK, mint'.uid = mint.uid, mint'.gen = mint.gen + 1, SameStamps
    PROVE  \A s \in Status : Backed(s) => Backed(s)'
<1>1. mint.gen \in Nat
  BY DEF TypeOK, Mint
<1>2. \A c \in DOMAIN ConditionObject, s \in Status : ObjectBacks(s, c) => ObjectBacks(s, c)'
  BY ConditionObjectFacts DEF ObjectBacks, SameStamps
<1>3. \A s \in Status : s.obs \in Nat /\ s.cond["Ready"].og \in Nat
  BY DEF Status, Condition, CondTypes
<1>4. ASSUME NEW s \in Status, Backed(s) PROVE Backed(s)'
  <2>1. s.obs <= mint.gen /\ s.cond["Ready"].og <= mint.gen
    BY <1>4 DEF Backed
  <2>2. s.obs <= mint'.gen /\ s.cond["Ready"].og <= mint'.gen /\ s.cond["Ready"].og # mint'.gen
    BY <1>1, <1>3, <2>1
  <2>3. s.cond["Ready"] # [st |-> "True", og |-> mint'.gen]
    BY <2>2
  <2>4. \A c \in DOMAIN ConditionObject : ObjectBacks(s, c)'
    BY <1>2, <1>4 DEF Backed
  <2> QED BY <2>2, <2>3, <2>4 DEF Backed
<1> QED BY <1>4

\* While it works on a copy, the worker's objects are those of the stored
\* mint, and its generation lies between theirs and the mint's.
LEMMA WorkingFacts ==
    ASSUME IInv, Working
    PROVE  /\ op.obj \in Mint /\ op.st \in Status /\ op.obj.uid = mint.uid /\ mint.uid # 0
           /\ view.uid = mint.uid /\ op.obj.gen \in Nat /\ mint.gen \in Nat /\ view.gen \in Nat
           /\ op.obj.gen <= view.gen /\ view.gen <= mint.gen /\ op.obj.gen <= mint.gen
           /\ op.obj.gen = mint.gen => op.obj.spec = mint.spec
           /\ mint.fin
           /\ \A k \in Kinds : /\ child[k].uid \in Nat /\ child[k].gen \in Nat
                               /\ child[k].uid = mint.uid => child[k].gen <= op.obj.gen
<1>1. op.obj \in Mint /\ op.st \in Status /\ mint \in Mint /\ view \in Mint
  BY DEF IInv, TypeOK, Worker
<1>2. op.obj.gen \in Nat /\ mint.gen \in Nat /\ view.gen \in Nat
  BY <1>1 DEF Mint
<1>3. op.obj.uid = mint.uid /\ op.obj.uid = view.uid /\ mint.uid # 0 /\ op.obj.fin
  BY DEF IInv, WorkerCopy
<1>4. Older(op.obj, view) /\ Older(view, mint)
  BY <1>3 DEF IInv, CopyOrder
<1>5. \A k \in Kinds : /\ child[k].uid \in Nat /\ child[k].gen \in Nat
                       /\ child[k].uid = mint.uid => child[k].gen <= op.obj.gen
  BY <1>3 DEF IInv, TypeOK, Child, ChildOrder
<1>6. /\ op.obj.gen <= view.gen /\ view.gen <= mint.gen /\ mint.fin
      /\ op.obj.gen = view.gen => op.obj.spec = view.spec
      /\ view.gen = mint.gen => view.spec = mint.spec
  BY <1>3, <1>4 DEF Older
<1> QED
  BY <1>1, <1>2, <1>3, <1>5, <1>6

\* A backed status stays backed when the worker writes an object.
LEMMA BackedWritten ==
    ASSUME IInv, Working, NEW k \in Kinds, Write(k, op.obj), UNCHANGED mint
    PROVE  \A s \in Status : Backed(s) => Backed(s)'
<1> DEFINE o == op.obj
<1>1. /\ \A j \in Kinds : j # k => child'[j] = child[j]
      /\ \/ child'[k].uid = child[k].uid /\ child'[k].gen = child[k].gen
         \/ child'[k].uid = o.uid /\ child'[k].gen = o.gen
  BY WriteFacts, WorkingFacts DEF IInv
<1>2. \A j \in Kinds : child[j].uid = mint.uid =>
          child'[j].uid = mint.uid /\ child'[j].gen >= child[j].gen
                                  /\ (child[j].gen = mint.gen => child'[j].gen = mint.gen)
  BY <1>1, WorkingFacts
<1>3. ASSUME NEW s \in Status, Backed(s) PROVE Backed(s)'
  <2>1. ASSUME NEW c \in DOMAIN ConditionObject PROVE ObjectBacks(s, c)'
    <3>1. ConditionObject[c] \in Kinds /\ ObjectBacks(s, c) /\ s.cond[c].og \in Nat
      BY <1>3, ConditionObjectFacts DEF Backed, Status, Condition
    <3>2. child'[ConditionObject[c]].gen \in Nat /\ child[ConditionObject[c]].gen \in Nat
      BY <1>1, <3>1, WorkingFacts
    <3> QED BY <1>2, <3>1, <3>2 DEF ObjectBacks
  <2> QED BY <1>2, <1>3, <2>1, KindNames DEF Backed
<1> QED BY <1>3

\* The parts of the invariant that speak of the worker hold when it is idle.
LEMMA IdleWorker ==
    ASSUME op' = Idle
    PROVE  ~Working' /\ WorkerCopy' /\ Progress' /\ op'.obj.uid = 0
BY IdleFacts DEF Working, WorkerCopy, Progress

\* Steps of the cluster that touch neither the mint nor the worker.
LEMMA NoiseStep ==
    ASSUME IInv, TypeOK', UNCHANGED <<mint, view, op, lastUid>>, SameStamps
    PROVE  IInv'
<1>1. UidOrder' /\ CopyOrder' /\ WorkerCopy' /\ ChildOrder'
  BY DEF IInv, UidOrder, CopyOrder, WorkerCopy, ChildOrder, Working, Older, SameStamps
<1>2. Progress'
  BY KindNames DEF IInv, Progress, SameStamps
<1>3. StatusBacked'
  <2>1. mint.status \in Status /\ view.status \in Status /\ op.st \in Status /\ op.obj.status \in Status
    BY DEF IInv, TypeOK, Worker, Mint
  <2> QED BY <2>1, BackedKept DEF IInv, StatusBacked, Working
<1>4. DeploymentAfterInputs'
  BY KindNames DEF IInv, DeploymentAfterInputs, SameStamps
<1> QED BY <1>1, <1>2, <1>3, <1>4 DEF IInv

\* The worker gives up its copy; a restart also refreshes the cache.
LEMMA IdleStep ==
    ASSUME IInv, TypeOK', UNCHANGED <<mint, lastUid>>, view' \in {view, mint}, op' = Idle,
           SameStamps
    PROVE  IInv'
<1>0. /\ mint.gen \in Nat /\ mint.uid \in Nat /\ view.gen \in Nat /\ lastUid \in Nat
      /\ mint.status \in Status /\ view.status \in Status
      /\ \A k \in Kinds : child[k].gen \in Nat
  BY DEF IInv, TypeOK, Mint, Child
<1>1. UidOrder'
  BY <1>0, IdleWorker DEF IInv, UidOrder, SameStamps
<1>2. CopyOrder'
  BY <1>0, IdleWorker DEF IInv, CopyOrder, Older
<1>3. ChildOrder'
  BY <1>0, IdleWorker DEF IInv, ChildOrder, CopyOrder, Older, SameStamps
<1>4. StatusBacked'
  BY <1>0, IdleWorker, BackedKept DEF IInv, StatusBacked
<1>5. DeploymentAfterInputs'
  BY KindNames DEF IInv, DeploymentAfterInputs, SameStamps
<1> QED BY <1>1, <1>2, <1>3, <1>4, <1>5, IdleWorker DEF IInv

\* The worker ends with a write to the mint that the optimistic lock let pass.
LEMMA MintWriteStep ==
    ASSUME IInv, TypeOK', UNCHANGED <<view, child, lastUid>>, op' = Idle,
           mint.uid # 0, mint'.uid = mint.uid, mint'.gen = mint.gen,
           mint'.spec = mint.spec, mint'.del = mint.del, mint.fin => mint'.fin,
           Backed(mint'.status)
    PROVE  IInv'
<1>0. /\ mint'.status \in Status /\ view.status \in Status
      /\ SameStamps
  BY DEF IInv, TypeOK, Mint, SameStamps
<1>1. UidOrder'
  <2>1. lastUid \in Nat
    BY DEF IInv, TypeOK
  <2> QED BY <2>1, IdleWorker DEF IInv, UidOrder
<1>2. CopyOrder'
  BY IdleWorker DEF IInv, CopyOrder, Older
<1>3. ChildOrder'
  BY IdleWorker DEF IInv, ChildOrder
<1>4. StatusBacked'
  BY <1>0, IdleWorker, BackedKept DEF IInv, StatusBacked
<1>5. DeploymentAfterInputs'
  BY WantedSpec DEF IInv, DeploymentAfterInputs
<1> QED BY <1>1, <1>2, <1>3, <1>4, <1>5, IdleWorker DEF IInv

\* The user changes the spec, or asks for a deletion the finalizer delays.
LEMMA NewGenerationStep ==
    ASSUME IInv, TypeOK', UNCHANGED <<view, child, op, lastUid>>,
           mint.uid # 0, mint'.uid = mint.uid, mint'.gen = mint.gen + 1,
           mint.del => mint'.del, mint'.fin = mint.fin, mint'.status = mint.status
    PROVE  IInv'
<1>0. /\ mint.gen \in Nat /\ view.gen \in Nat /\ SameStamps
      /\ mint.status \in Status /\ view.status \in Status /\ op.st \in Status /\ op.obj.status \in Status
      /\ \A k \in Kinds : child[k].gen \in Nat
  BY DEF IInv, TypeOK, Worker, Mint, Child, SameStamps
<1>1. UidOrder' /\ WorkerCopy' /\ Progress'
  BY DEF IInv, UidOrder, WorkerCopy, Progress, Working
<1>2. CopyOrder'
  BY <1>0 DEF IInv, CopyOrder, Older
<1>3. ChildOrder'
  BY DEF IInv, ChildOrder, Working
<1>4. StatusBacked'
  BY <1>0, BackedEdited DEF IInv, StatusBacked, Working
<1>5. DeploymentAfterInputs'
  <2>1. child["deployment"].uid = mint.uid => child["deployment"].gen <= mint.gen
    BY <1>0, KindNames DEF IInv, ChildOrder, CopyOrder, Older
  <2>2. ~(child["deployment"].uid = mint.uid /\ child["deployment"].gen = mint'.gen)
    BY <1>0, <2>1, KindNames
  <2> QED BY <2>2 DEF DeploymentAfterInputs
<1> QED BY <1>1, <1>2, <1>3, <1>4, <1>5 DEF IInv

\* The mint disappears, with no live copy of it left in the cache.
LEMMA GoneStep ==
    ASSUME IInv, TypeOK', UNCHANGED <<view, child, lastUid>>, op' \in {op, Idle}, mint' = NoMint,
           ~Working', view.uid # 0 /\ view.fin => view.del
    PROVE  IInv'
<1>0. NoMint.uid = 0
  BY DEF NoMint
<1>1. UidOrder'
  BY <1>0, IdleFacts DEF IInv, UidOrder, TypeOK
<1>2. CopyOrder'
  BY <1>0, IdleFacts DEF IInv, CopyOrder, Older
<1>3. WorkerCopy'
  BY IdleFacts DEF IInv, WorkerCopy
<1>4. Progress'
  BY DEF Progress, Working
<1>5. ChildOrder' /\ StatusBacked' /\ DeploymentAfterInputs'
  BY <1>0 DEF ChildOrder, StatusBacked, DeploymentAfterInputs
<1> QED BY <1>1, <1>2, <1>3, <1>4, <1>5 DEF IInv

\* A new incarnation of the name.
LEMMA CreateStep ==
    ASSUME IInv, TypeOK', UNCHANGED <<view, child, op>>, lastUid' = lastUid + 1,
           mint.uid = 0, mint'.uid = lastUid + 1, mint'.gen = 1, mint'.status = NewStatus
    PROVE  IInv'
<1>0. /\ lastUid \in Nat /\ view.uid \in Nat /\ op.obj.uid \in Nat
      /\ \A k \in Kinds : child[k].uid \in Nat
      /\ ~Working
  BY DEF IInv, TypeOK, Worker, Mint, Child, WorkerCopy
<1>1. /\ view.uid # mint'.uid /\ op.obj.uid # mint'.uid /\ \A k \in Kinds : child[k].uid # mint'.uid
      /\ UidOrder'
  BY <1>0 DEF IInv, UidOrder
<1>2. CopyOrder'
  BY <1>1 DEF IInv, CopyOrder, Older
<1>3. WorkerCopy' /\ Progress' /\ ~Working'
  BY <1>0 DEF IInv, WorkerCopy, Progress, Working
<1>4. ChildOrder' /\ DeploymentAfterInputs'
  BY <1>1, KindNames DEF ChildOrder, DeploymentAfterInputs
<1>5. Backed(mint.status)'
  <2>1. NewStatus.obs = 0 /\ \A c \in CondTypes : NewStatus.cond[c] = [st |-> "Unknown", og |-> 0]
    BY DEF NewStatus
  <2>2. "Ready" \in CondTypes
    BY DEF CondTypes
  <2>3. \A c \in DOMAIN ConditionObject : mint'.status.cond[c].st # "True"
    BY <2>1, ConditionObjectFacts
  <2>4. \A c \in DOMAIN ConditionObject : ObjectBacks(mint.status, c)'
    BY <2>3 DEF ObjectBacks
  <2>5. /\ mint'.status.obs <= mint'.gen /\ mint'.status.cond["Ready"].og <= mint'.gen
        /\ mint'.status.cond["Ready"].st # "True"
    BY <2>1, <2>2
  <2> QED BY <2>4, <2>5 DEF Backed
<1>6. StatusBacked'
  BY <1>1, <1>3, <1>5 DEF StatusBacked
<1> QED BY <1>1, <1>2, <1>3, <1>4, <1>6 DEF IInv

\* The cache catches up with the API server under the worker's feet.
LEMMA SyncStep ==
    ASSUME IInv, TypeOK', UNCHANGED <<mint, child, op, lastUid>>, view' = mint
    PROVE  IInv'
<1>0. /\ mint.gen \in Nat /\ mint.uid \in Nat /\ view.gen \in Nat /\ lastUid \in Nat /\ op.obj.gen \in Nat
      /\ mint.status \in Status /\ op.st \in Status /\ op.obj.status \in Status /\ SameStamps
      /\ \A k \in Kinds : child[k].gen \in Nat
  BY DEF IInv, TypeOK, Worker, Mint, Child, SameStamps
<1>1. UidOrder'
  BY <1>0 DEF IInv, UidOrder
<1>6. WorkerCopy'
  BY DEF IInv, WorkerCopy, Working
<1>7. Progress'
  BY DEF IInv, Progress
<1>2. CopyOrder'
  BY <1>0 DEF IInv, CopyOrder, Older
<1>3. ChildOrder'
  BY <1>0 DEF IInv, ChildOrder, CopyOrder, Older, Working
<1>4. StatusBacked'
  BY <1>0, BackedKept DEF IInv, StatusBacked, Working
<1>5. DeploymentAfterInputs'
  BY DEF IInv, DeploymentAfterInputs
<1> QED BY <1>1, <1>2, <1>3, <1>4, <1>5, <1>6, <1>7 DEF IInv

\* The worker takes the cached copy.
LEMMA ReconcileStep == IInv /\ TypeOK' /\ Reconcile => IInv'
<1> SUFFICES ASSUME IInv, TypeOK', Reconcile PROVE IInv'
  OBVIOUS
<1>0. /\ view \in Mint /\ view.gen \in Nat /\ view.uid \in Nat /\ lastUid \in Nat /\ SameStamps
      /\ view.status \in Status
      /\ UNCHANGED <<mint, view, child, lastUid>> /\ op' = FirstStep(view)
  BY DEF IInv, TypeOK, Mint, SameStamps, Reconcile, cluster, caches, counters
<1>1. CASE FirstStep(view) = Idle
  BY <1>0, <1>1, IdleStep
<1>2. CASE FirstStep(view) # Idle
  <2>1. /\ view.uid # 0 /\ op'.obj = view
        /\ op'.pc \in {"idle", "addFinalizer", "initStatus", "resources", "cleanup", "removeFinalizer"}
        /\ op'.pc \in {"cleanup", "removeFinalizer"} => view.del
        /\ op'.pc = "initStatus" => view.status.phase = ""
        /\ op'.pc = "resources" =>
              /\ view.fin /\ ~view.del /\ view.status.phase # ""
              /\ op'.todo = Steps(view) /\ op'.st = TransitionPhase(view)
    BY <1>0, <1>2, FirstStepFacts
  <2>10. UidOrder'
    BY <1>0, <2>1 DEF IInv, UidOrder
  <2>2. CopyOrder'
    <3>1. Older(view, view)
      BY <1>0 DEF Older
    <3>2. Older(op.obj, view)'
      BY <1>0, <2>1, <3>1 DEF Older
    <3>3. Older(view, mint)' <=> Older(view, mint)
      BY <1>0 DEF Older
    <3> QED BY <1>0, <2>1, <3>2, <3>3 DEF IInv, CopyOrder
  <2>3. Working' => op'.pc = "resources"
    BY <2>1 DEF Working
  <2>4. Working' => view.uid = mint.uid
    BY <2>1, <2>3 DEF IInv, CopyOrder
  <2>5. WorkerCopy'
    BY <1>0, <2>1, <2>3, <2>4, TransitionFacts DEF WorkerCopy
  <2>6. ChildOrder'
    BY <1>0, <2>1, <2>3 DEF IInv, ChildOrder
  <2>7. Progress'
    <3>1. \A k \in Applied : Wanted(k, view) => k \in Steps(view)
      BY KindNames DEF Steps
    <3> QED BY <2>1, <3>1 DEF Progress
  <2>8. StatusBacked'
    <3>1. ASSUME Working' PROVE Backed(op.st)' /\ Backed(op.obj.status)'
      <4> DEFINE t == TransitionPhase(view)
      <4>1. Backed(view.status) /\ view.uid = mint.uid
        BY <2>1, <2>4, <3>1 DEF IInv, StatusBacked
      <4>2. /\ t \in Status /\ t.obs = view.status.obs
            /\ \A d \in CondTypes : d # "Ready" => t.cond[d] = view.status.cond[d]
            /\ \/ t.cond["Ready"] = view.status.cond["Ready"]
               \/ t.cond["Ready"] = [st |-> "False", og |-> view.gen]
        BY <1>0, TransitionFacts
      <4>3. view.gen <= mint.gen
        BY <2>1, <4>1 DEF IInv, CopyOrder, Older
      <4>4. \A c \in DOMAIN ConditionObject : ObjectBacks(t, c)
        <5> HIDE DEF t
        <5> QED BY <4>1, <4>2, ConditionObjectFacts DEF Backed, ObjectBacks
      <4>5. Backed(t)
        <5> HIDE DEF t
        <5> QED BY <4>1, <4>2, <4>3, <4>4 DEF Backed
      <4>6. op'.st = t /\ op'.obj.status = view.status
        BY <2>1, <2>3, <3>1
      <4> HIDE DEF t
      <4> QED BY <1>0, <4>1, <4>2, <4>5, <4>6, BackedKept
    <3>2. mint.status \in Status
      BY DEF IInv, TypeOK, Mint
    <3> QED BY <1>0, <3>1, <3>2, BackedKept DEF IInv, StatusBacked
  <2>9. DeploymentAfterInputs'
    BY <1>0 DEF IInv, DeploymentAfterInputs
  <2> QED BY <2>2, <2>5, <2>6, <2>7, <2>8, <2>9, <2>10 DEF IInv
<1> QED BY <1>1, <1>2

\* What a step's write, complete or not, does to the parts of the invariant
\* that do not depend on what the worker does next.
LEMMA WriteStep ==
    ASSUME IInv, TypeOK', op.pc = "resources", NEW k \in Kinds, IsNext(k), Write(k, op.obj),
           UNCHANGED <<mint, view, lastUid>>, op' = Idle \/ op'.obj = op.obj
    PROVE  UidOrder' /\ CopyOrder' /\ ChildOrder' /\ DeploymentAfterInputs'
<1> DEFINE o == op.obj
<1>0. Working
  BY DEF Working
<1>1. /\ \A j \in Kinds : j # k => child'[j] = child[j]
      /\ \/ child'[k].uid = child[k].uid /\ child'[k].gen = child[k].gen
         \/ child'[k].uid = o.uid /\ child'[k].gen = o.gen
      /\ k \in Applied /\ Wanted(k, o) => child'[k].uid = o.uid /\ child'[k].gen = o.gen
  BY <1>0, WriteFacts, WorkingFacts DEF IInv
<1>2. /\ o.uid = mint.uid /\ mint.uid # 0 /\ view.uid = mint.uid
      /\ o.gen \in Nat /\ mint.gen \in Nat /\ view.gen \in Nat
      /\ o.gen <= view.gen /\ o.gen <= mint.gen /\ mint.fin
      /\ o.gen = mint.gen => o.spec = mint.spec
      /\ \A j \in Kinds : /\ child[j].uid \in Nat /\ child[j].gen \in Nat
                           /\ child[j].uid = mint.uid => child[j].gen <= o.gen
  BY <1>0, WorkingFacts
<1>3. /\ lastUid \in Nat /\ mint.uid = lastUid /\ view.uid <= lastUid /\ o.uid <= lastUid
      /\ \A j \in Kinds : child[j].uid <= lastUid
  BY <1>2 DEF IInv, TypeOK, UidOrder
<1>4. UidOrder'
  <2>1. op'.obj.uid <= lastUid
    BY <1>3, IdleFacts
  <2>2. \A j \in Kinds : child'[j].uid <= lastUid
    BY <1>1, <1>3
  <2> QED BY <1>3, <2>1, <2>2 DEF UidOrder
<1>5. CopyOrder'
  <2>1. CASE op' = Idle
    BY <2>1, IdleFacts DEF IInv, CopyOrder, Older
  <2>2. CASE op'.obj = op.obj
    BY <2>2 DEF IInv, CopyOrder, Older
  <2> QED BY <2>1, <2>2
<1>6. \A j \in Kinds : child'[j].uid = mint.uid => child'[j].gen \in Nat /\ child'[j].gen <= o.gen
  <2> TAKE j \in Kinds
  <2>3. child[j].gen \in Nat /\ (child[j].uid = mint.uid => child[j].gen <= o.gen) /\ o.gen \in Nat
    BY <1>0, WorkingFacts
  <2>4. o.gen <= o.gen
    BY <2>3
  <2>1. CASE j # k
    <3>1. child'[j] = child[j]
      BY <1>1, <2>1
    <3> QED BY <2>3, <3>1
  <2>2. CASE j = k
    <3>1. \/ child'[j].uid = child[j].uid /\ child'[j].gen = child[j].gen
          \/ child'[j].gen = o.gen
      BY <1>1, <2>2
    <3> QED BY <2>3, <2>4, <3>1
  <2> QED BY <2>1, <2>2
<1>7. ChildOrder'
  <2>1. Working' => op'.obj = o
    BY IdleWorker
  <2> HIDE DEF o
  <2>2. \A j \in Kinds : child'[j].uid = mint.uid => child'[j].gen <= view.gen
    BY <1>2, <1>6
  <2> QED BY <1>2, <1>6, <2>1, <2>2 DEF ChildOrder
<1>8. DeploymentAfterInputs'
  <2> SUFFICES ASSUME NEW i \in {"configMap", "pvc", "orchardPVC", "pgStatefulSet"},
                      child'["deployment"].uid = mint.uid, child'["deployment"].gen = mint.gen,
                      Wanted(i, mint)
               PROVE  child'[i].uid = mint.uid /\ child'[i].gen = mint.gen
    BY DEF DeploymentAfterInputs
  <2>1. /\ i \in Kinds /\ i \in Applied /\ i # "restoreJob" /\ i # "deployment" /\ "deployment" \in Kinds
        /\ Position[i] < Position["deployment"] /\ Position[i] \in Nat
        /\ Position["deployment"] \in Nat
    BY DEF Kinds, Position, Applied, CreateOnce
  <2>2. o.gen = mint.gen
    BY <1>2, <1>6, <2>1
  <2>3. Wanted(i, o)
    BY <1>2, <2>1, <2>2, WantedSpec
  <2>4. CASE k = "deployment"
    <3>1. i \notin op.todo
      BY <2>1, <2>4 DEF IsNext
    <3>2. child[i].uid = o.uid /\ child[i].gen = o.gen
      BY <2>1, <2>3, <3>1 DEF IInv, Progress
    <3> QED BY <1>1, <1>2, <2>1, <2>2, <2>4, <3>2
  <2>5. CASE k # "deployment"
    <3>1. child["deployment"].uid = mint.uid /\ child["deployment"].gen = mint.gen
      BY <1>1, <2>1, <2>5
    <3>2. child[i].uid = mint.uid /\ child[i].gen = mint.gen
      BY <1>2, <3>1 DEF IInv, DeploymentAfterInputs
    <3> QED BY <1>1, <1>2, <2>1, <2>2, <3>2
  <2> QED BY <2>4, <2>5
<1> QED BY <1>4, <1>5, <1>7, <1>8

\* A completed step: its object is written, and its condition backed.
LEMMA DoneStep ==
    ASSUME IInv, TypeOK', NEW k \in Kinds, NEW up \in BOOLEAN, StepDone(k, up)
    PROVE  IInv'
<1> DEFINE o == op.obj
           t == StepStatus(k, o, op.st, up)
<1>0. /\ op.pc = "resources" /\ Working /\ IsNext(k) /\ Write(k, o)
      /\ UNCHANGED <<mint, view, lastUid>>
      /\ op \in Worker /\ o \in Mint /\ op.st \in Status /\ o.status \in Status
      /\ mint.status \in Status /\ view.status \in Status
  BY DEF StepDone, Working, IInv, TypeOK, Worker, Mint, caches, counters
<1>1. /\ op'.obj = o /\ op'.todo = op.todo \ {k} /\ op'.st = t
      /\ op'.pc = IF op.todo = {k} THEN "readiness" ELSE "resources"
  <2> HIDE DEF t
  <2>1. op' = [op EXCEPT !.todo = op.todo \ {k},
                         !.pc = IF op.todo = {k} THEN "readiness" ELSE "resources", !.st = t]
    BY DEF StepDone, t
  <2> QED BY <1>0, <2>1 DEF Worker
<1>2. /\ t \in Status /\ t.obs = op.st.obs /\ t.phase = op.st.phase
      /\ t.cond["Ready"] = op.st.cond["Ready"]
      /\ t.cond["ConfigValid"] = op.st.cond["ConfigValid"]
            \/ (k = "configMap" /\ t.cond["ConfigValid"].og = o.gen)
      /\ t.cond["DatabaseReady"] = op.st.cond["DatabaseReady"]
            \/ (k = "pgStatefulSet" /\ t.cond["DatabaseReady"].og = o.gen)
      /\ \/ t.cond["BackupReady"] = op.st.cond["BackupReady"]
         \/ /\ k \in {"cronJob", "restoreJob"}
            /\ t.cond["BackupReady"].og = o.gen
            /\ t.cond["BackupReady"].st = "True" => Wanted(k, o)
  BY <1>0, StepStatusFacts
<1> HIDE DEF t
<1>3. UidOrder' /\ CopyOrder' /\ ChildOrder' /\ DeploymentAfterInputs'
  BY <1>0, <1>1, WriteStep
<1>4. WorkerCopy'
  BY <1>0, <1>1, <1>2 DEF IInv, WorkerCopy, Working
<1>5. /\ \A j \in Kinds : j # k => child'[j] = child[j]
      /\ k \in Applied /\ Wanted(k, o) => child'[k].uid = o.uid /\ child'[k].gen = o.gen
  BY <1>0, WriteFacts DEF IInv
<1>6. \A j \in Applied : Wanted(j, o) /\ j \notin op'.todo => child'[j].uid = o.uid /\ child'[j].gen = o.gen
  BY <1>0, <1>1, <1>5, KindNames DEF IInv, Progress
<1>7. Progress'
  <2>1. (op'.pc = "readiness" => op'.todo = {}) /\ op'.todo \subseteq Steps(o)
    BY <1>0, <1>1 DEF IInv, Progress
  <2> QED BY <1>1, <1>6, <2>1 DEF Progress
<1>8. StatusBacked'
  <2> PICK a \in Status : a = op.st
    BY <1>0
  <2> PICK b \in Status : b = t
    BY <1>2
  <2> PICK d \in Status : d = o.status
    BY <1>0
  <2> PICK e \in Status : e = mint.status
    BY <1>0
  <2> PICK f \in Status : f = view.status
    BY <1>0
  <2>1. \A s \in Status : Backed(s) => Backed(s)'
    BY <1>0, BackedWritten
  <2>2. Backed(a) /\ Backed(d) /\ Backed(e)
    BY <1>0, WorkingFacts DEF IInv, StatusBacked
  <2>3. view.uid # 0 /\ view.uid = mint.uid => Backed(f)
    BY DEF IInv, StatusBacked
  <2>4. Backed(b)'
    <3>0. o.uid = mint.uid /\ o.gen \in Nat
      BY <1>0, WorkingFacts
    <3>1. Backed(a)' /\ \A c \in DOMAIN ConditionObject : ObjectBacks(a, c)'
      BY <2>1, <2>2 DEF Backed
    <3>2. ObjectBacks(b, "ConfigValid")'
      <4>1. "configMap" \in Applied /\ Wanted("configMap", o)
        BY DEF Applied, Wanted, Kinds, Position, CreateOnce
      <4>2. k = "configMap" => child'["configMap"].uid = o.uid /\ child'["configMap"].gen = o.gen
        BY <1>5, <4>1
      <4> QED BY <1>0, <1>2, <3>0, <3>1, <4>2 DEF ObjectBacks, ConditionObject
    <3>3. ObjectBacks(b, "DatabaseReady")'
      <4>1. "pgStatefulSet" \in Applied
        BY DEF Applied, Kinds, Position, CreateOnce
      <4>2. k = "pgStatefulSet" => Wanted(k, o)
        BY <1>0 DEF IsNext, IInv, Progress, Steps
      <4> QED BY <1>0, <1>2, <1>5, <3>0, <3>1, <4>1, <4>2 DEF ObjectBacks, ConditionObject
    <3>4. ObjectBacks(b, "BackupReady")'
      <4>1. /\ "cronJob" \in Applied /\ "restoreJob" \in Applied
            /\ Position["cronJob"] = 5 /\ Position["restoreJob"] = 6
        BY DEF Applied, Kinds, Position, CreateOnce
      <4>2. Wanted("restoreJob", o) => Wanted("cronJob", o)
        BY DEF Wanted
      <4>3. k = "restoreJob" => "cronJob" \notin op'.todo
        BY <1>0, <1>1, <4>1 DEF IsNext
      <4>4. k = "cronJob" => "cronJob" \notin op'.todo
        BY <1>1
      <4>5. k \in {"cronJob", "restoreJob"} /\ Wanted(k, o) =>
               child'["cronJob"].uid = o.uid /\ child'["cronJob"].gen = o.gen
        BY <1>6, <4>1, <4>2, <4>3, <4>4
      <4> QED BY <1>0, <1>2, <3>0, <3>1, <4>5 DEF ObjectBacks, ConditionObject
    <3>5. \A c \in DOMAIN ConditionObject : ObjectBacks(b, c)'
      BY <3>2, <3>3, <3>4 DEF ConditionObject
    <3> QED BY <1>2, <3>1, <3>5 DEF Backed
  <2>5. Backed(e)' /\ Backed(d)'
    BY <2>1, <2>2
  <2>6. view.uid # 0 /\ view.uid = mint.uid => Backed(f)'
    BY <2>1, <2>3
  <2>7. op'.st = b /\ op'.obj.status = d /\ mint'.status = e /\ view'.status = f
        /\ mint'.uid = mint.uid /\ view'.uid = view.uid
    BY <1>0, <1>1
  <2> QED BY <2>4, <2>5, <2>6, <2>7 DEF StatusBacked
<1> QED BY <1>3, <1>4, <1>7, <1>8 DEF IInv

\* A step that ends its reconcile, with or without its effect.
LEMMA EndsStep ==
    ASSUME IInv, TypeOK', NEW k \in Kinds, op.pc = "resources", IsNext(k),
           UNCHANGED <<mint, view, lastUid>>,
           Write(k, op.obj) \/ UNCHANGED child,
           op' = Idle \/ op' = [op EXCEPT !.pc = "handleError"]
    PROVE  IInv'
<1>0. /\ op.pc = "resources" /\ Working /\ IsNext(k)
      /\ UNCHANGED <<mint, view, lastUid>>
      /\ Write(k, op.obj) \/ UNCHANGED child
      /\ op' = Idle \/ op' = [op EXCEPT !.pc = "handleError"]
      /\ op \in Worker /\ op.obj \in Mint /\ op.st \in Status /\ op.obj.status \in Status
      /\ mint.status \in Status /\ view.status \in Status
  BY DEF Working, IInv, TypeOK, Worker, Mint
<1>1. op' = Idle \/ (op'.pc = "handleError" /\ op'.obj = op.obj /\ op'.st = op.st)
  BY <1>0 DEF Worker
<1>2. UidOrder' /\ CopyOrder' /\ ChildOrder' /\ DeploymentAfterInputs'
  <2>1. CASE Write(k, op.obj)
    BY <1>0, <1>1, <2>1, WriteStep
  <2>2. CASE UNCHANGED child /\ op' = Idle
    <3>1. SameStamps
      BY <2>2 DEF SameStamps
    <3> QED BY <1>0, <2>2, <3>1, IdleStep DEF IInv
  <2>3. CASE UNCHANGED child /\ op'.obj = op.obj /\ op'.pc = "handleError"
    <3>1. UidOrder'
      BY <1>0, <2>3 DEF IInv, UidOrder
    <3>2. CopyOrder'
      BY <1>0, <2>3 DEF IInv, CopyOrder, Older
    <3>3. ChildOrder'
      BY <1>0, <2>3 DEF IInv, ChildOrder
    <3>4. DeploymentAfterInputs'
      BY <1>0, <2>3 DEF IInv, DeploymentAfterInputs
    <3> QED BY <3>1, <3>2, <3>3, <3>4
  <2> QED BY <1>0, <1>1, <2>1, <2>2, <2>3
<1>3. WorkerCopy'
  <2>1. CASE op' = Idle
    BY <2>1, IdleWorker
  <2>2. CASE op'.pc = "handleError" /\ op'.obj = op.obj /\ op'.st = op.st
    BY <1>0, <2>2 DEF IInv, WorkerCopy, Working
  <2> QED BY <1>1, <2>1, <2>2
<1>4. Progress'
  BY <1>1, IdleWorker DEF Progress
<1>5. StatusBacked'
  <2> PICK a \in Status : a = op.st
    BY <1>0
  <2> PICK d \in Status : d = op.obj.status
    BY <1>0
  <2> PICK e \in Status : e = mint.status
    BY <1>0
  <2> PICK f \in Status : f = view.status
    BY <1>0
  <2>1. \A s \in Status : Backed(s) => Backed(s)'
    <3>1. CASE Write(k, op.obj)
      BY <1>0, <3>1, BackedWritten
    <3>2. CASE UNCHANGED child
      BY <1>0, <3>2, BackedKept DEF SameStamps
    <3> QED BY <1>0, <3>1, <3>2
  <2>2. Backed(a) /\ Backed(d) /\ Backed(e)
    BY <1>0, WorkingFacts DEF IInv, StatusBacked
  <2>3. view.uid # 0 /\ view.uid = mint.uid => Backed(f)
    BY DEF IInv, StatusBacked
  <2>4. Working' => op'.st = a /\ op'.obj.status = d
    BY <1>1, IdleWorker
  <2>5. mint'.status = e /\ view'.status = f /\ mint'.uid = mint.uid /\ view'.uid = view.uid
    BY <1>0
  <2>6. Backed(a)' /\ Backed(d)' /\ Backed(e)' /\ (view.uid # 0 /\ view.uid = mint.uid => Backed(f)')
    BY <2>1, <2>2, <2>3
  <2> QED BY <2>4, <2>5, <2>6 DEF StatusBacked
<1> QED BY <1>2, <1>3, <1>4, <1>5 DEF IInv

\* updateDeploymentReadiness may say Ready=True because every step is done.
LEMMA ReadinessStep == IInv /\ TypeOK' /\ UpdateReadiness => IInv'
<1> SUFFICES ASSUME IInv, TypeOK', UpdateReadiness PROVE IInv'
  OBVIOUS
<1> DEFINE o == op.obj
           r == [op.st EXCEPT !.phase = "Ready"]
           t == SetStatusCondition(r, "Ready", "True", o.gen)
           u == SetStatusCondition(op.st, "Ready", "False", o.gen)
<1>0. /\ op.pc = "readiness" /\ Working /\ UNCHANGED <<mint, view, child, lastUid>> /\ SameStamps
      /\ op \in Worker /\ o \in Mint /\ op.st \in Status /\ o.status \in Status
      /\ mint.status \in Status /\ view.status \in Status
      /\ "Ready" \in CondTypes /\ "Ready" \in Phases
  BY DEF UpdateReadiness, Working, IInv, TypeOK, Worker, Mint, caches, cluster, counters,
         SameStamps, CondTypes, Phases
<1>1. /\ o.gen \in Nat /\ mint.gen \in Nat /\ o.gen <= mint.gen /\ o.uid = mint.uid /\ mint.uid # 0
      /\ o.gen = mint.gen => o.spec = mint.spec
  BY <1>0, WorkingFacts
<1>2. r \in Status /\ r.obs = op.st.obs /\ r.phase = "Ready" /\ r.cond = op.st.cond
  BY <1>0, SetPhaseFacts
<1>3. /\ t \in Status /\ t.obs = r.obs /\ t.phase = r.phase
      /\ t.cond["Ready"] = [st |-> "True", og |-> o.gen]
      /\ \A d \in CondTypes : d # "Ready" => t.cond[d] = r.cond[d]
  <2> HIDE DEF r
  <2> QED BY <1>0, <1>1, <1>2, SetConditionFacts
<1>4. /\ u \in Status /\ u.obs = op.st.obs /\ u.phase = op.st.phase
      /\ u.cond["Ready"] = [st |-> "False", og |-> o.gen]
      /\ \A d \in CondTypes : d # "Ready" => u.cond[d] = op.st.cond[d]
  BY <1>0, <1>1, SetConditionFacts
<1>5. PICK v \in {op.st, t, u} : op' = [op EXCEPT !.pc = "updateStatus", !.st = v]
  <2>1. depView \in {"absent", "down", "up"}
    BY DEF IInv, TypeOK
  <2> QED BY <2>1 DEF UpdateReadiness
<1> HIDE DEF r, t, u
<1>6. /\ v \in Status /\ v.obs = op.st.obs
      /\ v.phase = op.st.phase \/ v.phase = "Ready"
      /\ \A d \in CondTypes : d # "Ready" => v.cond[d] = op.st.cond[d]
      /\ v.cond["Ready"] \in {op.st.cond["Ready"], [st |-> "True", og |-> o.gen],
                              [st |-> "False", og |-> o.gen]}
  BY <1>0, <1>2, <1>3, <1>4
<1>7. op'.pc = "updateStatus" /\ op'.obj = o /\ op'.st = v /\ Working'
  BY <1>0, <1>5 DEF Worker, Working
<1>8. UidOrder' /\ CopyOrder'
  BY <1>0, <1>7 DEF IInv, UidOrder, CopyOrder, Older
<1>9. WorkerCopy'
  BY <1>0, <1>6, <1>7 DEF IInv, WorkerCopy
<1>10. ChildOrder'
  BY <1>0, <1>7 DEF IInv, ChildOrder
<1>11. Progress'
  BY <1>7 DEF Progress
<1>12. Backed(v)
  <2>1. Backed(op.st)
    BY <1>0 DEF IInv, StatusBacked
  <2>2. \A c \in DOMAIN ConditionObject : ObjectBacks(v, c)
    BY <1>6, <2>1, ConditionObjectFacts DEF Backed, ObjectBacks
  <2>3. o.gen = mint.gen => \A k \in Applied : Wanted(k, mint) /\ k # "restoreJob" =>
                child[k].uid = mint.uid /\ child[k].gen = mint.gen
    <3> SUFFICES ASSUME o.gen = mint.gen, NEW k \in Applied, Wanted(k, mint), k # "restoreJob"
                 PROVE  child[k].uid = mint.uid /\ child[k].gen = mint.gen
      OBVIOUS
    <3>1. Wanted(k, o)
      BY <1>1, WantedSpec
    <3> QED BY <1>0, <1>1, <3>1 DEF IInv, Progress
  <2>4. v.cond["Ready"].og <= mint.gen
    BY <1>1, <1>6, <2>1 DEF Backed
  <2>5. v.cond["Ready"] = [st |-> "True", og |-> mint.gen] =>
          \A k \in Applied : Wanted(k, mint) /\ k # "restoreJob" =>
              child[k].uid = mint.uid /\ child[k].gen = mint.gen
    <3>1. CASE v.cond["Ready"] = op.st.cond["Ready"]
      BY <2>1, <3>1 DEF Backed
    <3>2. CASE v.cond["Ready"] = [st |-> "True", og |-> o.gen]
      BY <2>3, <3>2
    <3>3. CASE v.cond["Ready"] = [st |-> "False", og |-> o.gen]
      BY <3>3
    <3> QED BY <1>6, <3>1, <3>2, <3>3
  <2> QED BY <1>6, <2>1, <2>2, <2>4, <2>5 DEF Backed
<1>13. StatusBacked'
  <2>1. \A s \in Status : Backed(s) => Backed(s)'
    BY <1>0, BackedKept
  <2> PICK d \in Status : d = o.status
    BY <1>0
  <2> PICK e \in Status : e = mint.status
    BY <1>0
  <2> PICK f \in Status : f = view.status
    BY <1>0
  <2>2. Backed(v)' /\ Backed(d)' /\ Backed(e)' /\ (view.uid # 0 /\ view.uid = mint.uid => Backed(f)')
    BY <1>0, <1>1, <1>6, <1>12, <2>1 DEF IInv, StatusBacked
  <2>3. op'.obj.status = d /\ mint'.status = e /\ view'.status = f /\ mint'.uid = mint.uid /\ view'.uid = view.uid
    BY <1>0, <1>7
  <2> QED BY <1>7, <2>2, <2>3 DEF StatusBacked
<1>14. DeploymentAfterInputs'
  BY <1>0 DEF IInv, DeploymentAfterInputs
<1> QED BY <1>8, <1>9, <1>10, <1>11, <1>13, <1>14 DEF IInv

\* The status handleError stores.
LEMMA HandleErrorStep == IInv /\ TypeOK' /\ HandleError => IInv'
<1> SUFFICES ASSUME IInv, TypeOK', HandleError PROVE IInv'
  OBVIOUS
<1> DEFINE r == [op.st EXCEPT !.phase = "Failed"]
           t == SetStatusCondition(r, "Ready", "False", op.obj.gen)
<1>0. /\ Working /\ op' = Idle /\ UNCHANGED <<view, child, lastUid>> /\ SameStamps
      /\ mint' = IF LockHolds(op.obj) THEN [mint EXCEPT !.status = t] ELSE mint
      /\ op.st \in Status /\ mint \in Mint /\ "Failed" \in Phases /\ "Ready" \in CondTypes
  BY DEF HandleError, Return, cluster, caches, counters, Working, SameStamps, IInv, TypeOK,
         Worker, Phases, CondTypes
<1>1. CASE ~LockHolds(op.obj)
  BY <1>0, <1>1, IdleStep
<1>2. CASE LockHolds(op.obj)
  <2>1. op.obj.gen \in Nat /\ mint.gen \in Nat /\ op.obj.gen <= mint.gen /\ mint.uid # 0
    BY <1>0, WorkingFacts
  <2>2. r \in Status /\ r.obs = op.st.obs /\ r.cond = op.st.cond
    BY <1>0, SetPhaseFacts
  <2>3. /\ t \in Status /\ t.obs = r.obs /\ t.cond["Ready"] = [st |-> "False", og |-> op.obj.gen]
        /\ \A d \in CondTypes : d # "Ready" => t.cond[d] = r.cond[d]
    <3> HIDE DEF r
    <3> QED BY <1>0, <2>1, <2>2, SetConditionFacts
  <2> HIDE DEF r, t
  <2>4. Backed(t)
    <3>1. Backed(op.st)
      BY <1>0 DEF IInv, StatusBacked
    <3>2. \A c \in DOMAIN ConditionObject : ObjectBacks(t, c)
      BY <2>2, <2>3, <3>1, ConditionObjectFacts DEF Backed, ObjectBacks
    <3> QED BY <2>1, <2>2, <2>3, <3>1, <3>2 DEF Backed
  <2>5. /\ mint'.uid = mint.uid /\ mint'.gen = mint.gen /\ mint'.spec = mint.spec
        /\ mint'.del = mint.del /\ mint'.fin = mint.fin /\ mint'.status = t
    BY <1>0, <1>2 DEF Mint
  <2> QED BY <1>0, <2>1, <2>4, <2>5, MintWriteStep
<1> QED BY <1>1, <1>2

\* The status updateStatus stores on the object it fetched again.
LEMMA UpdateStatusStep ==
    ASSUME IInv, TypeOK', NEW lb \in BOOLEAN, UpdateStatus(lb)
    PROVE  IInv'
<1> DEFINE v == IF lb THEN "True" ELSE "False"
           u == SetStatusCondition(op.st, "IngressReady", v, view.gen)
<1>0. /\ Working /\ op' = Idle /\ UNCHANGED <<view, child, lastUid>> /\ SameStamps
      /\ op.st \in Status /\ mint \in Mint /\ view \in Mint /\ view.gen \in Nat
      /\ "Ready" \in CondTypes /\ "IngressReady" \in CondTypes
  BY DEF UpdateStatus, Return, cluster, caches, counters, Working, SameStamps, IInv, TypeOK,
         Worker, Mint, CondTypes
<1>4. /\ u \in Status
      /\ \A d \in CondTypes : d # "IngressReady" => u.cond[d] = op.st.cond[d]
  <2> PICK x \in {"Unknown", "True", "False"} : x = v
    OBVIOUS
  <2>1. u = SetStatusCondition(op.st, "IngressReady", x, view.gen)
    OBVIOUS
  <2> HIDE DEF v, u
  <2>2. ASSUME NEW g \in Nat, NEW t \in Status
        PROVE  /\ SetStatusCondition(t, "IngressReady", x, g) \in Status
               /\ \A d \in CondTypes : d # "IngressReady" =>
                     SetStatusCondition(t, "IngressReady", x, g).cond[d] = t.cond[d]
    BY DEF SetStatusCondition, Status, Condition, CondTypes
  <2> QED BY <1>0, <2>1, <2>2
<1>1. PICK w \in {op.st, u} :
        mint' = IF LockHolds(view) THEN [mint EXCEPT !.status = [w EXCEPT !.obs = view.gen]] ELSE mint
  BY DEF UpdateStatus
<1> HIDE DEF u
<1>2. CASE ~LockHolds(view)
  BY <1>0, <1>1, <1>2, IdleStep
<1>3. CASE LockHolds(view)
  <2>1. view = mint /\ mint.uid # 0
    BY <1>0, <1>3, WorkingFacts DEF LockHolds
  <2>3. w \in Status /\ \A d \in CondTypes : d # "IngressReady" => w.cond[d] = op.st.cond[d]
    BY <1>0, <1>4
  <2> DEFINE t == [w EXCEPT !.obs = view.gen]
  <2>4. t \in Status /\ t.obs = view.gen /\ t.cond = w.cond
    BY <1>0, <2>3 DEF Status
  <2> HIDE DEF t
  <2>5. Backed(t)
    <3>1. Backed(op.st)
      BY <1>0 DEF IInv, StatusBacked
    <3>2. \A c \in DOMAIN ConditionObject : ObjectBacks(t, c)
      BY <2>3, <2>4, <3>1, ConditionObjectFacts DEF Backed, ObjectBacks
    <3>3. t.cond["Ready"] = op.st.cond["Ready"]
      BY <1>0, <2>3, <2>4
    <3> QED BY <1>0, <2>1, <2>4, <3>1, <3>2, <3>3 DEF Backed
  <2>6. mint' = [mint EXCEPT !.status = t]
    BY <1>1, <1>3 DEF t
  <2>7. /\ mint'.uid = mint.uid /\ mint'.gen = mint.gen /\ mint'.spec = mint.spec
        /\ mint'.del = mint.del /\ mint'.fin = mint.fin /\ mint'.status = t
    BY <1>0, <2>6 DEF Mint
  <2> QED BY <1>0, <2>1, <2>5, <2>7, MintWriteStep
<1> QED BY <1>2, <1>3

\* The two writes with which a mint enters its lifecycle.
LEMMA LifecycleStep == IInv /\ TypeOK' /\ (AddFinalizer \/ InitStatus) => IInv'
<1> SUFFICES ASSUME IInv, TypeOK', AddFinalizer \/ InitStatus PROVE IInv'
  OBVIOUS
<1>0. /\ op' = Idle /\ UNCHANGED <<view, child, lastUid>> /\ SameStamps
      /\ mint \in Mint /\ mint.status \in Status /\ "Pending" \in Phases
  BY DEF AddFinalizer, InitStatus, Return, cluster, caches, counters, SameStamps, IInv, TypeOK,
         Mint, Phases
<1>1. PICK n \in {mint, [mint EXCEPT !.fin = TRUE], [mint EXCEPT !.status.phase = "Pending"]} :
         mint' = n /\ (n # mint => mint.uid # 0)
  BY <1>0, FinalizerWrite DEF InitStatus, LockHolds
<1>2. CASE n = mint
  BY <1>0, <1>1, <1>2, IdleStep
<1>3. CASE n # mint
  <2>1. /\ n.uid = mint.uid /\ n.gen = mint.gen /\ n.spec = mint.spec /\ n.del = mint.del
        /\ mint.fin => n.fin
        /\ n.status.obs = mint.status.obs /\ n.status.cond = mint.status.cond
    BY <1>0, <1>1 DEF Mint, Status
  <2>2. Backed(mint.status)
    BY <1>1, <1>3 DEF IInv, StatusBacked
  <2>3. Backed(n.status)
    BY <2>1, <2>2 DEF Backed, ObjectBacks
  <2> QED BY <1>0, <1>1, <1>3, <2>1, <2>3, MintWriteStep
<1> QED BY <1>2, <1>3

\* handleDeletion: the Secret goes, then the finalizer and with it the mint.
LEMMA DeletionStep == IInv /\ TypeOK' /\ (CleanupSecret \/ RemoveFinalizer) => IInv'
<1> SUFFICES ASSUME IInv, TypeOK', CleanupSecret \/ RemoveFinalizer PROVE IInv'
  OBVIOUS
<1>1. CASE CleanupSecret
  <2>1. /\ op.pc = "cleanup" /\ UNCHANGED <<mint, view, lastUid>> /\ op \in Worker
        /\ op' = [op EXCEPT !.pc = "removeFinalizer"] /\ child \in [Kinds -> Child]
    BY <1>1 DEF CleanupSecret, Goto, caches, counters, IInv, TypeOK
  <2>2. op'.pc = "removeFinalizer" /\ op'.obj = op.obj /\ ~Working'
    BY <2>1 DEF Worker, Working
  <2>3. SameStamps
    BY <1>1, <2>1, KindNames DEF CleanupSecret, Child, SameStamps
  <2>4. UidOrder'
    BY <2>1, <2>2, <2>3 DEF IInv, UidOrder, SameStamps
  <2>5. CopyOrder'
    BY <2>1, <2>2 DEF IInv, CopyOrder, Older
  <2>6. WorkerCopy' /\ Progress'
    BY <2>1, <2>2 DEF IInv, WorkerCopy, Progress
  <2>7. ChildOrder'
    BY <2>1, <2>2, <2>3 DEF IInv, ChildOrder, SameStamps
  <2>8. StatusBacked'
    <3>1. mint.status \in Status /\ view.status \in Status
      BY DEF IInv, TypeOK, Mint
    <3> QED BY <2>1, <2>2, <2>3, <3>1, BackedKept DEF IInv, StatusBacked
  <2>9. DeploymentAfterInputs'
    BY <2>1, <2>3, KindNames DEF IInv, DeploymentAfterInputs, SameStamps
  <2> QED BY <2>4, <2>5, <2>6, <2>7, <2>8, <2>9 DEF IInv
<1>2. CASE RemoveFinalizer
  <2>1. /\ op.pc = "removeFinalizer" /\ UNCHANGED <<view, child, lastUid>> /\ op' = Idle /\ SameStamps
        /\ mint' = IF LockHolds(op.obj) THEN NoMint ELSE mint
    BY <1>2 DEF RemoveFinalizer, Return, cluster, caches, counters, SameStamps
  <2>2. CASE ~LockHolds(op.obj)
    BY <2>1, <2>2, IdleStep
  <2>3. CASE LockHolds(op.obj)
    <3>1. op.obj.del /\ op.obj.uid # 0 /\ op.obj.uid = mint.uid
      BY <2>1, <2>3 DEF IInv, WorkerCopy, LockHolds
    <3>2. view.del
      BY <3>1 DEF IInv, CopyOrder, Older
    <3> QED BY <2>1, <2>3, <3>2, IdleWorker, GoneStep
  <2> QED BY <2>2, <2>3
<1> QED BY <1>1, <1>2

\* The restore annotation changes neither the generation nor the spec.
LEMMA RestoreStep == IInv /\ TypeOK' /\ UserRequestsRestore => IInv'
<1> SUFFICES ASSUME IInv, TypeOK', UserRequestsRestore PROVE IInv'
  OBVIOUS
<1>0. /\ UNCHANGED <<view, child, op, lastUid>> /\ SameStamps /\ mint \in Mint
      /\ mint.status \in Status /\ view.status \in Status /\ op.st \in Status /\ op.obj.status \in Status
      /\ mint' = [mint EXCEPT !.restore = TRUE]
  BY DEF UserRequestsRestore, cluster, caches, counters, SameStamps, IInv, TypeOK, Worker, Mint
<1>1. /\ mint'.uid = mint.uid /\ mint'.gen = mint.gen /\ mint'.spec = mint.spec
      /\ mint'.del = mint.del /\ mint'.fin = mint.fin /\ mint'.status = mint.status
  BY <1>0 DEF Mint
<1>2. UidOrder' /\ CopyOrder'
  BY <1>0, <1>1 DEF IInv, UidOrder, CopyOrder, Older
<1>3. WorkerCopy' /\ Progress'
  BY <1>0, <1>1 DEF IInv, WorkerCopy, Progress, Working
<1>4. ChildOrder'
  BY <1>0, <1>1 DEF IInv, ChildOrder, Working
<1>5. StatusBacked'
  BY <1>0, <1>1, BackedKept DEF IInv, StatusBacked, Working
<1>6. DeploymentAfterInputs'
  BY <1>0, <1>1, WantedSpec DEF IInv, DeploymentAfterInputs
<1> QED BY <1>2, <1>3, <1>4, <1>5, <1>6 DEF IInv

\* Initially there is no mint and the worker is idle.
LEMMA InvInit == Init => IInv
<1> SUFFICES ASSUME Init PROVE IInv
  OBVIOUS
<1>0. mint.uid = 0 /\ view.uid = 0 /\ op = Idle /\ lastUid = 0 /\ \A k \in Kinds : child[k].uid = 0
  BY DEF Init, NoMint
<1>1. TypeOK
  BY TypeInit
<1>2. UidOrder /\ CopyOrder /\ WorkerCopy
  BY <1>0, IdleFacts DEF UidOrder, CopyOrder, WorkerCopy, Working
<1>3. ChildOrder /\ Progress /\ StatusBacked /\ DeploymentAfterInputs
  BY <1>0, IdleFacts DEF ChildOrder, Progress, StatusBacked, DeploymentAfterInputs, Working
<1> QED BY <1>1, <1>2, <1>3 DEF IInv

\* Every action preserves the invariant.
LEMMA InvStep == IInv /\ [Next]_vars => IInv'
<1> SUFFICES ASSUME IInv, [Next]_vars PROVE IInv'
  OBVIOUS
<1> USE DEF Return, Goto, cluster, caches, counters
<1>0. TypeOK' /\ TypeOK
  BY TypeStep DEF IInv
<1>1. CASE Reconcile
  BY <1>0, <1>1, ReconcileStep
<1>2. CASE AddFinalizer \/ InitStatus
  BY <1>0, <1>2, LifecycleStep
<1>3. ASSUME NEW k \in Kinds, NEW up \in BOOLEAN, StepDone(k, up) PROVE IInv'
  BY <1>0, <1>3, DoneStep
<1>4. ASSUME NEW k \in Kinds, StepNotReady(k) PROVE IInv'
  BY <1>0, <1>4, IdleStep DEF StepNotReady, SameStamps
<1>5. CASE HandleError
  BY <1>0, <1>5, HandleErrorStep
<1>6. CASE UpdateReadiness
  BY <1>0, <1>6, ReadinessStep
<1>7. ASSUME NEW lb \in BOOLEAN, UpdateStatus(lb) PROVE IInv'
  BY <1>0, <1>7, UpdateStatusStep
<1>8. CASE CleanupSecret \/ RemoveFinalizer
  BY <1>0, <1>8, DeletionStep
<1>9. ASSUME NEW k \in Kinds, NEW landed \in BOOLEAN, NEW class \in {"retried", "other"},
             StepFails(k, landed, class)
      PROVE  IInv'
  BY <1>0, <1>9, EndsStep DEF StepFails
<1>23. ASSUME NEW k \in Kinds, StepRejected(k) PROVE IInv'
  BY <1>0, <1>23, EndsStep DEF StepRejected
<1>10. CASE CallFails
  BY <1>0, <1>10, IdleStep DEF CallFails, SameStamps
<1>11. CASE Restart
  BY <1>0, <1>11, IdleStep DEF Restart, SameStamps
<1>12. CASE PodFails \/ SyncDeployment \/ DeploymentObserves \/ DeploymentAvailable
  BY <1>0, <1>12, NoiseStep
     DEF PodFails, SyncDeployment, DeploymentObserves, DeploymentAvailable, SameStamps
<1>13. ASSUME NEW k \in ReadBack, SyncChild(k) PROVE IInv'
  BY <1>0, <1>13, NoiseStep DEF SyncChild, SameStamps
<1>14. ASSUME NEW k \in Kinds, ChildLost(k) PROVE IInv'
  <2>1. SameStamps
    BY <1>0, <1>14 DEF ChildLost, SameStamps, TypeOK, Child
  <2> QED BY <1>0, <1>14, <2>1, NoiseStep DEF ChildLost
<1>15. ASSUME NEW K \in Batches, GarbageCollect(K) PROVE IInv'
  <2>1. SameStamps
    BY <1>0, <1>15 DEF GarbageCollect, SameStamps, TypeOK, Child
  <2> QED BY <1>0, <1>15, <2>1, NoiseStep DEF GarbageCollect
<1>16. CASE SyncMint
  BY <1>0, <1>16, SyncStep DEF SyncMint
<1>17. ASSUME NEW s \in Specs, UserCreates(s) PROVE IInv'
  <2>1. /\ NoMint \in Mint /\ NoMint.status = NewStatus /\ s \in SUBSET Features /\ lastUid + 1 \in Nat
    BY <1>0, IdleTypes, SpecsAssumption DEF NoMint, TypeOK
  <2>2. mint'.uid = lastUid + 1 /\ mint'.gen = 1 /\ mint'.status = NewStatus
    <3> PICK u \in Nat : u = lastUid + 1
      BY <2>1
    <3>1. mint' = [NoMint EXCEPT !.uid = u, !.gen = 1, !.spec = s]
      BY <1>17 DEF UserCreates
    <3> QED BY <2>1, <3>1 DEF Mint
  <2> QED BY <1>0, <1>17, <2>2, CreateStep DEF UserCreates
<1>18. ASSUME NEW s \in Specs, UserEdits(s) PROVE IInv'
  <2>1. mint \in Mint /\ s \in SUBSET Features /\ mint.gen + 1 \in Nat
    BY <1>0, SpecsAssumption DEF TypeOK, Mint
  <2>2. /\ mint'.uid = mint.uid /\ mint'.gen = mint.gen + 1 /\ mint'.del = mint.del
        /\ mint'.fin = mint.fin /\ mint'.status = mint.status
    <3> PICK g \in Nat : g = mint.gen + 1
      BY <2>1
    <3>1. mint' = [mint EXCEPT !.spec = s, !.gen = g]
      BY <1>18 DEF UserEdits
    <3> QED BY <2>1, <3>1 DEF Mint
  <2> QED BY <1>0, <1>18, <2>2, NewGenerationStep DEF UserEdits
<1>19. CASE UserRequestsRestore
  BY <1>0, <1>19, RestoreStep
<1>20. CASE UserDeletes /\ mint.fin
  <2>1. mint \in Mint /\ mint.gen + 1 \in Nat /\ mint.spec \in SUBSET Features
    BY <1>0 DEF TypeOK, Mint
  <2>2. /\ mint'.uid = mint.uid /\ mint'.gen = mint.gen + 1 /\ mint'.del
        /\ mint'.fin = mint.fin /\ mint'.status = mint.status
    <3> PICK g \in Nat : g = mint.gen + 1
      BY <2>1
    <3>1. mint' = [mint EXCEPT !.del = TRUE, !.gen = g]
      BY <1>20 DEF UserDeletes
    <3> QED BY <2>1, <3>1 DEF Mint
  <2> QED BY <1>0, <1>20, <2>2, NewGenerationStep DEF UserDeletes
<1>21. CASE UserDeletes /\ ~mint.fin
  <2>1. ~Working
    BY <1>21, WorkingFacts
  <2>2. view.uid # 0 /\ view.fin => view.del
    BY <1>0, <1>21 DEF IInv, CopyOrder, Older, TypeOK, Mint
  <2> QED BY <1>0, <1>21, <2>1, <2>2, GoneStep DEF UserDeletes, Working
<1>22. CASE UNCHANGED vars
  BY <1>0, <1>22, NoiseStep DEF vars, SameStamps
<1> QED
  BY <1>1, <1>2, <1>3, <1>4, <1>5, <1>6, <1>7, <1>8, <1>9, <1>10, <1>11, <1>12, <1>13,
     <1>14, <1>15, <1>16, <1>17, <1>18, <1>19, <1>20, <1>21, <1>22, <1>23
     DEF Next, Operator, Failures, Informers, Cluster, User

\* The inductive invariant holds of every reachable state.
THEOREM InvCorrect == Spec => []IInv
BY InvInit, InvStep, PTL DEF Spec

---------------------------------------------------------------------------
(* What follows from the invariant *)

\* For every set of specs and any number of edits, incarnations and faults,
\* Ready=True for the current generation means every object of that
\* generation was applied.
THEOREM ReadyCorrect == Spec => []ReadyMeansApplied
<1>1. IInv => ReadyMeansApplied
  BY DEF IInv, StatusBacked, Backed, ReadyMeansApplied, CondTrue
<1> QED BY <1>1, InvCorrect, PTL

\* The other conditions never claim more than was written.
THEOREM ConditionsCorrect == Spec => []ConditionsBacked
<1>1. IInv => ConditionsBacked
  BY DEF IInv, StatusBacked, Backed, ConditionsBacked
<1> QED BY <1>1, InvCorrect, PTL

\* Nothing is generated for a mint whose finalizer is not stored.
THEOREM FinalizerCorrect == Spec => []FinalizerFirst
<1>1. IInv => FinalizerFirst
  BY DEF IInv, ChildOrder, FinalizerFirst
<1> QED BY <1>1, InvCorrect, PTL

\* The Deployment never runs ahead of the objects it mounts.
THEOREM InputsCorrect == Spec => []DeploymentAfterInputs
<1>1. IInv => DeploymentAfterInputs
  BY DEF IInv
<1> QED BY <1>1, InvCorrect, PTL

\* The worker writes the mint in five places.  Three are status writes; the
\* finalizer goes in under the lock of the copy that is sent, and out of a mint
\* whose copy carries the deletion mark.
LEMMA EditStep ==
    ASSUME IInv, [Next]_vars, op' # op, mint.uid # 0
    PROVE  \/ mint.del /\ mint' = NoMint
           \/ /\ mint'.uid = mint.uid /\ mint'.gen = mint.gen
              /\ mint'.spec = mint.spec /\ mint'.restore = mint.restore
              /\ mint'.del = mint.del
<1>0. mint \in Mint
  BY DEF IInv, TypeOK
<1>1. CASE AddFinalizer
  BY <1>0, <1>1, FinalizerWrite DEF Mint
<1>2. CASE InitStatus
  <2>1. mint' = mint \/ mint' = [mint EXCEPT !.status.phase = "Pending"]
    BY <1>2 DEF InitStatus
  <2> QED BY <1>0, <2>1 DEF Mint
<1>3. CASE HandleError
  <2>1. PICK s : mint' = mint \/ mint' = [mint EXCEPT !.status = s]
    BY <1>3 DEF HandleError
  <2> QED BY <1>0, <2>1 DEF Mint
<1>4. ASSUME NEW lb \in BOOLEAN, UpdateStatus(lb)
      PROVE  \E s : mint' = mint \/ mint' = [mint EXCEPT !.status = s]
  BY <1>4 DEF UpdateStatus
<1>5. CASE \E lb \in BOOLEAN : UpdateStatus(lb)
  <2>1. PICK s : mint' = mint \/ mint' = [mint EXCEPT !.status = s]
    BY <1>4, <1>5
  <2> QED BY <1>0, <2>1 DEF Mint
<1>6. CASE RemoveFinalizer
  <2>1. mint' = mint \/ (op.obj = mint /\ mint' = NoMint)
    BY <1>6 DEF RemoveFinalizer, LockHolds
  <2>2. op.obj.del
    BY <1>6 DEF IInv, WorkerCopy, RemoveFinalizer
  <2> QED BY <2>1, <2>2
<1>7. CASE mint' = mint
  BY <1>7
<1>8. CASE Operator
  BY <1>1, <1>2, <1>3, <1>5, <1>6, <1>7, <1>8
     DEF Operator, Reconcile, StepDone, StepNotReady, StepRejected, UpdateReadiness, CleanupSecret
<1>9. CASE Failures
  BY <1>7, <1>9 DEF Failures, StepFails, CallFails, Restart, PodFails, ChildLost
<1>10. CASE Informers \/ Cluster \/ User \/ UNCHANGED vars
  BY <1>10 DEF Informers, SyncMint, SyncDeployment, SyncChild, Cluster, DeploymentObserves,
               DeploymentAvailable, GarbageCollect, User, UserCreates, UserEdits,
               UserRequestsRestore, UserDeletes, vars
<1> QED BY <1>8, <1>9, <1>10 DEF Next

\* No reconcile, from however old a copy, undoes what a user declared.
THEOREM EditsCorrect == Spec => EditsSurvive
<1>1. IInv /\ [Next]_vars =>
        [op' # op /\ mint.uid # 0 =>
            \/ mint.del /\ mint' = NoMint
            \/ /\ mint'.uid = mint.uid /\ mint'.gen = mint.gen
               /\ mint'.spec = mint.spec /\ mint'.restore = mint.restore
               /\ mint'.del = mint.del]_vars
  BY EditStep
<1> QED BY <1>1, InvCorrect, PTL DEF Spec, EditsSurvive

\* Three actions write a status: InitStatus only over an empty one,
\* HandleError under the lock of the copy it started from, UpdateStatus from a
\* status that has left the initial phases onto a mint no older than it.
LEMMA LifecycleForward ==
    IInv /\ [Next]_vars =>
        (SameMint => /\ mint'.status.obs >= mint.status.obs
                     /\ mint.status.phase \notin {"", "Pending"} =>
                            mint'.status.phase \notin {"", "Pending"})
<1> SUFFICES ASSUME IInv, [Next]_vars, SameMint
             PROVE  /\ mint'.status.obs >= mint.status.obs
                    /\ mint.status.phase \notin {"", "Pending"} =>
                           mint'.status.phase \notin {"", "Pending"}
  OBVIOUS
<1>0. /\ mint \in Mint /\ mint.status \in Status /\ mint.status.obs \in Nat /\ mint.gen \in Nat
      /\ op.st \in Status /\ op.st.obs \in Nat /\ op.obj \in Mint /\ view \in Mint
      /\ NoMint.uid = 0 /\ mint.uid # 0 /\ mint'.uid # 0
  BY DEF IInv, TypeOK, Worker, Mint, Status, NoMint, SameMint
<1>16. mint.status.obs >= mint.status.obs
  BY <1>0
<1>1. CASE mint'.status = mint.status
  BY <1>1, <1>16, Zenon
<1>2. CASE InitStatus
  <2>1. mint' = mint \/ (op.obj = mint /\ mint' = [mint EXCEPT !.status.phase = "Pending"])
    BY <1>2 DEF InitStatus, LockHolds
  <2>2. op.obj.status.phase = ""
    BY <1>2 DEF IInv, WorkerCopy, InitStatus
  <2>3. CASE op.obj = mint /\ mint' = [mint EXCEPT !.status.phase = "Pending"]
    <3>1. mint'.status.obs = mint.status.obs
      BY <1>0, <2>3 DEF Mint, Status
    <3>2. mint.status.phase = ""
      BY <2>2, <2>3
    <3> QED BY <1>16, <3>1, <3>2, Zenon
  <2> QED BY <1>1, <2>1, <2>3
<1>3. CASE HandleError
  <2> DEFINE r == [op.st EXCEPT !.phase = "Failed"]
             t == SetStatusCondition(r, "Ready", "False", op.obj.gen)
  <2>0. mint' = mint \/ (op.obj = mint /\ mint' = [mint EXCEPT !.status = t])
    BY <1>3 DEF HandleError, LockHolds
  <2>1. r \in Status /\ r.obs = op.st.obs /\ r.phase = "Failed"
    BY <1>0, SetPhaseFacts DEF Phases
  <2>2. t.obs = r.obs /\ t.phase = r.phase
    <3> HIDE DEF r
    <3> QED BY <2>1 DEF SetStatusCondition, Status
  <2>3. op.st.obs = op.obj.status.obs
    BY <1>3 DEF IInv, WorkerCopy, Working, HandleError
  <2> HIDE DEF r, t
  <2>4. CASE op.obj = mint /\ mint' = [mint EXCEPT !.status = t]
    <3>1. mint'.status = t
      BY <1>0, <2>4 DEF Mint
    <3>2. mint'.status.obs = mint.status.obs /\ mint'.status.phase = "Failed"
      BY <2>1, <2>2, <2>3, <2>4, <3>1
    <3>3. "Failed" \notin {"", "Pending"}
      OBVIOUS
    <3> QED BY <1>16, <3>2, <3>3, Zenon
  <2> QED BY <1>1, <2>0, <2>4
<1>4. ASSUME NEW lb \in BOOLEAN, UpdateStatus(lb)
      PROVE  /\ mint'.status.obs >= mint.status.obs
             /\ mint'.status.phase \notin {"", "Pending"} \/ mint' = mint
  <2> DEFINE v == IF lb THEN "True" ELSE "False"
             u == SetStatusCondition(op.st, "IngressReady", v, view.gen)
  <2>0. u \in Status /\ u.phase = op.st.phase
    BY <1>0 DEF SetStatusCondition, Status, Condition, CondTypes, Mint
  <2>1. PICK w \in {op.st, u} :
          mint' = IF LockHolds(view) THEN [mint EXCEPT !.status = [w EXCEPT !.obs = view.gen]] ELSE mint
    BY <1>4 DEF UpdateStatus
  <2> HIDE DEF u
  <2>2. op.st.phase \notin {"", "Pending"}
    BY <1>4 DEF IInv, WorkerCopy, Working, UpdateStatus
  <2>3. mint.status.obs <= mint.gen
    BY <1>0 DEF IInv, StatusBacked, Backed
  <2>4. CASE LockHolds(view)
    <3>1. view = mint
      BY <2>4 DEF LockHolds
    <3>2. w \in Status /\ w.phase = op.st.phase
      BY <1>0, <2>0
    <3>3. mint'.status.obs = mint.gen /\ mint'.status.phase = op.st.phase
      BY <1>0, <2>1, <2>4, <3>1, <3>2 DEF Mint, Status
    <3> QED BY <1>0, <2>2, <2>3, <3>3
  <2>5. CASE ~LockHolds(view)
    BY <1>0, <2>1, <2>5
  <2> QED BY <2>4, <2>5
<1>5. CASE AddFinalizer
  BY <1>0, <1>1, <1>5, FinalizerWrite DEF Mint
<1>6. ASSUME NEW s \in Specs, UserEdits(s) PROVE mint'.status = mint.status
  <2> PICK g \in Nat : g = mint.gen + 1
    BY <1>0
  <2>1. mint' = [mint EXCEPT !.spec = s, !.gen = g]
    BY <1>6 DEF UserEdits
  <2> QED BY <1>0, <2>1 DEF Mint
<1>7. CASE UserRequestsRestore
  BY <1>0, <1>1, <1>7 DEF UserRequestsRestore, Mint
<1>8. CASE UserDeletes
  <2> PICK g \in Nat : g = mint.gen + 1
    BY <1>0
  <2>1. mint' = [mint EXCEPT !.del = TRUE, !.gen = g]
    BY <1>0, <1>8 DEF UserDeletes
  <2>2. mint'.status = mint.status
    BY <1>0, <2>1 DEF Mint
  <2> QED BY <1>1, <2>2
<1>9. CASE RemoveFinalizer
  BY <1>0, <1>1, <1>9 DEF RemoveFinalizer
<1>10. ASSUME NEW s \in Specs, UserCreates(s) PROVE FALSE
  BY <1>0, <1>10 DEF UserCreates
<1>11. CASE mint' = mint
  BY <1>1, <1>11
<1>12. CASE Operator
  BY <1>0, <1>2, <1>3, <1>4, <1>5, <1>9, <1>11, <1>12
     DEF Operator, Reconcile, StepDone, StepNotReady, StepRejected, Goto, UpdateReadiness, CleanupSecret
<1>13. CASE Failures \/ Informers \/ Cluster
  BY <1>11, <1>13
     DEF Failures, StepFails, CallFails, Restart, PodFails, ChildLost, Informers, SyncMint,
         SyncDeployment, SyncChild, Cluster, DeploymentObserves, DeploymentAvailable, GarbageCollect
<1>14. CASE User
  BY <1>1, <1>6, <1>7, <1>8, <1>10, <1>14 DEF User
<1> QED BY <1>11, <1>12, <1>13, <1>14 DEF Next, vars

\* No interleaving takes a mint's lifecycle back to its start.
THEOREM LifecycleCorrect == Spec => StatusNeverRestarts
<1>1. IInv /\ [Next]_vars =>
        [SameMint => /\ mint'.status.obs >= mint.status.obs
                     /\ mint.status.phase \notin {"", "Pending"} =>
                            mint'.status.phase \notin {"", "Pending"}]_vars
  BY LifecycleForward
<1> QED BY <1>1, InvCorrect, PTL DEF Spec, StatusNeverRestarts
=============================================================================
