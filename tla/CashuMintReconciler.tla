------------------------ MODULE CashuMintReconciler ------------------------
(***************************************************************************)
(* The reconciler of internal/controller/cashumint_controller.go for one   *)
(* CashuMint name.  The controller runtime never runs two reconciles of    *)
(* the same name at once, so there is one worker; it interleaves, between  *)
(* any two of its API calls, with the user, the informer caches it reads,  *)
(* the garbage collector, the Deployment controller and its own crash.     *)
(*                                                                         *)
(* resourceVersion is abstracted to the object itself: a user write        *)
(* changes gen or restore, the worker is the only writer of status, and    *)
(* fin and del only go up, so an object never returns to an earlier value  *)
(* and two copies carry the same resourceVersion iff they are equal.       *)
(***************************************************************************)
EXTENDS GeneratedObjects, FiniteSets

CONSTANTS Specs,      \* the specs users submit, as sets of enabled features
          MaxGen,     \* bound on metadata.generation
          MaxUid,     \* bound on the times the name is created
          MaxFaults   \* bound on API failures, crashes, lost objects and pods

ASSUME SpecsAssumption == Specs \subseteq SUBSET Features
ASSUME BoundsAssumption == MaxGen \in Nat /\ MaxUid \in Nat /\ MaxFaults \in Nat

VARIABLES mint,     \* the CashuMint stored by the API server
          view,     \* the informer's copy of it
          child,    \* the generated objects, one per kind
          seen,     \* the kinds (of those read back) present in the cache
          conf,     \* the config.toml in the stored ConfigMap
          confView, \* the config.toml in the cached ConfigMap
          dep,      \* the Deployment's pod template and rollout
          depView,  \* what the cached Deployment says of its replicas
          op,       \* the worker: where it is, what it read, what it computed
          queued,   \* the name is in the work queue
          lastUid,  \* creations of the name so far
          faults    \* failures so far

vars == <<mint, view, child, seen, conf, confView, dep, depView, op, queued, lastUid, faults>>

---------------------------------------------------------------------------
(* The CashuMint *)

Phases == {"", "Pending", "Provisioning", "Ready", "Failed", "Updating"}
CondTypes == {"Ready", "ConfigValid", "DatabaseReady", "BackupReady", "IngressReady"}
Condition == [st : {"Unknown", "True", "False"}, og : Nat]

Status == [phase : Phases, obs : Nat, cond : [CondTypes -> Condition]]

NewStatus == [phase |-> "", obs |-> 0,
              cond |-> [c \in CondTypes |-> [st |-> "Unknown", og |-> 0]]]

\* Faulty: the observedGeneration of the condition is forgotten.
SetStatusConditionBare(s, c, value, gen) == [s EXCEPT !.cond[c] = [st |-> value]]

\* meta.SetStatusCondition
SetStatusCondition(s, c, value, gen) ==
    [s EXCEPT !.cond[c] = [st |-> value, og |-> gen]]

\* uid 0 is "no such object".
Mint == [uid : Nat, gen : Nat, spec : SUBSET Features, restore : BOOLEAN,
         fin : BOOLEAN, del : BOOLEAN, status : Status]

NoMint == [uid |-> 0, gen |-> 0, spec |-> {}, restore |-> FALSE,
           fin |-> FALSE, del |-> FALSE, status |-> NewStatus]

\* Faulty: no resourceVersion in the write, the last writer wins.
LockIgnored(o) == o.uid # 0 /\ o.uid = mint.uid

\* The optimistic lock of Update and Status().Update: a write from a copy
\* that is no longer the stored object is a Conflict (or a NotFound).
LockHolds(o) == o.uid # 0 /\ o = mint

\* What an Update with the object o stores: the metadata and the spec of o.
\* The deletion mark, the status and the generation are the API server's, which
\* counts a new generation when the spec is another one.
Updated(o) ==
    [o EXCEPT !.del = mint.del, !.status = mint.status,
              !.gen = IF o.spec = mint.spec THEN mint.gen ELSE mint.gen + 1]

---------------------------------------------------------------------------
(* The generated objects *)

\* Kinds the code reads back through the cache (the Deployment is depView).
ReadBack == CreateOnce \cup {"configMap", "ingress"}

\* uid is the incarnation that wrote the object last (its owner, when the
\* kind has one) and gen the generation it was written from; both outlive
\* the object, live says whether it exists.  fixed is its immutable part.
Child == [uid : Nat, gen : Nat, live : BOOLEAN, fixed : SUBSET Features]

\* A pod carries the hash of the config.toml it was rendered with.
Template == [pod : SUBSET Features, hash : SUBSET Features]

Rollout == [tmpl : Template,         \* the pod template of the Deployment
            observed : BOOLEAN,      \* its controller has seen that template
            full : BOOLEAN,          \* ready = updated = available = replicas
            rolled : BOOLEAN]        \* full has been true for that template

---------------------------------------------------------------------------
(* The worker *)

PCs == {"idle", "addFinalizer", "initStatus", "resources", "readiness",
        "updateStatus", "handleError", "cleanup", "removeFinalizer"}

Worker == [pc : PCs, obj : Mint, st : Status, todo : SUBSET Kinds]

Idle == [pc |-> "idle", obj |-> NoMint, st |-> NewStatus, todo |-> {}]

\* Reconcile returns; requeue covers Requeue, RequeueAfter and an error.
Return(requeue) == op' = Idle /\ queued' = (queued \/ requeue)

Goto(pc) == op' = [op EXCEPT !.pc = pc] /\ UNCHANGED queued

Fault == faults < MaxFaults /\ faults' = faults + 1

Init ==
    /\ mint = NoMint
    /\ view = NoMint
    /\ child = [k \in Kinds |-> [uid |-> 0, gen |-> 0, live |-> FALSE, fixed |-> {}]]
    /\ seen = {}
    /\ conf = {} /\ confView = {}
    /\ dep = [tmpl |-> [pod |-> {}, hash |-> {}], observed |-> FALSE, full |-> FALSE, rolled |-> FALSE]
    /\ depView = "absent"
    /\ op = Idle
    /\ queued = FALSE
    /\ lastUid = 0
    /\ faults = 0

cluster == <<child, conf, dep>>
caches == <<view, seen, confView, depView>>
counters == <<lastUid, faults>>

---------------------------------------------------------------------------
(* Reconcile *)

\* transitionReconciliationPhase
TransitionPhase(o) ==
    LET s1 == IF o.status.phase = "Pending"
              THEN SetStatusCondition([o.status EXCEPT !.phase = "Provisioning"],
                                      "Ready", "False", o.gen)
              ELSE o.status
    IN IF o.status.obs # 0 /\ o.status.obs # o.gen
       THEN SetStatusCondition([s1 EXCEPT !.phase = "Updating"],
                               "Ready", "False", o.gen)
       ELSE s1

\* Faulty: the finalizer is added only to a mint that has no phase yet, after
\* the phase was set.
FirstStepUnguarded(o) ==
    CASE o.uid = 0 \/ o.del -> Idle
      [] o.uid # 0 /\ ~o.del /\ o.status.phase = "" ->
            [Idle EXCEPT !.pc = "initStatus", !.obj = o]
      [] OTHER -> [pc |-> "resources", obj |-> o,
                   st |-> TransitionPhase(o), todo |-> Steps(o)]

\* What Reconcile does first with the copy it read.
FirstStep(o) ==
    CASE o.uid = 0 \/ (o.del /\ ~o.fin) -> Idle
      [] o.uid # 0 /\ o.del /\ o.fin ->
            [Idle EXCEPT !.pc = IF "pgAuto" \in o.spec THEN "cleanup"
                                                       ELSE "removeFinalizer",
                         !.obj = o]
      [] o.uid # 0 /\ ~o.del /\ ~o.fin ->
            [Idle EXCEPT !.pc = "addFinalizer", !.obj = o]
      [] o.uid # 0 /\ ~o.del /\ o.fin /\ o.status.phase = "" ->
            [Idle EXCEPT !.pc = "initStatus", !.obj = o]
      [] OTHER -> [pc |-> "resources", obj |-> o,
                   st |-> TransitionPhase(o), todo |-> Steps(o)]

Reconcile ==
    /\ op.pc = "idle" /\ queued
    /\ queued' = FALSE
    /\ op' = FirstStep(view)
    /\ UNCHANGED <<mint, cluster, caches, counters>>

\* Faulty: a Conflict is overcome by sending the old copy with the current
\* resourceVersion.
AddFinalizerForced ==
    /\ op.pc = "addFinalizer"
    /\ mint' = IF LockIgnored(op.obj) THEN Updated([op.obj EXCEPT !.fin = TRUE]) ELSE mint
    /\ Return(TRUE)
    /\ UNCHANGED <<cluster, caches, counters>>

\* The Update sends the whole copy that was read, with the finalizer in it.
AddFinalizer ==
    /\ op.pc = "addFinalizer"
    /\ mint' = IF LockHolds(op.obj) THEN Updated([op.obj EXCEPT !.fin = TRUE]) ELSE mint
    /\ Return(TRUE)
    /\ UNCHANGED <<cluster, caches, counters>>

InitStatus ==
    /\ op.pc = "initStatus"
    /\ mint' = IF LockHolds(op.obj)
               THEN [mint EXCEPT !.status.phase = "Pending"] ELSE mint
    /\ Return(TRUE)
    /\ UNCHANGED <<cluster, caches, counters>>

---------------------------------------------------------------------------
(* reconcileResources *)

IsNext(k) == k \in op.todo /\ \A j \in op.todo : Position[k] <= Position[j]

\* The reads of a step find what they require in the cache: reconcileConfigMap
\* wants the generated password, reconcileDeployment the ConfigMap it hashes.
ReadsSucceed(k, o) ==
    /\ k = "configMap" /\ "pgAuto" \in o.spec /\ "localDB" \notin o.spec
           => "pgSecret" \in seen
    /\ k = "deployment" => "configMap" \in seen

\* The API server refuses the apply of k for o: it would change what is
\* immutable in the object that exists.
Rejected(k, o) == /\ k \notin CreateOnce /\ Wanted(k, o)
                  /\ child[k].live /\ child[k].fixed # Immutable(k, o.spec)

\* applyResource, Create (AlreadyExists ignored), or the PodMonitor's Delete.
Written(k, o) ==
    LET new == [uid |-> o.uid, gen |-> o.gen, live |-> TRUE,
                fixed |-> Immutable(k, o.spec)]
    IN CASE k \in CreateOnce ->
                IF k \in seen \/ child[k].live THEN child ELSE [child EXCEPT ![k] = new]
         [] k = "podMonitor" /\ ~Wanted(k, o) -> [child EXCEPT ![k].live = FALSE]
         [] OTHER -> IF Wanted(k, o) THEN [child EXCEPT ![k] = new] ELSE child

\* Faulty: the template carries no hash of the configuration.
RedeployedUnhashed(o) ==
    LET t == [pod |-> PodSpec(o.spec), hash |-> {}]
        old == child["deployment"].live
    IN IF old /\ dep.tmpl = t
       THEN dep
       ELSE [tmpl |-> t, observed |-> FALSE, full |-> old /\ dep.full, rolled |-> FALSE]

\* The hash is that of the cached ConfigMap, which may not be the one just
\* written.  An unchanged template leaves the Deployment alone; a changed one leaves
\* its replica counters as they were until the Deployment controller reacts.
Redeployed(o) ==
    LET t == [pod |-> PodSpec(o.spec), hash |-> confView]
        old == child["deployment"].live
    IN IF old /\ dep.tmpl = t
       THEN dep
       ELSE [tmpl |-> t, observed |-> FALSE, full |-> old /\ dep.full, rolled |-> FALSE]

Write(k, o) ==
    /\ child' = Written(k, o)
    /\ conf' = IF k = "configMap" THEN ConfigToml(o.spec) ELSE conf
    /\ dep' = IF k = "deployment" THEN Redeployed(o) ELSE dep

\* Faulty: the conditions carry the generation of the newest copy, not of the
\* copy the objects were generated from.
StepStatusNewest(k, o, s, up) ==
    IF k = "configMap" THEN SetStatusCondition(s, "ConfigValid", "True", view.gen) ELSE s

\* Faulty: an enabled backup is reported ready without looking at what was
\* generated.
StepStatusBackup(k, o, s, up) ==
    IF k = "cronJob" THEN SetStatusCondition(s, "BackupReady", "True", o.gen) ELSE s

\* The condition a completed step leaves in the in-memory status.
StepStatus(k, o, s, up) ==
    CASE k = "configMap" -> SetStatusCondition(s, "ConfigValid", "True", o.gen)
      [] k = "pgStatefulSet" ->
            SetStatusCondition(s, "DatabaseReady", IF up THEN "True" ELSE "False", o.gen)
      [] k = "restoreJob" \/ (k = "cronJob" /\ ~Wanted("restoreJob", o)) ->
            SetStatusCondition(s, "BackupReady",
                               IF Wanted(k, o) THEN "True" ELSE "False", o.gen)
      [] OTHER -> s

\* One of the reconcileX calls succeeds; up is the StatefulSet's readiness in
\* the response to its apply.
StepDone(k, up) ==
    /\ op.pc = "resources" /\ IsNext(k) /\ ReadsSucceed(k, op.obj) /\ ~Rejected(k, op.obj)
    /\ up => k = "pgStatefulSet"
    /\ Write(k, op.obj)
    /\ op' = [op EXCEPT !.todo = op.todo \ {k},
                        !.pc = IF op.todo = {k} THEN "readiness" ELSE "resources",
                        !.st = StepStatus(k, op.obj, op.st, up)]
    /\ UNCHANGED <<mint, caches, queued, counters>>

\* Faulty: an input that is not ready yet ends the reconcile without a requeue.
StepNotReadyDropped(k) ==
    /\ op.pc = "resources" /\ IsNext(k) /\ ~ReadsSucceed(k, op.obj)
    /\ Return(FALSE)
    /\ UNCHANGED <<mint, cluster, caches, counters>>

\* handleError on NotFound: requeue after 10s, the status is not written.
StepNotReady(k) ==
    /\ op.pc = "resources" /\ IsNext(k) /\ ~ReadsSucceed(k, op.obj)
    /\ Return(TRUE)
    /\ UNCHANGED <<mint, cluster, caches, counters>>

\* Faulty: a rejected apply is retried like a Conflict, and nobody is told.
StepRejectedQuietly(k) ==
    /\ op.pc = "resources" /\ IsNext(k) /\ Rejected(k, op.obj)
    /\ Return(TRUE)
    /\ UNCHANGED <<mint, cluster, caches, counters>>

\* A rejected apply is neither a Conflict nor a NotFound: handleError reports
\* it, the later steps are not taken, and the next reconcile meets it again.
StepRejected(k) ==
    /\ op.pc = "resources" /\ IsNext(k) /\ Rejected(k, op.obj)
    /\ Goto("handleError")
    /\ UNCHANGED <<mint, cluster, caches, counters>>

\* The step makes an API call, and not only cached reads.
CallsAPI(k, o) == IF k \in CreateOnce THEN k \notin seen
                                      ELSE Wanted(k, o) \/ k = "podMonitor"

\* The API call of a step fails, its effect possibly in place; handleError
\* retries a Conflict or a NotFound and reports anything else.
StepFails(k, landed, class) ==
    /\ op.pc = "resources" /\ IsNext(k) /\ ReadsSucceed(k, op.obj) /\ ~Rejected(k, op.obj)
    /\ CallsAPI(k, op.obj)
    /\ Fault
    /\ IF landed THEN Write(k, op.obj) ELSE UNCHANGED cluster
    /\ IF class = "other" THEN Goto("handleError") ELSE Return(TRUE)
    /\ UNCHANGED <<mint, caches, lastUid>>

\* The status write of handleError, from the copy read at the start; its own
\* failure is only logged.
HandleError ==
    /\ op.pc = "handleError"
    /\ mint' = IF LockHolds(op.obj)
               THEN [mint EXCEPT !.status =
                        SetStatusCondition([op.st EXCEPT !.phase = "Failed"],
                                           "Ready", "False", op.obj.gen)]
               ELSE mint
    /\ Return(TRUE)
    /\ UNCHANGED <<cluster, caches, counters>>

\* Faulty: Ready is reported for the newest generation in the cache.
UpdateReadinessNewest ==
    /\ op.pc = "readiness"
    /\ op' = [op EXCEPT
                !.pc = "updateStatus",
                !.st = IF depView = "up"
                       THEN SetStatusCondition([op.st EXCEPT !.phase = "Ready"],
                                               "Ready", "True", view.gen)
                       ELSE op.st]
    /\ UNCHANGED <<mint, cluster, caches, queued, counters>>

\* updateDeploymentReadiness
UpdateReadiness ==
    /\ op.pc = "readiness"
    /\ op' = [op EXCEPT
                !.pc = "updateStatus",
                !.st = CASE depView = "absent" -> op.st
                         [] depView = "up" ->
                              SetStatusCondition([op.st EXCEPT !.phase = "Ready"],
                                                 "Ready", "True", op.obj.gen)
                         [] depView = "down" ->
                              SetStatusCondition(op.st, "Ready", "False", op.obj.gen)]
    /\ UNCHANGED <<mint, cluster, caches, queued, counters>>

\* updateStatus: the fresh read comes from the cache, so the write succeeds
\* exactly when the cache is current; a Conflict is swallowed.  lb is whether
\* the cached Ingress has an address.
UpdateStatus(lb) ==
    LET ing == "ingress" \in view.spec /\ "ingress" \in seen
        st == IF ing
              THEN SetStatusCondition(op.st, "IngressReady",
                                      IF lb THEN "True" ELSE "False", view.gen)
              ELSE op.st
    IN /\ op.pc = "updateStatus"
       /\ lb => ing
       /\ mint' = IF LockHolds(view)
                  THEN [mint EXCEPT !.status = [st EXCEPT !.obs = view.gen]]
                  ELSE mint
       /\ Return(TRUE)
       /\ UNCHANGED <<cluster, caches, counters>>

---------------------------------------------------------------------------
(* handleDeletion *)

\* The un-owned password Secret is deleted if the cache shows it.
CleanupSecret ==
    /\ op.pc = "cleanup"
    /\ child' = IF "pgSecret" \in seen
                THEN [child EXCEPT !["pgSecret"].live = FALSE] ELSE child
    /\ Goto("removeFinalizer")
    /\ UNCHANGED <<mint, conf, dep, caches, counters>>

\* Without its finalizer the deleted object disappears.  A successful return
\* does not requeue, an error does.
RemoveFinalizer ==
    /\ op.pc = "removeFinalizer"
    /\ mint' = IF LockHolds(op.obj) THEN NoMint ELSE mint
    /\ Return(~LockHolds(op.obj))
    /\ UNCHANGED <<cluster, caches, counters>>

\* Faulty: the error is logged, and nothing retries.
CallFailsDropped ==
    /\ op.pc \in {"addFinalizer", "initStatus", "handleError", "updateStatus",
                  "cleanup", "removeFinalizer"}
    /\ Fault
    /\ Return(FALSE)
    /\ UNCHANGED <<mint, cluster, caches, lastUid>>

\* Any other API call of the worker fails before it has an effect: the error
\* is returned (or logged) and the name is retried.
CallFails ==
    /\ op.pc \in {"addFinalizer", "initStatus", "handleError", "updateStatus",
                  "cleanup", "removeFinalizer"}
    /\ Fault
    /\ Return(TRUE)
    /\ UNCHANGED <<mint, cluster, caches, lastUid>>

---------------------------------------------------------------------------
(* Everybody else *)

DeploymentState ==
    IF child["deployment"].live THEN IF dep.full THEN "up" ELSE "down" ELSE "absent"

\* The operator crashes, or loses its lease, and is started again.  What the
\* new process lists may be anything from what the old one was last told to
\* what is stored: the caches stay as they are, and may catch up before the
\* first Reconcile or later.  A list older than what the old process had seen,
\* from an API server that is behind the others, is not modelled.
Restart ==
    /\ Fault
    /\ op' = Idle /\ queued' = TRUE
    /\ UNCHANGED <<mint, cluster, caches, lastUid>>

SyncMint ==
    /\ view # mint
    /\ view' = mint /\ queued' = TRUE
    /\ UNCHANGED <<mint, cluster, seen, confView, depView, op, counters>>

\* The cache is behind on kind k.
Behind(k) == \/ (k \in seen) # child[k].live
             \/ k = "configMap" /\ k \in seen /\ confView # conf

\* Owned objects enqueue their owner; the password Secret has none.
SyncChild(k) ==
    /\ Behind(k)
    /\ confView' = IF k = "configMap" THEN conf ELSE confView
    /\ seen' = IF child[k].live THEN seen \cup {k} ELSE seen \ {k}
    /\ queued' = (queued \/ k # "pgSecret")
    /\ UNCHANGED <<mint, cluster, view, depView, op, counters>>

SyncDeployment ==
    /\ depView # DeploymentState
    /\ depView' = DeploymentState /\ queued' = TRUE
    /\ UNCHANGED <<mint, cluster, view, seen, confView, op, counters>>

\* The Deployment controller sees a new template, then completes its rollout.
DeploymentObserves ==
    /\ child["deployment"].live /\ ~dep.observed
    /\ dep' = [dep EXCEPT !.observed = TRUE, !.full = FALSE]
    /\ UNCHANGED <<mint, child, conf, caches, op, queued, counters>>

DeploymentAvailable ==
    /\ child["deployment"].live /\ dep.observed /\ ~dep.full
    /\ dep' = [dep EXCEPT !.full = TRUE, !.rolled = TRUE]
    /\ UNCHANGED <<mint, child, conf, caches, op, queued, counters>>

PodFails ==
    /\ child["deployment"].live /\ dep.full
    /\ Fault
    /\ dep' = [dep EXCEPT !.full = FALSE]
    /\ UNCHANGED <<mint, child, conf, caches, op, queued, lastUid>>

\* Somebody deletes a generated object.
ChildLost(k) ==
    /\ child[k].live
    /\ Fault
    /\ child' = [child EXCEPT ![k].live = FALSE]
    /\ UNCHANGED <<mint, conf, dep, caches, op, queued, lastUid>>

\* Kubernetes' garbage collector: owned objects whose owner is gone, in any
\* order as far as the operator can tell (it reads back only ReadBack and the
\* Deployment, so the others may go together).
Batches == {{k} : k \in (ReadBack \ {"pgSecret"}) \cup {"deployment"}}
           \cup {Kinds \ (ReadBack \cup {"deployment"})}

Orphan(k) == child[k].live /\ child[k].uid # mint.uid

GarbageCollect(K) ==
    /\ \E k \in K : Orphan(k)
    /\ child' = [k \in Kinds |-> IF k \in K /\ Orphan(k)
                                 THEN [child[k] EXCEPT !.live = FALSE] ELSE child[k]]
    /\ UNCHANGED <<mint, conf, dep, caches, op, queued, counters>>

UserCreates(s) ==
    /\ mint.uid = 0 /\ lastUid < MaxUid
    /\ lastUid' = lastUid + 1
    /\ mint' = [NoMint EXCEPT !.uid = lastUid + 1, !.gen = 1, !.spec = s]
    /\ UNCHANGED <<cluster, caches, op, queued, faults>>

UserEdits(s) ==
    /\ mint.uid # 0 /\ mint.spec # s /\ mint.gen < MaxGen
    /\ mint' = [mint EXCEPT !.spec = s, !.gen = mint.gen + 1]
    /\ UNCHANGED <<cluster, caches, op, queued, counters>>

\* The restore annotation is metadata: the generation does not change.
UserRequestsRestore ==
    /\ mint.uid # 0 /\ "backup" \in mint.spec /\ ~mint.restore
    /\ mint' = [mint EXCEPT !.restore = TRUE]
    /\ UNCHANGED <<cluster, caches, op, queued, counters>>

\* The API server bumps the generation when it marks an object for deletion.
UserDeletes ==
    /\ mint.uid # 0 /\ ~mint.del
    /\ mint' = IF mint.fin THEN [mint EXCEPT !.del = TRUE, !.gen = mint.gen + 1]
                           ELSE NoMint
    /\ UNCHANGED <<cluster, caches, op, queued, counters>>

---------------------------------------------------------------------------
Operator ==
    \/ Reconcile \/ AddFinalizer \/ InitStatus
    \/ \E k \in Kinds, up \in BOOLEAN : StepDone(k, up)
    \/ \E k \in Kinds : StepNotReady(k) \/ StepRejected(k)
    \/ HandleError \/ UpdateReadiness
    \/ \E lb \in BOOLEAN : UpdateStatus(lb)
    \/ CleanupSecret \/ RemoveFinalizer

Failures ==
    \/ \E k \in Kinds, landed \in BOOLEAN, class \in {"retried", "other"} :
            StepFails(k, landed, class)
    \/ CallFails \/ Restart \/ PodFails
    \/ \E k \in Kinds : ChildLost(k)

Informers == SyncMint \/ SyncDeployment \/ \E k \in ReadBack : SyncChild(k)

Cluster == DeploymentObserves \/ DeploymentAvailable
           \/ \E K \in Batches : GarbageCollect(K)

User == \/ \E s \in Specs : UserCreates(s) \/ UserEdits(s)
        \/ UserRequestsRestore \/ UserDeletes

Next == Operator \/ Failures \/ Informers \/ Cluster \/ User

Spec == Init /\ [][Next]_vars

\* The worker is scheduled, watches deliver, and the cluster's controllers
\* make progress; nothing obliges the user or the failures.
FairSpec ==
    /\ Spec
    /\ WF_vars(Operator)
    /\ WF_vars(SyncMint) /\ WF_vars(SyncDeployment)
    /\ \A k \in ReadBack : WF_vars(SyncChild(k))
    /\ WF_vars(DeploymentObserves) /\ WF_vars(DeploymentAvailable)
    /\ \A K \in Batches : WF_vars(GarbageCollect(K))

---------------------------------------------------------------------------
(* Properties *)

TypeOK ==
    /\ mint \in Mint /\ view \in Mint
    /\ child \in [Kinds -> Child]
    /\ seen \in SUBSET ReadBack
    /\ conf \in SUBSET Features /\ confView \in SUBSET Features
    /\ dep \in Rollout
    /\ depView \in {"absent", "down", "up"}
    /\ op \in Worker
    /\ queued \in BOOLEAN
    /\ lastUid \in Nat /\ faults \in Nat

\* The objects a reconcile writes on every pass.
Applied == Kinds \ CreateOnce

CondTrue(c, g) == mint.status.cond[c] = [st |-> "True", og |-> g]

\* A client that waits for Ready=True with the condition's observedGeneration
\* equal to metadata.generation sees a mint whose generated objects have all
\* been written from that very generation: neither a lagging cache, nor a
\* status carried over by updateStatus to a newer object, nor an error path
\* reports Ready for a spec that was not applied.
ReadyMeansApplied ==
    mint.uid # 0 /\ CondTrue("Ready", mint.gen) =>
        \A k \in Applied : Wanted(k, mint) /\ k # "restoreJob" =>
            child[k].uid = mint.uid /\ child[k].gen = mint.gen

\* The object a condition speaks of.
ConditionObject == [ConfigValid |-> "configMap", DatabaseReady |-> "pgStatefulSet",
                    BackupReady |-> "cronJob"]

ObjectBacks(s, c) ==
    LET k == ConditionObject[c] IN
    s.cond[c].st = "True" => child[k].uid = mint.uid /\ child[k].gen >= s.cond[c].og

\* ConfigValid, DatabaseReady and BackupReady never claim a generation newer
\* than the one their object was written from in this incarnation.
ConditionsBacked ==
    mint.uid # 0 => \A c \in DOMAIN ConditionObject : ObjectBacks(mint.status, c)

\* No object is generated for an incarnation before its finalizer is stored,
\* so handleDeletion always runs for a mint that has anything to clean up.
FinalizerFirst ==
    \A k \in Kinds : mint.uid # 0 /\ child[k].uid = mint.uid => mint.fin

\* The Deployment never runs ahead of its inputs: what it was rendered from
\* is at most as new as the ConfigMap, the volumes and the database service.
DeploymentAfterInputs ==
    \A k \in {"configMap", "pvc", "orchardPVC", "pgStatefulSet"} :
        /\ mint.uid # 0 /\ child["deployment"].uid = mint.uid
        /\ child["deployment"].gen = mint.gen /\ Wanted(k, mint)
        => child[k].uid = mint.uid /\ child[k].gen = mint.gen

SameMint == mint.uid # 0 /\ mint'.uid = mint.uid

\* A reconcile that worked from an outdated copy never takes the lifecycle
\* back: observedGeneration only grows, and a mint that has left the initial
\* phases never enters them again.  (Phases and conditions as such do go back:
\* updateStatus copies a status computed from an old read onto a fresh one.)
StatusNeverRestarts ==
    [][SameMint =>
        /\ mint'.status.obs >= mint.status.obs
        /\ mint.status.phase \notin {"", "Pending"} =>
               mint'.status.phase \notin {"", "Pending"}]_vars

\* What users declared is theirs: no step of the worker changes the spec, the
\* restore annotation or the deletion mark of a mint, starts a generation, or
\* lets a mint disappear that nobody deleted.  Reconcile stores its finalizer by
\* an Update of the whole copy it read, and an edit, a restore request or a
\* deletion may have come in since.
EditsSurvive ==
    [][op' # op /\ mint.uid # 0 =>
        \/ mint.del /\ mint' = NoMint
        \/ /\ mint'.uid = mint.uid /\ mint'.gen = mint.gen
           /\ mint'.spec = mint.spec /\ mint'.restore = mint.restore
           /\ mint'.del = mint.del]_vars

\* The API server and the operator agree: every wanted object exists, written
\* from the current generation, the pods are rendered from the current spec
\* and carry the hash of the current configuration, and the status says so.
Converged ==
    /\ mint.uid # 0 /\ ~mint.del
    /\ \A k \in Kinds : Wanted(k, mint) => child[k].live
    /\ child["podMonitor"].live => Wanted("podMonitor", mint)
    /\ \A k \in Applied : Wanted(k, mint) =>
            child[k].uid = mint.uid /\ child[k].gen = mint.gen
    /\ dep.tmpl = [pod |-> PodSpec(mint.spec), hash |-> ConfigToml(mint.spec)]
    /\ mint.status.phase = "Ready" /\ mint.status.obs = mint.gen
    /\ CondTrue("Ready", mint.gen)

\* The spec asks for a change of an immutable field, and the status says that
\* its generation failed.
Refused == /\ \E k \in Kinds : Rejected(k, mint)
           /\ mint.status.phase = "Failed"
           /\ mint.status.cond["Ready"] = [st |-> "False", og |-> mint.gen]

\* Once the user and the failures stop, a mint that was not deleted becomes
\* and stays converged, whatever the order of events before that; only a
\* change that the API server refuses ends otherwise, and then the user is
\* told, although handleError writes the status from an old copy, once, and
\* ignores a failure of that write.
EventuallyConverged == <>[](mint.uid = 0 \/ mint.del \/ Converged \/ Refused)

\* A deleted mint is finalized, and nothing the garbage collector can reach
\* outlives it.
DeletionCompletes ==
    /\ (mint.uid # 0 /\ mint.del) ~> (mint.uid = 0)
    /\ <>[](mint.uid # 0 \/ \A k \in Kinds \ {"pgSecret"} : ~child[k].live)

---------------------------------------------------------------------------
(* The inductive invariant behind ReadyMeansApplied, FinalizerFirst and the *)
(* action properties                                                        *)

\* Copy a of the mint was read before copy b of the same incarnation.
Older(a, b) ==
    /\ a.gen <= b.gen
    /\ a.fin => b.fin
    /\ a.del => b.del
    /\ a.gen = b.gen => a.spec = b.spec

\* The worker is between transitionReconciliationPhase and its status write.
Working == op.pc \in {"resources", "readiness", "updateStatus", "handleError"}

\* Incarnations are numbered in the order in which they appear.
UidOrder ==
    /\ mint.uid # 0 => mint.uid = lastUid
    /\ view.uid <= lastUid /\ op.obj.uid <= lastUid
    /\ \A k \in Kinds : child[k].uid <= lastUid

\* The worker's copy is no newer than the cache, the cache no newer than the
\* API server, and a finalizer not yet being acted on keeps its mint alive.
CopyOrder ==
    /\ view.uid # 0 /\ view.uid = mint.uid => Older(view, mint)
    /\ op.obj.uid # 0 /\ op.obj.uid = view.uid => Older(op.obj, view)
    /\ op.obj.uid # 0 /\ op.obj.uid = mint.uid => view.uid = mint.uid
    /\ view.uid # 0 /\ view.fin /\ ~view.del => view.uid = mint.uid

\* What each program counter says of the copy the worker holds.
WorkerCopy ==
    /\ Working => /\ op.obj.uid # 0 /\ op.obj.fin /\ ~op.obj.del
                  /\ op.obj.uid = view.uid /\ op.obj.uid = mint.uid
                  /\ op.st.obs = op.obj.status.obs
                  /\ op.st.phase \notin {"", "Pending"}
    /\ op.pc = "removeFinalizer" => op.obj.del
    /\ op.pc = "cleanup" => op.obj.del
    /\ op.pc = "initStatus" => op.obj.status.phase = ""

\* Objects of this incarnation exist only under its finalizer, and none was
\* written from a generation the worker, or the cache, has not read.
ChildOrder ==
    \A k \in Kinds :
        child[k].uid = mint.uid /\ mint.uid # 0 =>
            /\ mint.fin
            /\ view.uid = mint.uid /\ child[k].gen <= view.gen
            /\ Working => child[k].gen <= op.obj.gen

\* The steps already taken have written what their copy asked for.
Progress ==
    op.pc \in {"resources", "readiness"} =>
        /\ op.pc = "readiness" => op.todo = {}
        /\ op.todo \subseteq Steps(op.obj)
        /\ \A k \in Applied : Wanted(k, op.obj) /\ k \notin op.todo =>
              child[k].uid = op.obj.uid /\ child[k].gen = op.obj.gen

\* A status is no newer than the mint, and its Ready=True is backed.
Backed(s) ==
    /\ s.obs <= mint.gen
    /\ s.cond["Ready"].og <= mint.gen
    /\ s.cond["Ready"] = [st |-> "True", og |-> mint.gen] =>
          \A k \in Applied : Wanted(k, mint) /\ k # "restoreJob" =>
              child[k].uid = mint.uid /\ child[k].gen = mint.gen
    /\ \A c \in DOMAIN ConditionObject : ObjectBacks(s, c)

StatusBacked ==
    /\ mint.uid # 0 => Backed(mint.status)
    /\ view.uid # 0 /\ view.uid = mint.uid => Backed(view.status)
    /\ Working => Backed(op.st) /\ Backed(op.obj.status)

IInv == /\ TypeOK
        /\ UidOrder
        /\ CopyOrder
        /\ WorkerCopy
        /\ ChildOrder
        /\ Progress
        /\ StatusBacked
        /\ DeploymentAfterInputs

---------------------------------------------------------------------------
(* What the documentation says, and the code does not do *)

\* docs/getting-started.md: "Ready=True means the Deployment is up" - for the
\* template that generation produced, at least once.
ReadyMeansRolledOut ==
    mint.uid # 0 /\ CondTrue("Ready", mint.gen) => dep.rolled

\* handleDeletion: "We explicitly delete it during finalization" - the
\* password Secret does not outlive a finalized mint.
SecretFinalized == mint.uid = 0 => ~child["pgSecret"].live
=============================================================================
