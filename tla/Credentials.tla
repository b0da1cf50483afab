----------------------------- MODULE Credentials -----------------------------
(***************************************************************************)
(* The values behind the references: the seed phrase a mint signs with and *)
(* the password (or URL) of its database, from the Secrets over config.toml*)
(* to the processes that use them, across deletion and re-creation of one  *)
(* CashuMint name.  Random values are numbered in the order they are drawn.*)
(* The status and the objects that carry no credential are those of        *)
(* CashuMintReconciler; a Conflict that a status write causes only repeats *)
(* a pass, as a failed call does here.                                     *)
(***************************************************************************)
EXTENDS Naturals

CONSTANTS Modes,      \* "auto": provisioned PostgreSQL, "url": urlSecretRef
          MaxUid,     \* bound on the times the name is created
          MaxURL,     \* bound on the values the user gives the URL Secret
          MaxFaults,  \* bound on failed calls, crashes and lost pods
          Patient     \* users re-create a name only when nothing of it is left

ASSUME ModesAssumption == Modes \subseteq {"auto", "url"}
ASSUME BoundsAssumption == MaxUid \in Nat /\ MaxURL \in Nat /\ MaxFaults \in Nat
ASSUME PatientAssumption == Patient \in BOOLEAN

VARIABLES mode,      \* where the database comes from
          mint,      \* the CashuMint in the API server
          view,      \* the informer's copy of it
          key,       \* the mnemonic Secret
          keySeen,   \* it is in the cache
          pw,        \* the Secret with the password, or with the user's URL
          pwView,    \* the cached copy of that Secret
          set,       \* the StatefulSet and its pod
          data,      \* what the database accepts; 0 before it is initialised
          conf,      \* the ConfigMap with config.toml
          confView,  \* the cached copy of it
          dep,       \* the Deployment
          pod,       \* the mint's pod
          op,        \* the worker
          queued,    \* the name is in the work queue
          faults     \* failures so far

vars == <<mode, mint, view, key, keySeen, pw, pwView, set, data, conf, confView,
          dep, pod, op, queued, faults>>

secrets == <<key, pw>>
caches == <<view, keySeen, pwView, confView>>
database == <<set, data>>

---------------------------------------------------------------------------
\* uid is kept when the object is gone: it numbers the incarnations.
Mint == [uid : Nat, live : BOOLEAN, fin : BOOLEAN, del : BOOLEAN]

\* An owned object with the credential in it; val outlives the object.
Owned == [uid : Nat, live : BOOLEAN, val : Nat]

\* Un-owned; val 0 in a live Secret is a missing or empty key.
Secret == [live : BOOLEAN, val : Nat]

StatefulSet == [uid : Nat, live : BOOLEAN, up : BOOLEAN]

\* What a pod started with: for which incarnation, from which template, the
\* password in its config.toml and the seed phrase in its environment.
Pod == [up : BOOLEAN, uid : Nat, hash : Nat, val : Nat, key : Nat]

Steps == {"mnemonic", "pgSecret", "pgStatefulSet", "configMap", "deployment"}
PCs == Steps \cup {"idle", "addFinalizer", "cleanup", "removeFinalizer"}

NoMint == [uid |-> 0, live |-> FALSE, fin |-> FALSE, del |-> FALSE]
NoObject == [uid |-> 0, live |-> FALSE, val |-> 0]
Idle == [pc |-> "idle", obj |-> NoMint]

Init ==
    /\ mode \in Modes
    /\ mint = NoMint /\ view = NoMint
    /\ key = NoObject /\ keySeen = FALSE
    /\ pw \in [live : IF mode = "url" THEN BOOLEAN ELSE {FALSE}, val : {0}] /\ pwView = pw
    /\ set = [uid |-> 0, live |-> FALSE, up |-> FALSE]
    /\ data = 0
    /\ conf = NoObject /\ confView = [live |-> FALSE, val |-> 0]
    /\ dep = NoObject
    /\ pod = [up |-> FALSE, uid |-> 0, hash |-> 0, val |-> 0, key |-> 0]
    /\ op = Idle /\ queued = FALSE /\ faults = 0

Return(requeue) == op' = Idle /\ queued' = (queued \/ requeue)
Goto(pc) == op' = [op EXCEPT !.pc = pc] /\ UNCHANGED queued
Fault == faults < MaxFaults /\ faults' = faults + 1

---------------------------------------------------------------------------
(* The worker *)

\* Faulty: deletion is left to a step that does not exist.
FirstStepUnhandled(o) ==
    CASE ~o.live \/ (o.del /\ ~o.fin) -> "idle"
      [] o.live /\ o.del /\ o.fin -> "delete"
      [] o.live /\ ~o.del /\ ~o.fin -> "addFinalizer"
      [] OTHER -> "mnemonic"

FirstStep(o) ==
    CASE ~o.live \/ (o.del /\ ~o.fin) -> "idle"
      [] o.live /\ o.del /\ o.fin ->
            IF mode = "auto" THEN "cleanup" ELSE "removeFinalizer"
      [] o.live /\ ~o.del /\ ~o.fin -> "addFinalizer"
      [] OTHER -> "mnemonic"

Reconcile ==
    /\ op.pc = "idle" /\ queued
    /\ op' = [pc |-> FirstStep(view), obj |-> view]
    /\ queued' = FALSE
    /\ UNCHANGED <<mode, mint, caches, secrets, database, conf, dep, pod, faults>>

AddFinalizer ==
    /\ op.pc = "addFinalizer"
    /\ mint' = IF op.obj = mint THEN [mint EXCEPT !.fin = TRUE] ELSE mint
    /\ Return(TRUE)
    /\ UNCHANGED <<mode, caches, secrets, database, conf, dep, pod, faults>>

\* GenerateMnemonicSecret: a phrase never drawn before, owned by o.
NewMnemonic(o) == [uid |-> o.uid, live |-> TRUE, val |-> key.val + 1]

\* Faulty: a new phrase whenever the Secret is written.
MnemonicRegenerated(o) == NewMnemonic(o)

\* Create, unless the cache has the Secret; AlreadyExists is ignored, whoever
\* owns what exists.
MnemonicCreated(o) ==
    IF keySeen \/ key.live THEN key ELSE NewMnemonic(o)

\* GeneratePostgresSecret: a password never drawn before, owned by nobody.
NewPassword == [live |-> TRUE, val |-> pw.val + 1]

PasswordCreated == IF pwView.live \/ pw.live THEN pw ELSE NewPassword

\* What step k writes for o.  Apply takes over an object that an earlier
\* incarnation left; a StatefulSet whose template did not change keeps its pod.
Effect(k, o) ==
    /\ key' = IF k = "mnemonic" THEN MnemonicCreated(o) ELSE key
    /\ pw' = IF k = "pgSecret" THEN PasswordCreated ELSE pw
    /\ set' = IF k = "pgStatefulSet" THEN [set EXCEPT !.uid = o.uid, !.live = TRUE] ELSE set
    /\ conf' = IF k = "configMap"
               THEN [uid |-> o.uid, live |-> TRUE, val |-> pwView.val] ELSE conf
    /\ dep' = IF k = "deployment"
              THEN [uid |-> o.uid, live |-> TRUE, val |-> confView.val] ELSE dep

\* The cached reads of a step: reconcileConfigMap wants a password or URL that
\* is there and not empty, reconcileDeployment a ConfigMap to hash.
ReadsSucceed(k) == /\ k = "configMap" => pwView.live /\ pwView.val # 0
                   /\ k = "deployment" => confView.live

Following(k) ==
    CASE k = "mnemonic" -> IF mode = "auto" THEN "pgSecret" ELSE "configMap"
      [] k = "pgSecret" -> "pgStatefulSet"
      [] k = "pgStatefulSet" -> "configMap"
      [] k = "configMap" -> "deployment"

\* Faulty: a finished pass is not repeated after ReconcileInterval.
StepDoneOnce ==
    /\ op.pc \in Steps /\ ReadsSucceed(op.pc)
    /\ Effect(op.pc, op.obj)
    /\ IF op.pc = "deployment" THEN Return(FALSE) ELSE Goto(Following(op.pc))
    /\ UNCHANGED <<mode, mint, caches, data, pod, faults>>

StepDone ==
    /\ op.pc \in Steps /\ ReadsSucceed(op.pc)
    /\ Effect(op.pc, op.obj)
    /\ IF op.pc = "deployment" THEN Return(TRUE) ELSE Goto(Following(op.pc))
    /\ UNCHANGED <<mode, mint, caches, data, pod, faults>>

\* NotFound is retried after 10s, an empty value is an error and retried too.
StepNotReady ==
    /\ op.pc \in Steps /\ ~ReadsSucceed(op.pc)
    /\ Return(TRUE)
    /\ UNCHANGED <<mode, mint, caches, secrets, database, conf, dep, pod, faults>>

\* A call fails, its effect possibly in place.
StepFails(landed) ==
    /\ op.pc \in Steps /\ ReadsSucceed(op.pc)
    /\ Fault
    /\ IF landed THEN Effect(op.pc, op.obj) ELSE UNCHANGED <<secrets, set, conf, dep>>
    /\ Return(TRUE)
    /\ UNCHANGED <<mode, mint, caches, data, pod>>

\* handleDeletion deletes the password Secret by name, if the cache has one.
CleanupSecret ==
    /\ op.pc = "cleanup"
    /\ pw' = IF pwView.live THEN [pw EXCEPT !.live = FALSE] ELSE pw
    /\ Goto("removeFinalizer")
    /\ UNCHANGED <<mode, mint, caches, key, database, conf, dep, pod, faults>>

RemoveFinalizer ==
    /\ op.pc = "removeFinalizer"
    /\ mint' = IF op.obj = mint THEN [NoMint EXCEPT !.uid = mint.uid] ELSE mint
    /\ Return(op.obj # mint)
    /\ UNCHANGED <<mode, caches, secrets, database, conf, dep, pod, faults>>

CallFails ==
    /\ op.pc \in {"addFinalizer", "cleanup", "removeFinalizer"}
    /\ Fault
    /\ Return(TRUE)
    /\ UNCHANGED <<mode, mint, caches, secrets, database, conf, dep, pod>>

\* A new process; its caches are as old as those of the one before, or newer.
Restart ==
    /\ Fault
    /\ op' = Idle /\ queued' = TRUE
    /\ UNCHANGED <<mode, mint, caches, secrets, database, conf, dep, pod>>

---------------------------------------------------------------------------
(* The informers: only owned objects put their mint in the queue *)

SyncMint ==
    /\ view # mint
    /\ view' = mint /\ queued' = TRUE
    /\ UNCHANGED <<mode, mint, keySeen, pwView, confView, secrets, database, conf, dep, pod, op, faults>>

SyncMnemonic ==
    /\ keySeen # key.live
    /\ keySeen' = key.live /\ queued' = TRUE
    /\ UNCHANGED <<mode, mint, view, pwView, confView, secrets, database, conf, dep, pod, op, faults>>

SyncSecret ==
    /\ pwView # pw
    /\ pwView' = pw
    /\ UNCHANGED <<mode, mint, view, keySeen, confView, secrets, database, conf, dep, pod, op, queued, faults>>

SyncConfigMap ==
    /\ confView # [live |-> conf.live, val |-> conf.val]
    /\ confView' = [live |-> conf.live, val |-> conf.val] /\ queued' = TRUE
    /\ UNCHANGED <<mode, mint, view, keySeen, pwView, secrets, database, conf, dep, pod, op, faults>>

---------------------------------------------------------------------------
(* Pods and garbage *)

\* Faulty: without init-password, an initialised data directory keeps its
\* password.
PostgresStartsAsIs ==
    /\ set.live /\ ~set.up /\ pw.live
    /\ set' = [set EXCEPT !.up = TRUE]
    /\ data' = IF data = 0 THEN pw.val ELSE data
    /\ UNCHANGED <<mode, mint, caches, secrets, conf, dep, pod, op, queued, faults>>

\* init-password (an initialised directory) or the image's own entry point (a
\* new one) sets the password to the Secret's.
PostgresStarts ==
    /\ set.live /\ ~set.up /\ pw.live
    /\ set' = [set EXCEPT !.up = TRUE]
    /\ data' = pw.val
    /\ UNCHANGED <<mode, mint, caches, secrets, conf, dep, pod, op, queued, faults>>

\* A pod starts, or is replaced because the template carries another hash,
\* with the configuration and the phrase of that moment.
MintStarts ==
    /\ dep.live /\ conf.live /\ key.live
    /\ ~pod.up \/ pod.hash # dep.val
    /\ pod' = [up |-> TRUE, uid |-> dep.uid, hash |-> dep.val,
               val |-> conf.val, key |-> key.val]
    /\ UNCHANGED <<mode, mint, caches, secrets, database, conf, dep, op, queued, faults>>

PodFails ==
    /\ Fault
    /\ \/ set.up /\ set' = [set EXCEPT !.up = FALSE] /\ UNCHANGED pod
       \/ pod.up /\ pod' = [pod EXCEPT !.up = FALSE] /\ UNCHANGED set
    /\ UNCHANGED <<mode, mint, caches, secrets, data, conf, dep, op, queued>>

Orphan(x) == x.live /\ (~mint.live \/ x.uid # mint.uid)

\* The garbage collector takes what an earlier incarnation owned, with the pods
\* below it; the claim with the data directory is nobody's.
Collect ==
    /\ \/ /\ Orphan(key) /\ key' = [key EXCEPT !.live = FALSE]
          /\ UNCHANGED <<set, conf, dep, pod>>
       \/ /\ Orphan(set) /\ set' = [set EXCEPT !.live = FALSE, !.up = FALSE]
          /\ UNCHANGED <<key, conf, dep, pod>>
       \/ /\ Orphan(conf) /\ conf' = [conf EXCEPT !.live = FALSE]
          /\ UNCHANGED <<key, set, dep, pod>>
       \/ /\ Orphan(dep) /\ dep' = [dep EXCEPT !.live = FALSE]
          /\ pod' = [pod EXCEPT !.up = FALSE]
          /\ UNCHANGED <<key, set, conf>>
    /\ UNCHANGED <<mode, mint, caches, pw, data, op, queued, faults>>

---------------------------------------------------------------------------
(* Users *)

Collected == ~(key.live \/ set.live \/ conf.live \/ dep.live)

UserCreates ==
    /\ ~mint.live /\ mint.uid < MaxUid
    /\ Patient => Collected
    /\ mint' = [uid |-> mint.uid + 1, live |-> TRUE, fin |-> FALSE, del |-> FALSE]
    /\ UNCHANGED <<mode, caches, secrets, database, conf, dep, pod, op, queued, faults>>

UserDeletes ==
    /\ mint.live /\ ~mint.del
    /\ mint' = IF mint.fin THEN [mint EXCEPT !.del = TRUE]
                           ELSE [mint EXCEPT !.live = FALSE]
    /\ UNCHANGED <<mode, caches, secrets, database, conf, dep, pod, op, queued, faults>>

\* The user gives the URL, or rotates it together with the server's password.
UserSetsURL ==
    /\ mode = "url" /\ pw.val < MaxURL
    /\ pw' = [live |-> TRUE, val |-> pw.val + 1]
    /\ data' = pw.val + 1
    /\ UNCHANGED <<mode, mint, caches, key, set, conf, dep, pod, op, queued, faults>>

---------------------------------------------------------------------------
Operator == Reconcile \/ AddFinalizer \/ StepDone \/ StepNotReady
            \/ CleanupSecret \/ RemoveFinalizer

Informers == SyncMint \/ SyncMnemonic \/ SyncSecret \/ SyncConfigMap

Failures == (\E landed \in BOOLEAN : StepFails(landed))
            \/ CallFails \/ Restart \/ PodFails

Users == UserCreates \/ UserDeletes \/ UserSetsURL

Next == Operator \/ Informers \/ Failures \/ Users
        \/ PostgresStarts \/ MintStarts \/ Collect

Spec == Init /\ [][Next]_vars

\* The worker runs, watches deliver, the cluster starts pods and collects
\* garbage; nothing obliges users or failures.
FairSpec ==
    /\ Spec
    /\ WF_vars(Operator)
    /\ WF_vars(SyncMint) /\ WF_vars(SyncMnemonic)
    /\ WF_vars(SyncSecret) /\ WF_vars(SyncConfigMap)
    /\ WF_vars(PostgresStarts) /\ WF_vars(MintStarts) /\ WF_vars(Collect)

---------------------------------------------------------------------------
(* Properties *)

TypeOK ==
    /\ mode \in {"auto", "url"}
    /\ mint \in Mint /\ view \in Mint
    /\ key \in Owned /\ keySeen \in BOOLEAN
    /\ pw \in Secret /\ pwView \in Secret
    /\ set \in StatefulSet /\ data \in Nat
    /\ conf \in Owned /\ confView \in Secret /\ dep \in Owned
    /\ pod \in Pod
    /\ op \in [pc : PCs, obj : Mint]
    /\ queued \in BOOLEAN /\ faults \in Nat

\* The mint's pod and its database run and agree on the password.
Agreed == /\ pod.up /\ pod.val = data
          /\ mode = "auto" => set.up

\* Once users and failures stop, a mint that was not deleted runs with the
\* password its database accepts: a password read from a lagging cache, a data
\* directory that outlived its Secret, a call that failed half way, or a URL
\* that was rotated without anything being enqueued are all made good.
PasswordsAgree ==
    <>[](~mint.live \/ mint.del \/ (mode = "url" /\ pw.val = 0) \/ Agreed)

\* reconcileOptionalMnemonic: "created once and never overwritten so the mint
\* key is stable": every pod that runs for one incarnation of a mint signs with
\* the same seed phrase.
KeyStable ==
    [][mint.live /\ pod.uid = mint.uid /\ pod'.uid = pod.uid => pod'.key = pod.key]_vars
=============================================================================
