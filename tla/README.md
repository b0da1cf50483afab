# Verification of the Cashu mint operator

TLA+ models of the operator in this repository: the reconciler that turns a
`CashuMint` into Kubernetes objects, and the admission path (schema defaults,
mutating and validating webhook) together with what the generators make of an
admitted spec, the credentials of a mint over its life, and restores. TLC checks
the models on small instances; TLAPS proves the safety properties, and that the
reconciler implements its contract, for every value of the constants. Paths below are relative to
the repository; `CC` is `internal/controller/cashumint_controller.go`.

## The system

| Part | State | Operations | Talks to |
| --- | --- | --- | --- |
| Reconciler (`CC`, `helpers.go`) | none of its own between reconciles; an in-memory copy of the mint and its status during one | `Reconcile`, `reconcileResources` and its steps, `handleError`, `updateStatus`, `handleDeletion` | reads through informer caches; writes by `Update`, `Status().Update` (optimistic lock), `Create`, server-side apply and `Delete` |
| Generators (`internal/controller/generators`) | none: functions of the spec | one per object: ConfigMap, Deployment, Services, PVCs, Ingresses, Certificates, PostgreSQL, backup, Secrets, PodMonitor | refer to each other's objects by name, port and volume |
| API types and webhook (`api/v1alpha1`) | the stored spec, defaults included | `Default`, `ValidateCreate/Update/Delete` | called by the API server on each write, the operator's own finalizer updates included |
| Manager (`cmd/main.go`) | caches, work queue | start, leader election, webhook registration | |
| Around it (external) | API server, informers, garbage collector, Deployment controller, users | | events enqueue the mint's name |

What is hard here is not any single function but what happens between two API
calls: the copy a reconcile works from may be old, the caches it reads back may
not show what it has just written, any call may fail with its effect in place,
the process may die, the user may edit, delete or re-create the mint, and objects
of an earlier incarnation are collected concurrently. On the admission side,
defaults become part of the stored object, so later edits meet values that nobody
chose. `PROJECT.json` lists the hazards at their lines.

What makes each part correct:

- *reconciler*: a status never claims what was not written; what a user declared is
  never undone by a write from an older copy; nothing is generated before the finalizer; inputs come
  before the Deployment; after any failure the mint converges, and a deleted one
  disappears;
- *admission and generators*: what is admitted generates a coherent set of
  objects (mounts have volumes, references have objects, routes have ports), and
  a stored default never weakens a choice the user did not make;
- *credentials*: mint and database end up with the same password, and a mint never
  signs with another key;
- *backup*: a request is restored, once, and a finished restore does not stand in
  the way of later edits.

## Modules

| Module | Models |
| --- | --- |
| `GeneratedObjects` | which objects a mint asks for (`Wanted`), in which order they are written (`Position`), what reaches the pod and `config.toml`; a spec is the set of the features that decide this |
| `CashuMintReconciler` | one mint name, its reconciler and the cluster around it |
| `CashuMintReconciler_proofs` | theorems about it |
| `MintContract` | abstract: what a client of the API may observe of a mint, its objects and its Ready condition |
| `MintImplements` | the mapping under which `CashuMintReconciler` implements `MintContract` |
| `MintImplements_proofs` | that it does |
| `Credentials` | seed phrase and database password, from the Secrets over `config.toml` to the pods, across delete and re-creation |
| `Credentials_proofs` | theorems about it |
| `BackupRestore` | restore requests, the Jobs that serve them, and edits the Jobs cannot follow |
| `BackupRestore_proofs` | theorems about it |
| `CashuMintSpec` | the spec as a record of blocks, schema defaults, `Default`, `validateCashuMint` |
| `Generators` | pod, volumes, mounts, references, ports and routes generated for a spec; `FeaturesOf` maps a spec to the feature set of the reconciler model |
| `MintAdmission` | a stored spec over creations, edits, operator updates, and the webhook being installed or removed |
| `MintAdmission_proofs` | theorems about it |
| `MCReconciler`, `MCAdmission` | spec sets, manifests and edits for TLC |

### CashuMintReconciler

controller-runtime never runs two reconciles of one name at the same time, so
there is one worker `op` with a program counter between API calls. Its copy
`op.obj` is the one `Reconcile` read from the cache; `op.st` is the status computed
in memory. `FirstStep` is the sequence of early returns of `Reconcile`
(deletion, finalizer, initial phase); `StepDone`, `StepNotReady` and `StepFails`
are one `reconcileX` call each, in the order of `Position`; `UpdateReadiness`,
`UpdateStatus` and `HandleError` end a reconcile; `CleanupSecret` and
`RemoveFinalizer` are `handleDeletion`. One step is one API call together with the
cached reads in front of it.

- `mint` is the stored object, `view` the cached copy. A resourceVersion is the
  object itself, since no object ever returns to an earlier value: `LockHolds`
  compares copies. `updateStatus` re-reads *the cache*, so it succeeds exactly
  when the cache is current, and a Conflict is swallowed as in the code.
- `child[k]` records which incarnation and generation wrote an object last, and
  whether it exists. Create-once Secrets are written only if the cache lacks them,
  and an `AlreadyExists` is ignored. Only a PodMonitor is ever removed by a
  reconcile.
- `conf` and `confView` are the stored and the cached `config.toml`: the pod
  template carries the hash of the cached one, as `reconcileDeployment` computes
  it.
- `dep` separates what the Deployment asks for from what its controller has seen:
  replica counters describe the old template until `DeploymentObserves`.
- the garbage collector removes owned objects of gone incarnations one batch at a
  time; the PostgreSQL Secret has no owner, so it is neither collected nor does it
  enqueue the mint.
- the API server refuses an apply that changes an immutable field: `Rejected` holds
  of a claim (feature `disk2` stands for another storage class or a smaller size) that
  already exists with other values, `StepRejected` ends the pass in `handleError`, and
  `Refused` lets convergence be claimed of the specs that can be applied.
- `Restart` is a crash or a lost lease: a new process. What its informers list may be
  anything from what the old process was last told to what is stored, so the caches stay
  as they are and catch up later or before the first `Reconcile`. It is an assumption that
  they do not go back: a list from an API server that is behind the one the previous
  process watched would give a copy older than one already acted on, which server-side
  apply, having no lock, would write. The order invariants of the proofs rest on this.
- `Updated` is an `Update` of a whole object: metadata and spec are the sender's,
  generation, deletion mark and status stay with the API server.

### MintContract and MintImplements

`MintContract` has no caches, queue, locks or retries: a mint is declared, amended and
withdrawn; objects are written only for a mint with its finalizer, never from an older
generation than before, the Deployment of a generation after its inputs; Ready=True may
be reported of the declared generation only when all its objects are written from it.
`MintImplements` maps the stored mint, the generation each object was last written from,
and the observed generation of a true Ready condition to the contract's variables;
everything else the reconciler does must be a stutter.

### Credentials

The same worker, reduced to the steps that carry a credential (`Following` gives their
order), with values: random draws are numbered, so two draws are never equal.
`PasswordCreated` and `MnemonicCreated` are create-unless-cached with `AlreadyExists`
ignored; `Effect` renders the *cached* password into `config.toml` and the hash of the
*cached* `config.toml` into the Deployment. `PostgresStarts` stands for the container
`init-password` (postgres.go) or, on a new data directory, for the image's entry point;
the claim with that directory survives the mint. A running pod keeps what it started
with. `Patient` says whether users wait for the garbage collector before they use a name
again. In mode `url` the password belongs to a Secret of the user, whose rotation
enqueues nothing.

### BackupRestore

A request is the pair of annotations that the Job's name is made of; a spec is reduced to
what the Job's template copies from it. A pass applies the CronJob, then the Job, then
everything else (`ReconcileRest`); a Job that exists with another template rejects the
apply and with it the pass. Jobs run, may fail, and expire (`backup.go:279`). `ran` and
`expired` are history variables.

### CashuMintSpec, Generators, MintAdmission

A block behind a pointer is a record with `set = FALSE` when nil; strings and
references are reduced to whether they are given, ports stay numbers. `Admitted`
is what the API server stores: schema defaults, webhook, schema defaults again;
`Submits` refuses what does not fit the CRD's schema, as the API server does.
`UserPatches` edits one field or block; `OperatorUpdates` is the write that adds or
removes the finalizer, which passes admission like any other. `explicit` is a
history variable: the defaulted fields whose value a user gave. The webhook may be
absent, because the default installation leaves it out
(`config/default/kustomization.yaml:23`) and `ENABLE_WEBHOOKS=false` turns it off,
and may be installed or removed later (`hook`).

Whether an installed webhook is also answered is `served`. `SetupWebhookWithManager`
(`cashumint_webhook.go:33-37`) calls `For(r).Complete()` and names neither a defaulter nor
a validator. With the pinned controller-runtime v0.22.2 (`go.mod:14`) the handlers then
appear not to be registered: the methods of `cashumint_webhook.go` would run in their unit
tests only, and a cluster with the webhook installed would refuse every write of a mint,
because of `failurePolicy=fail`. The library is not in this repository, so the model has
both cases: with `served = FALSE` nothing passes while the webhook is installed. The
properties of what passed the webhook, `MountsHaveVolumes`, `EnvSourcesGiven`,
`FinalizerUpdatesPass` and `AdmittedBackupRuns`, are therefore statements about a build in
which it is served; the other properties of the run hold of every stored spec.

Ports are numbers throughout: `ContainerPorts` is the union over the mint, LDK, sidecar and
Orchard containers, `ServicePorts` has the Service ports that forward to a named container
port and `ManagementServicePorts` the one that forwards to its own number. For the text of
`config.toml` the generators' module keeps the files it tells mintd to read
(`BackendPaths`, `ManagementRPCPaths`) and where the pod is told to listen (`Listeners`:
name, port and whether the address is open or loopback), because the pod has to provide
both; `CoreEnvListeners` and `ManagementRPCEnvListeners` are what the environment says of
the same listeners. Addresses are kept where the default is 127.0.0.1
(`managementRPC.address`, `ldkNode.webserverHost`); those whose default is 0.0.0.0
(`mintInfo.listenHost`, `ldkNode.host`, `prometheus.address`, `orchard.host`) are taken as
open.

`RoutesResolve` says that all of these agree, and states the two places where the code
falls short of a working route. `LoopbackOnly`: the Service forwards to the LDK webserver
and the management RPC, but both listen on 127.0.0.1 unless the spec opens them.
`PeersFound`: Orchard finds the management RPC where mintd serves it, unless a user gave
another port or the webhook filled an `rpc` block without one, for it writes 8086 whatever
`managementRPC.port` is. That two listeners have different numbers is not claimed: no
validator compares them.

## Runs

| Run | Instance | Shows |
| --- | --- | --- |
| `local` | embedded DB, one edit of the pods, one failure (604k states) | all reconciler safety properties, and that it implements `MintContract` |
| `wide` | all 18 kinds, restore request (316k) | the inductive invariant of the proofs, for every kind |
| `live` | provisioned PostgreSQL, one failure, fair (180k) | convergence, past the un-owned Secret too, and completion of deletion |
| `config` | edits of `config.toml` only and of a claim, three generations, fair (235k) | the pods end with the current hash; a refused edit that is taken back leaves no trace |
| `admission` | a creation and two edits of any block or field (156k) | what is stored can be written back, and generates a pod that is accepted, finds its files and Secrets, and whose ports agree with what is listened on and dialled |
| `credentials` | two incarnations, one failure or lost pod, a rotated URL, fair (451k) | passwords agree in the end; the key is stable if names are re-used only after collection |
| `backup` | two requests, two templates, four user actions, one failure, fair (445k) | one restore per Job, requests are honoured, edits get through |

Violations, each against a sentence of the repository:

| Run | Sentence | What the code does |
| --- | --- | --- |
| `ready_before_rollout` | docs/getting-started.md:59 "`Ready=True` means the Deployment is up" | readiness is read from counters of the previous template |
| `secret_outlives_mint` | `CC`:145-148 "We explicitly delete it during finalization." | a Secret the cache does not show is not deleted |
| `orchard_rpc` | docs/deployment-guide.md:93 "enables management RPC if it was not already set" | only `Default()` does; without the webhook, as in the default installation, Orchard runs beside a mint that serves no management RPC |
| `key_changes` | `CC`:238 "created once and never overwritten so the mint key is stable" | a name re-created before collection is done runs on the old mint's Secret, which then goes; the next phrase is another one |
| `restore_again` | backup.go:192 "creates a one-shot Job for restoring PostgreSQL" | the annotation outlives the Job's time to live, and the next pass restores again |

Where the webhook is served, it stores what it infers, so an Orchard image chosen for one
database engine and an `rpc.mTLS` inferred while the management RPC was off outlive the
edit that changes the engine or the RPC (docs/deployment-guide.md:94, docs/api-reference.md:278);
no run claims otherwise. The
objects of a feature that is switched off stay until the mint is deleted, except the
PodMonitor; the models show this behaviour and no property speaks against it.

### Bounds

`MaxGen` bounds the users' edits, `MaxUid` creations of the name, `MaxFaults`
failures of any sort, `MaxWrites` user writes in the admission model, `MaxURL` the values
of a user's URL Secret, `MaxEdits` what users do about restores. Two generations are what
it takes for a copy to be outdated, three for a refused edit to be taken back; two
incarnations for the objects of one to meet the other (`credentials`; in
`CashuMintReconciler` the runs have one incarnation and the theorems any number); and one
failure may strike at every API call of a reconcile. Each instance takes one of these to
its bound and keeps the others small. In the admission model a creation and two edits
suffice because the manifests already hold what two edits are then set against each
other in: one has Orchard beside a management RPC, another a backup of a provisioned
database. Four user actions are two requests and two edits of what the Job copies, in any
order, or a request that is withdrawn and made again. Deadlock checking is off where a
deleted mint with its bounds used up is a proper end; in `admission` and `backup` it is on.

### Fairness

`FairSpec` assumes weak fairness of the worker (a queued name is picked up, and a
returned requeue fires: controller-runtime's work queue), of the informers' watches,
of the Deployment controller and of the garbage collector. Nothing is assumed of
users, and failures are finite by `MaxFaults`, so convergence is claimed once they
stop. A rollout that never becomes available (a crashing image) is excluded by
fairness of `DeploymentAvailable`.

`Credentials` and `BackupRestore` add weak fairness of starting pods, and of a Job ending
and expiring, which are the control plane's. The worker's fairness there includes the pass
that `ReconcileInterval` requeues: a rotated Secret enqueues nobody, and a rejected pass
gets through only because it is tried again after the Job has expired.

## Proofs

`CashuMintReconciler_proofs` proves, for every set of specs and all bounds,
`Spec => []` of `TypeOK`, `ReadyMeansApplied`, `ConditionsBacked`,
`FinalizerFirst` and `DeploymentAfterInputs`, and the action properties
`EditsSurvive` and `StatusNeverRestarts`. All rest on one inductive invariant,
`IInv`:

- `UidOrder`, `CopyOrder`: worker's copy, cache and API server hold ever newer
  copies of one incarnation, equal generations mean equal specs, and a finalizer
  keeps a mint from disappearing behind the cache;
- `WorkerCopy`, `Progress`: a working reconcile holds a live, finalized copy, and
  what it has ticked off was written from exactly that copy;
- `ChildOrder`: no object is newer than what the worker or the cache has read, and
  none precedes the finalizer;
- `StatusBacked`: every status in sight, stored, cached or being computed, claims
  only what objects bear out. `ReadyMeansApplied` alone is not inductive, because
  `updateStatus` copies a status computed from one generation onto a newer one: it
  stays true only since the condition then carries the older generation.

The invariant's proof goes action by action; actions that do the same to it share a
lemma (`NoiseStep`, `IdleStep`, `MintWriteStep`, `NewGenerationStep`, ...).

`MintImplements_proofs` proves `ImplementsContract` from `IInv`. A client can tell six
sorts of steps apart (`Visible`): none, a status written, an object written, a mint
created, a mint edited or its finalizer added, a mint gone. Each action of the reconciler
and of its surroundings falls into one of them (`OperatorVisible`, `OthersVisible`), and
each sort is a step of the contract or a stutter (`ApplyStep`, `ReportStep`, `DeclareStep`,
`AmendStep`, `WithdrawStep`). `IInv` supplies what the contract demands of a step:
`ChildOrder` that an object is not written from an older generation, `Progress` that the
Deployment follows its inputs, `StatusBacked` that a Ready claim is borne out. One fact is
not part of it, that an absent mint is `NoMint` and a present one has a generation
(`Numbered`), and is proved beside it.

`MintAdmission_proofs` proves all nine properties of the run `admission` for all manifests
and edits.

- `MountsHaveVolumes`, `EnvSourcesGiven`, `AdmittedBackupRuns`: whatever was stored through
  the webhook is valid as stored (`Screened`), since the validating webhook judges the
  defaulted object; validity gives the link each generator takes for granted
  (`ValidMounts`, `ValidBackup`, ...).
- `FilesMounted`, `ReferencesGenerated` hold of every spec: two generators that decide the
  same thing apart from each other decide it alike.
- `RoutesResolve` does so for the ports, except the one Orchard dials for the management
  RPC: there it depends on the history of edits, and the invariant `RPCPortInv` says that
  the port in a stored `rpc` block is a user's, absent, or 8086.
- `FinalizerUpdatesPass`: admission is idempotent. `Settled` says of a spec that no default
  applies to it. `Default` leaves an enabled Orchard and an enabled backup complete
  (`Linked`), the schema defaults that follow it settle the rest without undoing that, and
  neither touches a settled spec (`DefaultFacts`, `SchemaDefaultFacts`, one lemma per
  `defaultX` below them). `Default` alone does not settle: it skips disabled blocks, which the
  schema fills in. That stored specs are settled holds only of those the webhook has
  seen, hence the invariant `SettledInv`.
- `ExternalTLSRequired` depends on the history of edits: a TLS mode in the store is either
  a user's choice or `"require"` (`TLSInv`), because the schema fills it in before
  `defaultPostgres` could infer `"disable"`, and an edit that carries the stored value along
  chooses nothing.

`Credentials_proofs` proves `TypeOK` and, if `Patient`, the action property `KeyStable`.
Its invariant has three parts: the worker's copy, the cache and the API server hold ever
newer copies, and a working pass holds one that a finalizer still protects (`WorkerInv`);
what exists belongs to the last mint of the name (`OwnObjects`); a mint whose pod has
started still has its Secret, with the phrase of that pod (`PodKey`). `OwnObjects` is where
`Patient` is needed, and only in `UserCreates`; without it the run `key_changes` has the
counterexample.

`BackupRestore_proofs` proves `TypeOK` and `RestoreOncePerJob`. The latter is not inductive:
it would allow a running Job of a request that was restored before. `Accounted` ties the two
together: until a Job has expired, its request ran once if the Job is done, and never
otherwise.

The only assumptions on constants are the `ASSUME`s of the models: specs and manifests fit
the schema (or the set of features it is reduced to), "no request" is not a request, and
bounds are naturals. `Patient` is a hypothesis of one theorem, not an assumption.

Model-checked only: the liveness properties `EventuallyConverged`, `DeletionCompletes`,
`PasswordsAgree`, `EditsApplied` and `RequestHonoured`, since fairness is out of the
prover's reach. Every other property of a passing run is a theorem.

## Not modelled

The text of `config.toml` beyond the files, ports, password and TLS mode in it; images,
resources, probes and security contexts, which no property tells apart; drawing BIP39
words from entropy and the X.509 code; what the backup, restore and `init-password`
scripts do inside the database, and what mintd, a scheduled backup or another restore do to it meanwhile; the auth section
and its database; of `validateCashuMint` the checks of the mint URL (`cashumint_webhook.go:467`),
of the required strings of the payment backends (668-682) and of resource quantities
(716-733), on which no property depends; events and logs; status fields that only name objects; the volume attachments
during a rollout; the claim that the StatefulSet of PostgreSQL makes from its template, which
has no owner, is not an object of `CashuMintReconciler`, and `DeletionCompletes` does not
speak of it (`Credentials` has it as the data directory that survives the mint). `zz_generated.deepcopy.go` and the test harness carry no behaviour of
the system.

## Plan

Done: the reconciler with its proofs and the contract it implements; admission and the
generators' cross references; credentials; restores; a theorem for each safety and action
property and for the refinement. Next, in this order:

1. the safety half of the liveness arguments of the reconciler: work that is left is always
   queued, being done, or announced by an informer that has not caught up;
2. the same for a rejected pass in `BackupRestore`: an edit that waits for a Job has a pass
   to come;
3. what `PasswordsAgree` rests on: `config.toml` never holds a password that was not in the
   Secret.
