------------------------- MODULE Credentials_proofs -------------------------
(***************************************************************************)
(* Proofs about Credentials, for every number of incarnations, URLs and    *)
(* failures: type correctness, and that a mint keeps its key if names are  *)
(* used again only when nothing is left of their last owner.               *)
(***************************************************************************)
EXTENDS Credentials, TLAPS

---------------------------------------------------------------------------
(* Types *)

LEMMA TypeInit == Init => TypeOK
<1> SUFFICES ASSUME Init PROVE TypeOK
  OBVIOUS
<1>1. mode \in {"auto", "url"}
  BY ModesAssumption DEF Init
<1>2. NoMint \in Mint
  BY DEF NoMint, Mint
<1>3. NoObject \in Owned /\ [live |-> FALSE, val |-> 0] \in Secret
  BY DEF NoObject, Owned, Secret
<1>4. Idle \in [pc : PCs, obj : Mint]
  BY <1>2 DEF Idle, PCs
<1>5. pw \in Secret /\ pwView \in Secret
  <2>1. pw \in [live : BOOLEAN, val : {0}] /\ pwView = pw
    BY DEF Init
  <2> QED BY <2>1 DEF Secret
<1>6. set \in StatefulSet /\ pod \in Pod
  <2>1. /\ set = [uid |-> 0, live |-> FALSE, up |-> FALSE]
        /\ pod = [up |-> FALSE, uid |-> 0, hash |-> 0, val |-> 0, key |-> 0]
    BY DEF Init
  <2> QED BY <2>1 DEF StatefulSet, Pod
<1>7. keySeen \in BOOLEAN /\ queued \in BOOLEAN
  BY Zenon DEF Init
<1>8. /\ mint = NoMint /\ view = NoMint /\ key = NoObject /\ conf = NoObject /\ dep = NoObject
      /\ confView = [live |-> FALSE, val |-> 0] /\ op = Idle /\ data = 0 /\ faults = 0
  BY DEF Init
<1> QED
  BY <1>1, <1>2, <1>3, <1>4, <1>5, <1>6, <1>7, <1>8 DEF TypeOK

\* A pass that ends leaves a well-typed worker.
LEMMA ReturnType ==
    ASSUME TypeOK, NEW requeue \in BOOLEAN, Return(requeue)
    PROVE  op' \in [pc : PCs, obj : Mint] /\ queued' \in BOOLEAN
BY DEF TypeOK, Return, Idle, NoMint, Mint, PCs

\* What a step writes is well typed.
LEMMA EffectType ==
    ASSUME TypeOK, NEW k \in Steps, NEW o \in Mint, Effect(k, o)
    PROVE  /\ key' \in Owned /\ pw' \in Secret /\ set' \in StatefulSet
           /\ conf' \in Owned /\ dep' \in Owned
<1>0. /\ o.uid \in Nat /\ key.val \in Nat /\ pw.val \in Nat
      /\ pwView.val \in Nat /\ confView.val \in Nat
  BY DEF TypeOK, Mint, Owned, Secret
<1>1. key' \in Owned
  BY <1>0 DEF Effect, TypeOK, MnemonicCreated, NewMnemonic, Owned
<1>2. pw' \in Secret
  BY <1>0 DEF Effect, TypeOK, PasswordCreated, NewPassword, Secret
<1>3. set' \in StatefulSet
  BY <1>0 DEF Effect, TypeOK, StatefulSet
<1>4. conf' \in Owned /\ dep' \in Owned
  BY <1>0 DEF Effect, TypeOK, Owned
<1> QED BY <1>1, <1>2, <1>3, <1>4

LEMMA TypeStep == TypeOK /\ [Next]_vars => TypeOK'
<1> SUFFICES ASSUME TypeOK, [Next]_vars PROVE TypeOK'
  OBVIOUS
<1> USE DEF secrets, caches, database
<1>0. /\ op.obj \in Mint /\ op.pc \in PCs /\ FALSE \in BOOLEAN /\ TRUE \in BOOLEAN
      /\ key.live \in BOOLEAN /\ [live |-> conf.live, val |-> conf.val] \in Secret
  BY DEF TypeOK, Owned, Secret
<1>1. CASE Reconcile
  <2>1. FirstStep(view) \in PCs
    BY DEF FirstStep, PCs, Steps
  <2> QED BY <1>1, <2>1 DEF Reconcile, TypeOK
<1>2. CASE AddFinalizer
  <2>1. mint' \in Mint
    BY <1>2 DEF AddFinalizer, TypeOK, Mint
  <2> QED BY <1>0, <1>2, <2>1, ReturnType DEF AddFinalizer, TypeOK
<1>3. CASE StepDone
  <2>1. op' \in [pc : PCs, obj : Mint] /\ queued' \in BOOLEAN
    <3>1. CASE op.pc = "deployment"
      BY <1>0, <1>3, <3>1, ReturnType DEF StepDone
    <3>2. CASE op.pc # "deployment"
      <4>1. Following(op.pc) \in PCs
        BY <1>3, <3>2 DEF StepDone, Following, Steps, PCs
      <4> QED BY <1>3, <3>2, <4>1 DEF StepDone, Goto, TypeOK
    <3> QED BY <3>1, <3>2
  <2> QED BY <1>0, <1>3, <2>1, EffectType DEF StepDone, TypeOK
<1>4. CASE StepNotReady
  BY <1>0, <1>4, ReturnType DEF StepNotReady, TypeOK
<1>5. CASE CleanupSecret
  <2>1. pw' \in Secret
    BY <1>5 DEF CleanupSecret, TypeOK, Secret
  <2>2. op' \in [pc : PCs, obj : Mint] /\ queued' \in BOOLEAN
    BY <1>5 DEF CleanupSecret, Goto, TypeOK, PCs
  <2> QED BY <1>5, <2>1, <2>2 DEF CleanupSecret, TypeOK
<1>6. CASE RemoveFinalizer
  <2>1. mint' \in Mint
    BY <1>6 DEF RemoveFinalizer, TypeOK, NoMint, Mint
  <2>2. (op.obj # mint) \in BOOLEAN
    OBVIOUS
  <2> QED BY <1>6, <2>1, <2>2, ReturnType DEF RemoveFinalizer, TypeOK
<1>7. ASSUME NEW landed \in BOOLEAN, StepFails(landed) PROVE TypeOK'
  <2>1. faults' \in Nat
    BY <1>7 DEF StepFails, Fault, TypeOK
  <2>2. op' \in [pc : PCs, obj : Mint] /\ queued' \in BOOLEAN
    BY <1>0, <1>7, ReturnType DEF StepFails
  <2>3. /\ key' \in Owned /\ pw' \in Secret /\ set' \in StatefulSet
        /\ conf' \in Owned /\ dep' \in Owned
    BY <1>0, <1>7, EffectType DEF StepFails, TypeOK
  <2> QED BY <1>7, <2>1, <2>2, <2>3 DEF StepFails, TypeOK
<1>8. CASE CallFails
  <2>1. faults' \in Nat
    BY <1>8 DEF CallFails, Fault, TypeOK
  <2> QED BY <1>0, <1>8, <2>1, ReturnType DEF CallFails, TypeOK
<1>9. CASE Restart
  <2>1. faults' \in Nat /\ op' \in [pc : PCs, obj : Mint]
    BY <1>9 DEF Restart, Fault, TypeOK, Idle, NoMint, Mint, PCs
  <2> QED BY <1>0, <1>9, <2>1 DEF Restart, TypeOK, caches
<1>10. CASE PodFails
  <2>1. faults' \in Nat
    BY <1>10 DEF PodFails, Fault, TypeOK
  <2>2. set' = set \/ set' = [set EXCEPT !.up = FALSE]
    BY <1>10 DEF PodFails
  <2>3. pod' = pod \/ pod' = [pod EXCEPT !.up = FALSE]
    BY <1>10 DEF PodFails
  <2>4. set' \in StatefulSet
    BY <2>2 DEF TypeOK, StatefulSet
  <2>5. pod' \in Pod
    BY <2>3 DEF TypeOK, Pod
  <2> QED BY <1>10, <2>1, <2>4, <2>5 DEF PodFails, TypeOK
<1>11. CASE SyncMint \/ SyncSecret
  BY <1>0, <1>11 DEF SyncMint, SyncSecret, TypeOK
<1>12. CASE SyncMnemonic \/ SyncConfigMap
  <2>1. confView' \in Secret /\ keySeen' \in BOOLEAN
    BY <1>0, <1>12 DEF SyncMnemonic, SyncConfigMap, TypeOK
  <2> QED BY <1>0, <1>12, <2>1 DEF SyncMnemonic, SyncConfigMap, TypeOK
<1>13. CASE PostgresStarts \/ MintStarts
  <2>1. data' \in Nat /\ set' \in StatefulSet /\ pod' \in Pod
    <3>1. CASE PostgresStarts
      BY <3>1 DEF PostgresStarts, TypeOK, StatefulSet, Secret
    <3>2. CASE MintStarts
      <4>1. dep.uid \in Nat /\ dep.val \in Nat /\ conf.val \in Nat /\ key.val \in Nat
        BY DEF TypeOK, Owned
      <4> QED BY <3>2, <4>1 DEF MintStarts, TypeOK, Pod
    <3> QED BY <1>13, <3>1, <3>2
  <2> QED BY <1>13, <2>1 DEF PostgresStarts, MintStarts, TypeOK
<1>14. CASE Collect
  <2>1. key' \in Owned /\ conf' \in Owned /\ dep' \in Owned /\ set' \in StatefulSet /\ pod' \in Pod
    BY <1>14 DEF Collect, TypeOK, Owned, StatefulSet, Pod
  <2> QED BY <1>14, <2>1 DEF Collect, TypeOK
<1>15. CASE UserCreates \/ UserDeletes
  <2>1. mint' \in Mint
    <3>1. mint.uid \in Nat /\ mint.uid + 1 \in Nat
      BY DEF TypeOK, Mint
    <3>2. CASE UserCreates
      BY <3>1, <3>2 DEF UserCreates, Mint
    <3>3. CASE UserDeletes
      BY <3>3 DEF UserDeletes, TypeOK, Mint
    <3> QED BY <1>15, <3>2, <3>3
  <2> QED BY <1>15, <2>1 DEF UserCreates, UserDeletes, TypeOK
<1>16. CASE UserSetsURL
  <2>1. pw' \in Secret /\ data' \in Nat
    BY <1>16 DEF UserSetsURL, TypeOK, Secret
  <2> QED BY <1>16, <2>1 DEF UserSetsURL, TypeOK
<1>17. CASE UNCHANGED vars
  BY <1>17 DEF vars, TypeOK
<1> QED
  BY <1>1, <1>2, <1>3, <1>4, <1>5, <1>6, <1>7, <1>8, <1>9, <1>10, <1>11, <1>12, <1>13,
     <1>14, <1>15, <1>16, <1>17 DEF Next, Operator, Informers, Failures, Users

\* Secrets, caches, pods and the worker keep their types.
THEOREM TypeCorrect == Spec => []TypeOK
BY TypeInit, TypeStep, PTL DEF Spec

---------------------------------------------------------------------------
(* The worker and the incarnations *)

\* Copy a of the mint was read no later than copy b.
Older(a, b) ==
    /\ a.uid <= b.uid
    /\ a.uid = b.uid /\ b.live => a.live /\ (a.fin => b.fin) /\ (a.del => b.del)

\* The worker's copy is no newer than the cache, and the cache no newer than
\* the API server.
CopyOrder ==
    /\ Older(view, mint) /\ Older(op.obj, view)
    /\ mint.live => mint.uid # 0
    /\ view.live => view.uid # 0

\* A copy that has the finalizer and was not asked to go is one of the stored
\* mint.
Held(o) == o.live /\ o.fin /\ ~o.del => mint.live /\ mint.fin /\ o.uid = mint.uid

\* Steps are taken only for a mint that has the finalizer, and the finalizer is
\* taken off only of one that was deleted: the mint a pass works for cannot
\* disappear behind it, whatever the cache shows.
WorkerCopy ==
    /\ Held(view) /\ Held(op.obj)
    /\ op.pc \in Steps => op.obj.live /\ op.obj.fin /\ ~op.obj.del
    /\ op.pc \in {"cleanup", "removeFinalizer"} => op.obj.live /\ op.obj.del

WorkerInv == TypeOK /\ CopyOrder /\ WorkerCopy

\* The types the proofs below need of the copies.
LEMMA CopyTypes ==
    ASSUME TypeOK
    PROVE  /\ mint \in Mint /\ view \in Mint /\ op.obj \in Mint
           /\ mint.uid \in Nat /\ view.uid \in Nat /\ op.obj.uid \in Nat
BY DEF TypeOK, Mint

\* A worker that is idle holds no copy.
LEMMA IdleFacts ==
    ASSUME TypeOK, op' = Idle
    PROVE  /\ op'.pc = "idle" /\ op'.obj.uid = 0 /\ ~op'.obj.live
           /\ \A v : v.uid \in Nat /\ (v.live => v.uid # 0) => Older(op'.obj, v)
           /\ op'.pc \notin Steps \cup {"cleanup", "removeFinalizer"}
BY DEF Idle, NoMint, Older, Steps

\* A pass ends, or the process is restarted; only the cache may have changed.
LEMMA IdleStep ==
    ASSUME WorkerInv, TypeOK', op' = Idle, UNCHANGED mint, view' \in {view, mint}
    PROVE  WorkerInv'
<1>1. TypeOK /\ mint.uid \in Nat /\ view.uid \in Nat
  BY CopyTypes DEF WorkerInv
<1>2. CopyOrder'
  BY <1>1, IdleFacts DEF WorkerInv, CopyOrder, Older
<1>3. WorkerCopy'
  BY <1>1, IdleFacts DEF WorkerInv, WorkerCopy, Held
<1> QED BY <1>2, <1>3 DEF WorkerInv

\* A pass goes on with the same copy.
LEMMA GotoStep ==
    ASSUME WorkerInv, TypeOK', UNCHANGED <<mint, view>>, op'.obj = op.obj,
           op'.pc \in Steps => op.pc \in Steps,
           op'.pc \in {"cleanup", "removeFinalizer"} => op.pc \in {"cleanup", "removeFinalizer"}
    PROVE  WorkerInv'
BY DEF WorkerInv, CopyOrder, WorkerCopy, Held, Older

\* What the first look at a copy leads to.
LEMMA FirstStepFacts ==
    ASSUME NEW o \in Mint
    PROVE  /\ FirstStep(o) \in Steps => o.live /\ o.fin /\ ~o.del
           /\ FirstStep(o) \in {"cleanup", "removeFinalizer"} => o.live /\ o.del
BY DEF FirstStep, Steps, Mint

\* No step lets the mint that a pass works for disappear.
LEMMA WorkerStep == WorkerInv /\ [Next]_vars => WorkerInv'
<1> SUFFICES ASSUME WorkerInv, [Next]_vars PROVE WorkerInv'
  OBVIOUS
<1> USE DEF secrets, caches, database
<1>0. TypeOK /\ TypeOK'
  BY TypeStep DEF WorkerInv
<1>1. /\ mint \in Mint /\ view \in Mint /\ op.obj \in Mint
      /\ mint.uid \in Nat /\ view.uid \in Nat /\ op.obj.uid \in Nat
      /\ op = [pc |-> op.pc, obj |-> op.obj]
  BY <1>0, CopyTypes DEF TypeOK
<1>2. CASE UNCHANGED <<mint, view, op>>
  BY <1>0, <1>2, GotoStep
<1>3. CASE Reconcile
  <2>1. UNCHANGED <<mint, view>> /\ op'.obj = view /\ op'.pc = FirstStep(view)
    BY <1>3 DEF Reconcile
  <2>2. CopyOrder'
    BY <1>1, <2>1 DEF WorkerInv, CopyOrder, Older
  <2>3. WorkerCopy'
    BY <1>1, <2>1, FirstStepFacts DEF WorkerInv, WorkerCopy, Held
  <2> QED BY <1>0, <2>2, <2>3 DEF WorkerInv
<1>4. CASE AddFinalizer
  <2>1. op' = Idle /\ view' = view
    BY <1>4 DEF AddFinalizer, Return
  <2>2. CASE mint' = mint
    BY <1>0, <2>1, <2>2, IdleStep
  <2>3. CASE mint' # mint
    <3>1. mint' = [mint EXCEPT !.fin = TRUE]
      BY <1>4, <2>3 DEF AddFinalizer
    <3>2. mint'.uid = mint.uid /\ mint'.live = mint.live /\ mint'.del = mint.del /\ mint'.fin
      BY <1>1, <3>1 DEF Mint
    <3>3. CopyOrder'
      BY <1>0, <1>1, <2>1, <3>2, IdleFacts DEF WorkerInv, CopyOrder, Older
    <3>4. WorkerCopy'
      BY <1>0, <2>1, <3>2, IdleFacts DEF WorkerInv, WorkerCopy, Held
    <3> QED BY <1>0, <3>3, <3>4 DEF WorkerInv
  <2> QED BY <2>2, <2>3
<1>5. CASE StepDone
  <2>1. UNCHANGED <<mint, view>> /\ op.pc \in Steps
    BY <1>5 DEF StepDone
  <2>2. CASE op.pc = "deployment"
    BY <1>0, <1>5, <2>1, <2>2, IdleStep DEF StepDone, Return
  <2>3. CASE op.pc # "deployment"
    <3>1. op'.pc = Following(op.pc) /\ op'.obj = op.obj
      BY <1>0, <1>5, <2>3 DEF StepDone, Goto, TypeOK
    <3>2. Following(op.pc) \notin {"cleanup", "removeFinalizer"}
      BY <2>1, <2>3 DEF Following, Steps
    <3> QED BY <1>0, <2>1, <3>1, <3>2, GotoStep
  <2> QED BY <2>2, <2>3
<1>6. CASE StepNotReady \/ CallFails
  BY <1>0, <1>6, IdleStep DEF StepNotReady, CallFails, Return
<1>7. ASSUME NEW landed \in BOOLEAN, StepFails(landed) PROVE WorkerInv'
  BY <1>0, <1>7, IdleStep DEF StepFails, Return
<1>8. CASE CleanupSecret
  <2>1. UNCHANGED <<mint, view>> /\ op.pc = "cleanup"
    BY <1>8 DEF CleanupSecret
  <2>2. op'.pc = "removeFinalizer" /\ op'.obj = op.obj
    BY <1>0, <1>8 DEF CleanupSecret, Goto, TypeOK
  <2>3. "removeFinalizer" \notin Steps
    BY DEF Steps
  <2> QED BY <1>0, <2>1, <2>2, <2>3, GotoStep
<1>9. CASE RemoveFinalizer
  <2>1. op' = Idle /\ view' = view /\ op.pc = "removeFinalizer"
    BY <1>9 DEF RemoveFinalizer, Return
  <2>2. CASE mint' = mint
    BY <1>0, <2>1, <2>2, IdleStep
  <2>3. CASE mint' # mint
    <3>1. op.obj = mint /\ mint' = [NoMint EXCEPT !.uid = mint.uid]
      BY <1>9, <2>3 DEF RemoveFinalizer
    <3>2. mint'.uid = mint.uid /\ ~mint'.live
      BY <3>1 DEF NoMint
    <3>3. mint.live /\ mint.del
      BY <2>1, <3>1 DEF WorkerInv, WorkerCopy
    <3>4. view.uid = mint.uid
      BY <1>1, <3>1 DEF WorkerInv, CopyOrder, Older
    <3>5. view.live => view.del
      BY <3>1, <3>3, <3>4 DEF WorkerInv, CopyOrder, Older
    <3>6. CopyOrder'
      BY <1>0, <1>1, <2>1, <3>2, IdleFacts DEF WorkerInv, CopyOrder, Older
    <3>7. WorkerCopy'
      BY <1>0, <2>1, <3>5, IdleFacts DEF WorkerCopy, Held
    <3> QED BY <1>0, <3>6, <3>7 DEF WorkerInv
  <2> QED BY <2>2, <2>3
<1>10. CASE Restart
  BY <1>0, <1>10, IdleStep DEF Restart
<1>11. CASE SyncMint
  <2>1. UNCHANGED <<mint, op>> /\ view' = mint
    BY <1>11 DEF SyncMint
  <2>2. Older(op.obj, mint)
    BY <1>1 DEF WorkerInv, CopyOrder, Older
  <2>3. CopyOrder'
    BY <1>1, <2>1, <2>2 DEF WorkerInv, CopyOrder, Older
  <2>4. WorkerCopy'
    BY <2>1 DEF WorkerInv, WorkerCopy, Held
  <2> QED BY <1>0, <2>3, <2>4 DEF WorkerInv
<1>12. CASE UserCreates
  <2>1. /\ UNCHANGED <<view, op>> /\ ~mint.live
        /\ mint' = [uid |-> mint.uid + 1, live |-> TRUE, fin |-> FALSE, del |-> FALSE]
    BY <1>12 DEF UserCreates
  <2>2. mint'.uid = mint.uid + 1
    BY <2>1
  <2>3. CopyOrder'
    BY <1>1, <2>1, <2>2 DEF WorkerInv, CopyOrder, Older
  <2>4. WorkerCopy'
    BY <2>1 DEF WorkerInv, WorkerCopy, Held
  <2> QED BY <1>0, <2>3, <2>4 DEF WorkerInv
<1>13. CASE UserDeletes
  <2>1. UNCHANGED <<view, op>> /\ mint.live /\ ~mint.del
    BY <1>13 DEF UserDeletes
  <2>2. CASE mint.fin
    <3>1. mint' = [mint EXCEPT !.del = TRUE]
      BY <1>13, <2>2 DEF UserDeletes
    <3>2. mint'.uid = mint.uid /\ mint'.live /\ mint'.fin /\ mint'.del
      BY <1>1, <2>1, <2>2, <3>1 DEF Mint
    <3> QED BY <1>0, <1>1, <2>1, <2>2, <3>2 DEF WorkerInv, CopyOrder, Older, WorkerCopy, Held
  <2>3. CASE ~mint.fin
    <3>1. mint' = [mint EXCEPT !.live = FALSE]
      BY <1>13, <2>3 DEF UserDeletes
    <3>2. mint'.uid = mint.uid /\ ~mint'.live
      BY <1>1, <3>1 DEF Mint
    <3> QED BY <1>0, <1>1, <2>1, <2>3, <3>2 DEF WorkerInv, CopyOrder, Older, WorkerCopy, Held
  <2> QED BY <2>2, <2>3
<1>14. CASE SyncMnemonic \/ SyncSecret \/ SyncConfigMap \/ PodFails \/ UserSetsURL
            \/ PostgresStarts \/ MintStarts \/ Collect \/ UNCHANGED vars
  BY <1>2, <1>14 DEF SyncMnemonic, SyncSecret, SyncConfigMap, PodFails, UserSetsURL,
                     PostgresStarts, MintStarts, Collect, vars
<1> QED
  BY <1>3, <1>4, <1>5, <1>6, <1>7, <1>8, <1>9, <1>10, <1>11, <1>12, <1>13, <1>14
     DEF Next, Operator, Informers, Failures, Users

---------------------------------------------------------------------------
(* The key *)

\* What is there belongs to the last mint of the name: true only of patient
\* users.
OwnObjects == /\ key.live => key.uid = mint.uid
              /\ dep.live => dep.uid = mint.uid

\* A mint whose pod has started once has its Secret, with the phrase the pod
\* started with.
PodKey == /\ pod.uid <= mint.uid
          /\ mint.live /\ pod.uid = mint.uid => key.live /\ pod.key = key.val

KeyInv == WorkerInv /\ OwnObjects /\ PodKey

\* Steps that touch none of the objects the key passes through, for a mint that
\* does not come back to life.
LEMMA KeyNoise ==
    ASSUME KeyInv, WorkerInv', UNCHANGED <<key, dep>>, pod'.uid = pod.uid, pod'.key = pod.key,
           mint'.uid = mint.uid, mint'.live => mint.live
    PROVE  KeyInv'
BY DEF KeyInv, OwnObjects, PodKey

\* A step of a pass: the phrase is drawn only if there is none, for the mint
\* that is there.
LEMMA KeyEffect ==
    ASSUME KeyInv, WorkerInv', op.pc \in Steps, Effect(op.pc, op.obj), UNCHANGED <<mint, pod>>
    PROVE  KeyInv'
<1>1. /\ key \in Owned /\ dep \in Owned /\ op.obj.uid = mint.uid /\ mint.live
      /\ key.live \in BOOLEAN
  BY DEF KeyInv, WorkerInv, TypeOK, WorkerCopy, Held, Owned
<1>2. \/ key' = key
      \/ ~key.live /\ key' = [uid |-> op.obj.uid, live |-> TRUE, val |-> key.val + 1]
  BY DEF Effect, MnemonicCreated, NewMnemonic
<1>3. dep' = dep \/ dep' = [uid |-> op.obj.uid, live |-> TRUE, val |-> confView.val]
  BY DEF Effect
<1>4. OwnObjects'
  BY <1>1, <1>2, <1>3 DEF KeyInv, OwnObjects
<1>5. PodKey'
  BY <1>1, <1>2 DEF KeyInv, PodKey
<1> QED BY <1>4, <1>5 DEF KeyInv

\* A pod starts with the phrase of the mint that is there.
LEMMA KeyStart ==
    ASSUME KeyInv, WorkerInv', MintStarts
    PROVE  /\ KeyInv'
           /\ mint.live /\ pod.uid = mint.uid => pod'.key = pod.key
<1>1. /\ dep.live /\ key.live /\ UNCHANGED <<mint, key, dep>>
      /\ pod' = [up |-> TRUE, uid |-> dep.uid, hash |-> dep.val,
                 val |-> conf.val, key |-> key.val]
  BY DEF MintStarts, secrets
<1>2. pod'.uid = mint.uid /\ pod'.key = key.val
  BY <1>1 DEF KeyInv, OwnObjects
<1>3. mint.uid \in Nat
  BY CopyTypes DEF KeyInv, WorkerInv
<1> QED BY <1>1, <1>2, <1>3 DEF KeyInv, OwnObjects, PodKey

\* The garbage collector takes no object of a mint that is there.
LEMMA KeyCollect ==
    ASSUME KeyInv, WorkerInv', Collect
    PROVE  /\ KeyInv'
           /\ pod'.key = pod.key
<1>1. key \in Owned /\ dep \in Owned /\ pod \in Pod
  BY DEF KeyInv, WorkerInv, TypeOK
<1>2. UNCHANGED mint /\ pod'.uid = pod.uid /\ pod'.key = pod.key
  BY <1>1 DEF Collect, Pod
<1>3. /\ key' = key \/ (Orphan(key) /\ ~key'.live /\ key'.val = key.val)
      /\ dep' = dep \/ ~dep'.live
  BY <1>1 DEF Collect, Owned
<1>4. Orphan(key) => ~mint.live
  BY DEF KeyInv, OwnObjects, Orphan
<1>5. OwnObjects'
  BY <1>2, <1>3 DEF KeyInv, OwnObjects
<1>6. PodKey'
  BY <1>2, <1>3, <1>4 DEF KeyInv, PodKey
<1> QED BY <1>2, <1>5, <1>6 DEF KeyInv

\* A name is given to a new mint when nothing of the last one is left.
LEMMA KeyCreate ==
    ASSUME Patient, KeyInv, WorkerInv', UserCreates
    PROVE  KeyInv'
<1>1. /\ ~key.live /\ ~dep.live /\ UNCHANGED <<key, dep, pod>>
      /\ mint' = [uid |-> mint.uid + 1, live |-> TRUE, fin |-> FALSE, del |-> FALSE]
  BY DEF UserCreates, Collected, secrets
<1>2. mint.uid \in Nat /\ pod.uid \in Nat /\ mint'.uid = mint.uid + 1
  BY <1>1, CopyTypes DEF KeyInv, WorkerInv, TypeOK, Pod
<1>3. pod.uid # mint'.uid /\ pod.uid <= mint'.uid
  BY <1>2 DEF KeyInv, PodKey
<1> QED BY <1>1, <1>3 DEF KeyInv, OwnObjects, PodKey

\* Every step keeps the invariant and the key of a pod that was started for the
\* mint that is there.
LEMMA KeyStep ==
    ASSUME Patient
    PROVE  KeyInv /\ [Next]_vars =>
              /\ KeyInv'
              /\ mint.live /\ pod.uid = mint.uid /\ pod'.uid = pod.uid => pod'.key = pod.key
<1> SUFFICES ASSUME KeyInv, [Next]_vars
             PROVE  /\ KeyInv'
                    /\ mint.live /\ pod.uid = mint.uid /\ pod'.uid = pod.uid =>
                          pod'.key = pod.key
  OBVIOUS
<1> USE DEF secrets, caches, database
<1>0. WorkerInv' /\ mint \in Mint /\ pod \in Pod /\ (op.pc \in Steps => op.obj \in Mint)
  BY WorkerStep DEF KeyInv, WorkerInv, TypeOK
<1>1. CASE UNCHANGED <<mint, key, dep, pod>>
  BY <1>0, <1>1, KeyNoise
<1>2. CASE StepDone
  BY <1>0, <1>2, KeyEffect DEF StepDone
<1>3. ASSUME NEW landed \in BOOLEAN, StepFails(landed)
      PROVE  KeyInv' /\ pod' = pod
  BY <1>0, <1>1, <1>3, KeyEffect DEF StepFails
<1>4. CASE AddFinalizer \/ RemoveFinalizer \/ UserDeletes
  <2>1. UNCHANGED <<key, dep, pod>>
    BY <1>4 DEF AddFinalizer, RemoveFinalizer, UserDeletes
  <2>2. mint'.uid = mint.uid /\ (mint'.live => mint.live)
    BY <1>0, <1>4 DEF AddFinalizer, RemoveFinalizer, UserDeletes, Mint, NoMint
  <2> QED BY <1>0, <2>1, <2>2, KeyNoise
<1>5. CASE MintStarts
  BY <1>0, <1>5, KeyStart
<1>6. CASE Collect
  BY <1>0, <1>6, KeyCollect
<1>7. CASE UserCreates
  BY <1>0, <1>7, KeyCreate DEF UserCreates
<1>8. CASE PodFails
  <2>1. UNCHANGED <<mint, key, dep>> /\ pod'.uid = pod.uid /\ pod'.key = pod.key
    BY <1>0, <1>8 DEF PodFails, Pod
  <2> QED BY <1>0, <2>1, KeyNoise
<1>9. CASE Reconcile \/ StepNotReady \/ CleanupSecret \/ CallFails \/ Restart
  BY <1>1, <1>9 DEF Reconcile, StepNotReady, CleanupSecret, CallFails, Restart
<1>10. CASE Informers \/ PostgresStarts \/ UserSetsURL \/ UNCHANGED vars
  BY <1>1, <1>10 DEF Informers, SyncMint, SyncMnemonic, SyncSecret, SyncConfigMap,
                     PostgresStarts, UserSetsURL, vars
<1> QED
  BY <1>2, <1>3, <1>4, <1>5, <1>6, <1>7, <1>8, <1>9, <1>10 DEF Next, Operator, Failures, Users

\* A mint never changes the phrase it signs with, over any number of failures,
\* restarts, lost pods and re-creations of its name, if users wait for the
\* garbage collector before they use a name again.
THEOREM KeyCorrect ==
    ASSUME Patient
    PROVE  Spec => KeyStable
<1>1. Init => KeyInv
  <2> SUFFICES ASSUME Init PROVE KeyInv
    OBVIOUS
  <2>1. /\ mint = NoMint /\ view = NoMint /\ key = NoObject /\ dep = NoObject /\ op = Idle
        /\ pod = [up |-> FALSE, uid |-> 0, hash |-> 0, val |-> 0, key |-> 0]
    BY DEF Init
  <2>2. /\ mint.uid = 0 /\ ~mint.live /\ view.uid = 0 /\ ~view.live /\ ~key.live /\ ~dep.live
        /\ op.pc = "idle" /\ op.obj.uid = 0 /\ ~op.obj.live /\ pod.uid = 0
    BY <2>1 DEF NoMint, NoObject, Idle
  <2>3. CopyOrder /\ WorkerCopy
    BY <2>2 DEF CopyOrder, Older, WorkerCopy, Held, Steps
  <2> QED BY <2>2, <2>3, TypeInit DEF KeyInv, WorkerInv, OwnObjects, PodKey
<1>2. KeyInv /\ [Next]_vars => KeyInv'
  BY KeyStep
<1>3. KeyInv /\ [Next]_vars =>
        [mint.live /\ pod.uid = mint.uid /\ pod'.uid = pod.uid => pod'.key = pod.key]_vars
  BY KeyStep
<1> QED
  BY <1>1, <1>2, <1>3, PTL DEF Spec, KeyStable
=============================================================================
