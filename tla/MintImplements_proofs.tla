----------------------- MODULE MintImplements_proofs -----------------------
(***************************************************************************)
(* CashuMintReconciler implements MintContract, for every set of specs and *)
(* every bound: the initial states map to initial states and every step to *)
(* a step of the contract or to none.                                      *)
(***************************************************************************)
EXTENDS MintImplements, CashuMintReconciler_proofs

---------------------------------------------------------------------------
(* The two sides in the same words *)

\* The contract speaks of the same kinds, generators and features.
LEMMA SameObjects ==
    /\ Contract!Kinds = Kinds /\ Contract!CreateOnce = CreateOnce
    /\ Contract!Features = Features
    /\ \A k, o : Contract!Wanted(k, o) <=> Wanted(k, o)
<1>1. Contract!Kinds = Kinds
  BY DEF Contract!Kinds, Contract!Position, Kinds, Position
<1>2. \A k, o : Contract!Wanted(k, o) <=> Wanted(k, o)
  BY DEF Contract!Wanted, Wanted
<1> QED
  BY <1>1, <1>2 DEF Contract!CreateOnce, CreateOnce, Contract!Features, Features

\* The generated objects never look at what the contract leaves out of a mint.
LEMMA SameNeeds ==
    \A k \in Contract!Needed :
        k \in Applied /\ k \in Kinds /\ k # "restoreJob" /\ Wanted(k, mint)
<1>1. \A k : k # "restoreJob" => (Wanted(k, declaredMint) <=> Wanted(k, mint))
  BY WantedSpec DEF declaredMint
<1> QED
  BY <1>1, SameObjects DEF Contract!Needed, Applied

\* What an absent mint and a new one look like; a present one has a generation.
Numbered == IF mint.uid = 0 THEN mint = NoMint ELSE mint.gen > 0

---------------------------------------------------------------------------
(* The steps of the contract, in terms of the reconciler's variables *)

\* A step a client cannot see.
LEMMA Unseen ==
    ASSUME UNCHANGED mint, SameStamps
    PROVE  UNCHANGED Contract!vars
<1>1. declaredMint' = declaredMint /\ readyClaim' = readyClaim
  BY DEF declaredMint, readyClaim
<1>2. lastWrites' = lastWrites
  BY DEF lastWrites, SameStamps
<1> QED BY <1>1, <1>2 DEF Contract!vars

\* A new mint under the name: nothing was written for it yet.
LEMMA DeclareStep ==
    ASSUME IInv, TypeOK', Numbered, mint.uid = 0, mint'.uid = lastUid + 1, mint'.gen = 1,
           ~mint'.fin, mint'.status = NewStatus, child' = child
    PROVE  Contract!Declare
<1>1. declaredMint' \in Contract!Declared
  BY SameObjects DEF declaredMint, TypeOK, Mint, Contract!Declared
<1>2. readyClaim' = readyClaim
  <2>1. mint.status = NewStatus
    BY DEF Numbered, NoMint
  <2>2. NewStatus.cond["Ready"].st # "True"
    BY DEF NewStatus, CondTypes
  <2> QED BY <2>1, <2>2 DEF readyClaim
<1>3. \A k \in Kinds : child[k].uid < mint'.uid
  BY DEF IInv, TypeOK, Child, UidOrder
<1>4. \A k \in Contract!Kinds : lastWrites[k].uid < declaredMint'.uid
  BY <1>3, SameObjects DEF lastWrites, declaredMint
<1>5. lastWrites' = lastWrites
  BY DEF lastWrites
<1> QED BY <1>1, <1>2, <1>4, <1>5 DEF Contract!Declare, declaredMint

\* Users' edits and deletion requests, and the operator's finalizer.
LEMMA AmendStep ==
    ASSUME TypeOK', mint.uid # 0, mint'.uid = mint.uid, mint'.status = mint.status,
           mint.fin => mint'.fin, child' = child,
           mint'.gen = mint.gen + 1 \/ (mint'.gen = mint.gen /\ mint'.spec = mint.spec)
    PROVE  Contract!Amend
<1>1. declaredMint' \in Contract!Declared
  BY SameObjects DEF declaredMint, TypeOK, Mint, Contract!Declared
<1>2. readyClaim' = readyClaim /\ lastWrites' = lastWrites
  BY DEF readyClaim, lastWrites
<1> QED BY <1>1, <1>2 DEF Contract!Amend, declaredMint

\* The mint disappears, and its Ready condition with it.
LEMMA WithdrawStep ==
    ASSUME mint.uid # 0, mint' = NoMint, child' = child
    PROVE  Contract!Withdraw
<1>1. declaredMint' = Contract!Nothing
  BY DEF declaredMint, NoMint, Contract!Nothing
<1>2. readyClaim' = 0
  BY DEF readyClaim, NoMint, NewStatus, CondTypes
<1> QED BY <1>1, <1>2 DEF Contract!Withdraw, declaredMint, lastWrites

\* A status write: what it claims is backed, because the invariant holds of
\* the state it leads to.
LEMMA ReportStep ==
    ASSUME IInv, IInv', Numbered, mint.uid # 0, SameStamps, mint'.uid = mint.uid,
           mint'.gen = mint.gen, mint'.spec = mint.spec, mint'.fin = mint.fin
    PROVE  Contract!Next
<1> DEFINE g == readyClaim'
<1>1. mint'.status.cond["Ready"].og \in Nat /\ mint'.status.cond["Ready"] \in Condition /\ mint.gen \in Nat
  BY DEF IInv, TypeOK, Mint, Status, Condition, CondTypes
<1>2. Backed(mint.status)'
  BY DEF IInv, StatusBacked
<1>3. g \in 0..mint.gen
  BY <1>1, <1>2 DEF Backed, readyClaim
<1>4. ASSUME g = mint.gen
      PROVE  mint'.status.cond["Ready"] = [st |-> "True", og |-> mint'.gen]
  BY <1>1, <1>4 DEF readyClaim, Numbered, Condition
<1>5. ASSUME g = mint.gen, NEW k \in Contract!Needed
      PROVE  Contract!Current(k)
  <2>1. k \in Applied /\ k \in Kinds /\ k # "restoreJob" /\ Wanted(k, mint)
    BY SameNeeds
  <2>2. Wanted(k, mint')
    BY <2>1, WantedSpec
  <2>3. child'[k].uid = mint'.uid /\ child'[k].gen = mint'.gen
    BY <1>2, <1>4, <1>5, <2>1, <2>2 DEF Backed
  <2>4. child[k].uid = mint.uid /\ child[k].gen = mint.gen
    BY <2>1, <2>3 DEF SameStamps
  <2> QED BY <2>1, <2>4 DEF Contract!Current, lastWrites, declaredMint
<1>6. lastWrites' = lastWrites /\ declaredMint' = declaredMint
  BY DEF lastWrites, SameStamps, declaredMint
<1>7. Contract!Report(g)
  BY <1>5, <1>6 DEF Contract!Report, declaredMint
<1> HIDE DEF g
<1> QED BY <1>3, <1>7 DEF Contract!Next, declaredMint

\* A step of a reconcile writes its object from the worker's copy, whose
\* generation lies between the object's and the mint's; when the Deployment
\* becomes current its inputs are.
LEMMA ApplyStep ==
    ASSUME IInv, IInv', op.pc = "resources", NEW k \in Kinds, Write(k, op.obj), UNCHANGED mint
    PROVE  Contract!Next \/ UNCHANGED Contract!vars
<1> DEFINE g == op.obj.gen
<1>0. Working
  BY DEF Working
<1>1. /\ op.obj \in Mint /\ op.obj.uid = mint.uid /\ mint.uid # 0 /\ mint.fin
      /\ g \in Nat /\ mint.gen \in Nat /\ g <= mint.gen
      /\ child[k].gen \in Nat /\ (child[k].uid = mint.uid => child[k].gen <= g)
  BY <1>0, WorkingFacts
<1>2. /\ \A j \in Kinds : j # k => child'[j] = child[j]
      /\ \/ child'[k].uid = child[k].uid /\ child'[k].gen = child[k].gen
         \/ child'[k].uid = mint.uid /\ child'[k].gen = g
  BY <1>1, WriteFacts DEF IInv
<1>3. CASE SameStamps
  BY <1>3, Unseen
<1>4. CASE child'[k].uid = mint.uid /\ child'[k].gen = g
  <2>1. lastWrites' = [lastWrites EXCEPT ![k] = [uid |-> mint.uid, gen |-> g]]
    BY <1>2, <1>4 DEF lastWrites
  <2>2. ASSUME k = "deployment", g = mint.gen, NEW i \in Contract!Inputs \cap Contract!Needed
        PROVE  Contract!Current(i)
    <3>1. i \in Kinds /\ Wanted(i, mint) /\ i # "deployment"
          /\ i \in {"configMap", "pvc", "orchardPVC", "pgStatefulSet"}
      BY SameNeeds DEF Contract!Inputs
    <3>2. child'[i].uid = mint.uid /\ child'[i].gen = mint.gen
      BY <1>1, <1>4, <2>2, <3>1 DEF IInv, DeploymentAfterInputs
    <3>3. child[i].uid = mint.uid /\ child[i].gen = mint.gen
      BY <1>2, <2>2, <3>1, <3>2
    <3> QED BY <3>1, <3>3 DEF Contract!Current, lastWrites, declaredMint
  <2>3. UNCHANGED <<declaredMint, readyClaim>>
    BY DEF declaredMint, readyClaim
  <2>4. lastWrites[k].uid = declaredMint.uid => g >= lastWrites[k].gen
    BY <1>1 DEF lastWrites, declaredMint
  <2>5. Contract!Apply(k, g)
    BY <1>1, <2>1, <2>2, <2>3, <2>4 DEF Contract!Apply, declaredMint
  <2>6. g \in 0..declaredMint.gen /\ k \in Contract!Kinds
    BY <1>1, SameObjects DEF declaredMint
  <2> HIDE DEF g
  <2> QED BY <2>5, <2>6 DEF Contract!Next
<1> QED BY <1>2, <1>3, <1>4 DEF SameStamps

---------------------------------------------------------------------------
(* Every step of the reconciler is one of these *)

\* The fields of the mint that only users and the finalizer change.
SameDeclaration ==
    mint'.uid = mint.uid /\ mint'.gen = mint.gen /\ mint'.spec = mint.spec /\ mint'.fin = mint.fin

\* The steps a client can tell apart.
Visible ==
    \/ UNCHANGED mint /\ SameStamps
    \/ mint.uid # 0 /\ SameDeclaration /\ child' = child
    \/ UNCHANGED mint /\ \E k \in Kinds : op.pc = "resources" /\ Write(k, op.obj)
    \/ /\ mint.uid = 0 /\ mint'.uid = lastUid + 1 /\ mint'.gen = 1 /\ ~mint'.fin
       /\ mint'.status = NewStatus /\ child' = child
    \/ /\ mint.uid # 0 /\ mint'.uid = mint.uid /\ mint'.status = mint.status
       /\ mint.fin => mint'.fin
       /\ mint'.gen = mint.gen + 1 \/ (mint'.gen = mint.gen /\ mint'.spec = mint.spec)
       /\ child' = child
    \/ mint.uid # 0 /\ mint' = NoMint /\ child' = child

\* The worker's own steps: it writes one object, or the status, or the
\* finalizer of the mint it holds.
LEMMA OperatorVisible == TypeOK /\ Operator => Visible
<1> SUFFICES ASSUME TypeOK, Operator PROVE Visible
  OBVIOUS
<1> USE DEF cluster, caches, counters
<1>0. mint \in Mint /\ child \in [Kinds -> Child]
  BY DEF TypeOK
<1>1. ASSUME NEW k \in Kinds, NEW up \in BOOLEAN, StepDone(k, up) PROVE Visible
  BY <1>1 DEF StepDone, Visible
<1>2. CASE CleanupSecret
  <2>1. SameStamps
    BY <1>0, <1>2, KindNames DEF CleanupSecret, Child, SameStamps
  <2> QED BY <1>2, <2>1 DEF CleanupSecret, Visible
<1>3. CASE AddFinalizer
  <2>1. mint' = mint \/ (mint.uid # 0 /\ mint' = [mint EXCEPT !.fin = TRUE])
    BY <1>0, <1>3, FinalizerWrite
  <2>2. child' = child
    BY <1>3 DEF AddFinalizer
  <2> QED BY <1>0, <2>1, <2>2 DEF Visible, Mint, SameStamps
<1>4. CASE InitStatus \/ HandleError \/ \E lb \in BOOLEAN : UpdateStatus(lb)
  <2>1. child' = child
    BY <1>4 DEF InitStatus, HandleError, UpdateStatus
  <2>2. mint' = mint \/ (mint.uid # 0 /\ SameDeclaration)
    <3>1. CASE InitStatus
      BY <1>0, <3>1 DEF InitStatus, LockHolds, SameDeclaration, Mint
    <3>2. CASE HandleError
      BY <1>0, <3>2 DEF HandleError, LockHolds, SameDeclaration, Mint
    <3>3. ASSUME NEW lb \in BOOLEAN, UpdateStatus(lb)
          PROVE  mint' = mint \/ (mint.uid # 0 /\ SameDeclaration)
      <4>1. PICK t : mint' = IF LockHolds(view) THEN [mint EXCEPT !.status = t] ELSE mint
        BY <3>3 DEF UpdateStatus
      <4> QED BY <1>0, <4>1 DEF LockHolds, SameDeclaration, Mint
    <3> QED BY <1>4, <3>1, <3>2, <3>3
  <2> QED BY <2>1, <2>2 DEF Visible, SameStamps
<1>5. CASE RemoveFinalizer
  BY <1>5 DEF RemoveFinalizer, LockHolds, Visible, SameStamps
<1>6. CASE Reconcile \/ UpdateReadiness \/ \E k \in Kinds : StepNotReady(k) \/ StepRejected(k)
  <2>1. mint' = mint /\ child' = child
    BY <1>6 DEF Reconcile, UpdateReadiness, StepNotReady, StepRejected
  <2> QED BY <2>1 DEF Visible, SameStamps
<1> QED BY <1>1, <1>2, <1>3, <1>4, <1>5, <1>6 DEF Operator

\* Everybody else's steps.
LEMMA OthersVisible ==
    TypeOK /\ (Failures \/ Informers \/ Cluster \/ User \/ UNCHANGED vars) => Visible
<1> SUFFICES ASSUME TypeOK, Failures \/ Informers \/ Cluster \/ User \/ UNCHANGED vars
             PROVE  Visible
  OBVIOUS
<1> USE DEF cluster, caches, counters
<1>0. mint \in Mint /\ child \in [Kinds -> Child] /\ mint.gen \in Nat
  BY DEF TypeOK, Mint
<1>1. ASSUME mint' = mint, child' = child PROVE Visible
  BY <1>1 DEF Visible, SameStamps
<1>2. CASE Failures
  <2>1. ASSUME NEW k \in Kinds, ChildLost(k) PROVE Visible
    <3>1. SameStamps
      BY <1>0, <2>1 DEF ChildLost, Child, SameStamps
    <3> QED BY <2>1, <3>1 DEF ChildLost, Visible
  <2>2. ASSUME NEW k \in Kinds, NEW landed \in BOOLEAN, NEW class \in {"retried", "other"},
               StepFails(k, landed, class)
        PROVE  Visible
    <3>1. mint' = mint /\ (child' = child \/ (op.pc = "resources" /\ Write(k, op.obj)))
      BY <2>2 DEF StepFails
    <3> QED BY <1>1, <3>1 DEF Visible
  <2>3. CASE CallFails \/ Restart \/ PodFails
    BY <1>1, <2>3 DEF CallFails, Restart, PodFails
  <2> QED BY <1>2, <2>1, <2>2, <2>3 DEF Failures
<1>3. CASE Informers
  BY <1>1, <1>3 DEF Informers, SyncMint, SyncDeployment, SyncChild
<1>4. CASE Cluster
  <2>1. ASSUME NEW K \in Batches, GarbageCollect(K) PROVE Visible
    <3>1. SameStamps
      BY <1>0, <2>1 DEF GarbageCollect, Child, SameStamps
    <3> QED BY <2>1, <3>1 DEF GarbageCollect, Visible
  <2> QED BY <1>1, <1>4, <2>1 DEF Cluster, DeploymentObserves, DeploymentAvailable
<1>5. CASE User
  <2>1. ASSUME NEW s \in Specs, UserCreates(s) PROVE Visible
    <3> PICK u \in Nat : u = lastUid + 1
      BY DEF TypeOK
    <3>1. mint' = [NoMint EXCEPT !.uid = u, !.gen = 1, !.spec = s] /\ child' = child /\ mint.uid = 0
      BY <2>1 DEF UserCreates
    <3>2. mint'.uid = u /\ mint'.gen = 1 /\ ~mint'.fin /\ mint'.status = NewStatus
      BY <3>1 DEF NoMint
    <3> QED BY <3>1, <3>2 DEF Visible
  <2>2. ASSUME NEW s \in Specs, UserEdits(s) PROVE Visible
    <3> PICK g \in Nat : g = mint.gen + 1
      BY <1>0
    <3>1. mint' = [mint EXCEPT !.spec = s, !.gen = g] /\ child' = child /\ mint.uid # 0
      BY <2>2 DEF UserEdits
    <3>2. mint'.uid = mint.uid /\ mint'.status = mint.status /\ mint'.fin = mint.fin /\ mint'.gen = g
      BY <1>0, <3>1 DEF Mint
    <3> QED BY <3>1, <3>2 DEF Visible
  <2>3. CASE UserRequestsRestore
    <3>1. mint' = [mint EXCEPT !.restore = TRUE] /\ child' = child /\ mint.uid # 0
      BY <2>3 DEF UserRequestsRestore
    <3> QED BY <1>0, <3>1 DEF Visible, SameDeclaration, Mint
  <2>4. CASE UserDeletes
    <3> PICK g \in Nat : g = mint.gen + 1
      BY <1>0
    <3>1. /\ mint' = NoMint \/ mint' = [mint EXCEPT !.del = TRUE, !.gen = g]
          /\ child' = child /\ mint.uid # 0
      BY <2>4 DEF UserDeletes
    <3>2. ASSUME mint' = [mint EXCEPT !.del = TRUE, !.gen = g]
          PROVE  mint'.uid = mint.uid /\ mint'.status = mint.status /\ mint'.fin = mint.fin /\ mint'.gen = g
      BY <1>0, <3>2 DEF Mint
    <3> QED BY <3>1, <3>2 DEF Visible
  <2> QED BY <1>5, <2>1, <2>2, <2>3, <2>4 DEF User
<1>6. CASE UNCHANGED vars
  BY <1>1, <1>6 DEF vars
<1> QED BY <1>2, <1>3, <1>4, <1>5, <1>6

\* Generations start at 1, and nothing is left of a mint that is gone.
LEMMA NumberedStep == TypeOK /\ Numbered /\ Visible => Numbered'
<1> SUFFICES ASSUME TypeOK, Numbered, Visible PROVE Numbered'
  OBVIOUS
<1>0. mint.gen \in Nat /\ lastUid \in Nat /\ NoMint.uid = 0
  BY DEF TypeOK, Mint, NoMint
<1>1. \/ mint' = mint \/ mint' = NoMint
      \/ mint.uid # 0 /\ mint'.uid = mint.uid /\ mint'.gen \in {mint.gen, mint.gen + 1}
      \/ mint'.uid = lastUid + 1 /\ mint'.gen = 1
  BY DEF Visible, SameDeclaration
<1> QED BY <1>0, <1>1 DEF Numbered

\* A visible step is a step of the contract.
LEMMA VisibleStep ==
    IInv /\ IInv' /\ Numbered /\ Visible => Contract!Next \/ UNCHANGED Contract!vars
<1> SUFFICES ASSUME IInv, IInv', Numbered, Visible
             PROVE  Contract!Next \/ UNCHANGED Contract!vars
  OBVIOUS
<1>0. TypeOK' /\ (child' = child => SameStamps)
  BY DEF IInv, SameStamps
<1>1. CASE UNCHANGED mint /\ SameStamps
  BY <1>1, Unseen
<1>2. CASE mint.uid # 0 /\ SameDeclaration /\ child' = child
  BY <1>0, <1>2, ReportStep DEF SameDeclaration
<1>3. CASE UNCHANGED mint /\ \E k \in Kinds : op.pc = "resources" /\ Write(k, op.obj)
  BY <1>3, ApplyStep
<1>4. CASE /\ mint.uid = 0 /\ mint'.uid = lastUid + 1 /\ mint'.gen = 1 /\ ~mint'.fin
           /\ mint'.status = NewStatus /\ child' = child
  BY <1>0, <1>4, DeclareStep DEF Contract!Next
<1>5. CASE /\ mint.uid # 0 /\ mint'.uid = mint.uid /\ mint'.status = mint.status
           /\ mint.fin => mint'.fin
           /\ mint'.gen = mint.gen + 1 \/ (mint'.gen = mint.gen /\ mint'.spec = mint.spec)
           /\ child' = child
  BY <1>0, <1>5, AmendStep DEF Contract!Next
<1>6. CASE mint.uid # 0 /\ mint' = NoMint /\ child' = child
  BY <1>6, WithdrawStep DEF Contract!Next
<1> QED BY <1>1, <1>2, <1>3, <1>4, <1>5, <1>6 DEF Visible

\* What a client observes of the reconciler, its caches and its failures is a
\* behaviour of the contract: objects are written only under the finalizer and
\* never back, the Deployment after its inputs, and Ready=True of the current
\* generation is reported only after all of its objects.
THEOREM ContractImplemented == Spec => ImplementsContract
<1>1. Init => Contract!Init /\ Numbered
  <2> SUFFICES ASSUME Init PROVE Contract!Init /\ Numbered
    OBVIOUS
  <2>1. mint = NoMint
    BY DEF Init
  <2>2. child = [k \in Kinds |-> [uid |-> 0, gen |-> 0, live |-> FALSE, fixed |-> {}]]
    BY DEF Init
  <2>3. declaredMint = Contract!Nothing
    BY <2>1 DEF declaredMint, NoMint, Contract!Nothing
  <2>4. lastWrites = [k \in Contract!Kinds |-> [uid |-> 0, gen |-> 0]]
    BY <2>2, SameObjects DEF lastWrites
  <2>5. readyClaim = 0
    BY <2>1 DEF readyClaim, NoMint, NewStatus, CondTypes
  <2> QED BY <2>1, <2>3, <2>4, <2>5 DEF Contract!Init, Numbered, NoMint
<1>2. IInv /\ [Next]_vars => Visible
  BY OperatorVisible, OthersVisible DEF IInv, Next
<1>3. IInv /\ Numbered /\ [Next]_vars => Numbered'
  BY <1>2, NumberedStep DEF IInv
<1>4. IInv /\ IInv' /\ Numbered /\ [Next]_vars => [Contract!Next]_(Contract!vars)
  BY <1>2, VisibleStep
<1> QED BY <1>1, <1>3, <1>4, InvCorrect, PTL DEF Spec, ImplementsContract
=============================================================================
