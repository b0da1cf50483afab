------------------------ MODULE BackupRestore_proofs ------------------------
(***************************************************************************)
(* Proofs about BackupRestore, for every set of requests and templates and *)
(* every bound: type correctness, and that a request is restored once for  *)
(* as long as its Job is kept.                                             *)
(***************************************************************************)
EXTENDS BackupRestore, TLAPS

\* Only names of Jobs are written, and what is written is a Job.
LEMMA AppliedType ==
    ASSUME TypeOK, NEW o \in Mint
    PROVE  JobApplied(o) \in [Requests -> Job]
BY DEF TypeOK, JobApplied, Job, Mint

LEMMA TypeInit == Init => TypeOK
<1> SUFFICES ASSUME Init PROVE TypeOK
  OBVIOUS
<1>1. mint \in Mint /\ mint.tmpl \in Templates
  BY DEF Init, Mint
<1>2. jobs \in [Requests -> Job] /\ ran \in [Requests -> 0..2]
  <2>1. [st |-> "none", tmpl |-> mint.tmpl] \in Job
    BY <1>1 DEF Job
  <2>2. jobs = [r \in Requests |-> [st |-> "none", tmpl |-> mint.tmpl]]
        /\ ran = [r \in Requests |-> 0]
    BY DEF Init
  <2> QED BY <2>1, <2>2
<1>3. op \in [pc : PCs, obj : Mint]
  <2>1. op = [pc |-> "idle", obj |-> mint]
    BY DEF Init
  <2> QED BY <1>1, <2>1 DEF PCs
<1>4. failed \in BOOLEAN /\ queued \in BOOLEAN
  BY Zenon DEF Init
<1>5. view = mint /\ applied = mint.tmpl /\ expired = {} /\ edits = 0 /\ faults = 0
  BY DEF Init
<1> QED
  BY <1>1, <1>2, <1>3, <1>4, <1>5 DEF TypeOK

LEMMA TypeStep == TypeOK /\ [Next]_vars => TypeOK'
<1> SUFFICES ASSUME TypeOK, [Next]_vars PROVE TypeOK'
  OBVIOUS
<1> USE DEF TypeOK, history
<1>1. CASE Reconcile
  BY <1>1 DEF Reconcile, PCs
<1>2. CASE ApplyCronJob
  BY <1>2 DEF ApplyCronJob, Goto, PCs
<1>3. CASE ApplyRestoreJob
  BY <1>3, AppliedType DEF ApplyRestoreJob, Goto, PCs
<1>4. CASE RestoreRejected
  BY <1>4 DEF RestoreRejected, Goto, PCs
<1>5. CASE ReconcileRest
  BY <1>5 DEF ReconcileRest, Return, PCs, Mint
<1>6. CASE HandleError
  BY <1>6 DEF HandleError, Return, PCs
<1>7. CASE SyncMint
  BY <1>7 DEF SyncMint
<1>8. CASE Restart
  BY <1>8 DEF Restart, Fault, PCs
<1>9. ASSUME NEW landed \in BOOLEAN, CallFails(landed) PROVE TypeOK'
  BY <1>9, AppliedType DEF CallFails, Fault, Return, PCs
<1>10. ASSUME NEW r \in Requests, JobSucceeds(r) PROVE TypeOK'
  <2>1. jobs' \in [Requests -> Job]
    BY <1>10 DEF JobSucceeds, Job
  <2>2. ran' \in [Requests -> 0..2]
    BY <1>10 DEF JobSucceeds
  <2> QED BY <1>10, <2>1, <2>2 DEF JobSucceeds
<1>11. ASSUME NEW r \in Requests, JobFails(r) PROVE TypeOK'
  BY <1>11 DEF JobFails, Fault, Job
<1>12. ASSUME NEW r \in Requests, JobExpires(r) PROVE TypeOK'
  BY <1>12 DEF JobExpires, Job
<1>13. ASSUME NEW r \in Requests \cup {NoRequest}, UserAnnotates(r) PROVE TypeOK'
  BY <1>13 DEF UserAnnotates, Edit, Mint
<1>14. ASSUME NEW t \in Templates, UserEdits(t) PROVE TypeOK'
  BY <1>14 DEF UserEdits, Edit, Mint
<1>15. CASE UNCHANGED vars
  BY <1>15 DEF vars
<1> QED
  BY <1>1, <1>2, <1>3, <1>4, <1>5, <1>6, <1>7, <1>8, <1>9, <1>10, <1>11, <1>12, <1>13,
     <1>14, <1>15 DEF Next, Operator

\* Jobs, requests and the worker keep their types.
THEOREM TypeCorrect == Spec => []TypeOK
BY TypeInit, TypeStep, PTL DEF Spec

---------------------------------------------------------------------------
\* As long as its Job was never removed, the state of the Job tells whether
\* the request was restored: RestoreOncePerJob alone would allow a running Job
\* of a request that was restored before.
Accounted ==
    \A r \in Requests \ expired : ran[r] = IF jobs[r].st = "done" THEN 1 ELSE 0

\* Applying a Job starts one only under a name that has none.
LEMMA AppliedKeeps ==
    ASSUME TypeOK, Accounted, NEW o \in Mint, jobs' = JobApplied(o), UNCHANGED history
    PROVE  Accounted'
<1> SUFFICES ASSUME NEW r \in Requests, r \notin expired
             PROVE  ran[r] = IF jobs'[r].st = "done" THEN 1 ELSE 0
  BY DEF Accounted, history
<1>1. jobs'[r] = jobs[r] \/ (jobs[r].st = "none" /\ jobs'[r].st = "running")
  BY DEF TypeOK, JobApplied
<1> QED
  BY <1>1 DEF Accounted

\* Every step accounts for the restores it causes.
LEMMA AccountedStep == TypeOK /\ Accounted /\ [Next]_vars => Accounted'
<1> SUFFICES ASSUME TypeOK, Accounted, [Next]_vars PROVE Accounted'
  OBVIOUS
<1>0. op.obj \in Mint
  BY DEF TypeOK
<1>1. CASE UNCHANGED <<jobs, history>>
  BY <1>1 DEF Accounted, history
<1>2. CASE ApplyRestoreJob
  BY <1>0, <1>2, AppliedKeeps DEF ApplyRestoreJob
<1>3. ASSUME NEW landed \in BOOLEAN, CallFails(landed) PROVE Accounted'
  BY <1>0, <1>1, <1>3, AppliedKeeps DEF CallFails
<1>4. ASSUME NEW r \in Requests, JobSucceeds(r) PROVE Accounted'
  <2>1. ASSUME NEW q \in Requests, q \notin expired
        PROVE  ran'[q] = IF jobs'[q].st = "done" THEN 1 ELSE 0
    <3>1. CASE q = r
      <4>1. ran[r] = 0
        BY <1>4, <2>1, <3>1 DEF JobSucceeds, Accounted
      <4> QED BY <1>4, <3>1, <4>1 DEF JobSucceeds, TypeOK, Job
    <3>2. CASE q # r
      BY <1>4, <2>1, <3>2 DEF JobSucceeds, Accounted, TypeOK
    <3> QED BY <3>1, <3>2
  <2> QED BY <1>4, <2>1 DEF JobSucceeds, Accounted
<1>5. ASSUME NEW r \in Requests, JobFails(r) PROVE Accounted'
  BY <1>5 DEF JobFails, Accounted, history, TypeOK, Job
<1>6. ASSUME NEW r \in Requests, JobExpires(r) PROVE Accounted'
  BY <1>6 DEF JobExpires, Accounted, TypeOK, Job
<1>7. CASE Operator /\ ~ApplyRestoreJob
  BY <1>1, <1>7 DEF Operator, Reconcile, ApplyCronJob, RestoreRejected, ReconcileRest, HandleError
<1>8. ASSUME NEW r, UserAnnotates(r) \/ UserEdits(r) PROVE Accounted'
  BY <1>1, <1>8 DEF UserAnnotates, UserEdits
<1>9. CASE SyncMint \/ Restart \/ UNCHANGED vars
  BY <1>1, <1>9 DEF SyncMint, Restart, vars, history
<1> QED
  BY <1>2, <1>3, <1>4, <1>5, <1>6, <1>7, <1>8, <1>9 DEF Next

\* However often a request is reconciled, after crashes, from outdated copies
\* or after a call that failed although it created the Job, it is restored at
\* most once before its Job expires.
THEOREM RestoreCorrect == Spec => []RestoreOncePerJob
<1>1. Init => Accounted
  <2> SUFFICES ASSUME Init PROVE Accounted
    OBVIOUS
  <2>1. jobs = [r \in Requests |-> [st |-> "none", tmpl |-> mint.tmpl]]
        /\ ran = [r \in Requests |-> 0]
    BY DEF Init
  <2> QED BY <2>1 DEF Accounted
<1>2. Accounted => RestoreOncePerJob
  <2> SUFFICES ASSUME Accounted, NEW r \in Requests \ expired PROVE ran[r] <= 1
    BY DEF RestoreOncePerJob
  <2>1. ran[r] = 0 \/ ran[r] = 1
    BY DEF Accounted
  <2>2. 0 <= 1 /\ 1 <= 1
    OBVIOUS
  <2> QED BY <2>1, <2>2, Zenon
<1> QED
  BY <1>1, <1>2, TypeCorrect, AccountedStep, PTL DEF Spec
=============================================================================
