---------------------------- MODULE BackupRestore ----------------------------
(***************************************************************************)
(* Restore requests and the Jobs that serve them.  A user asks for a       *)
(* restore with two annotations, the object key and a request id; the      *)
(* reconciler applies a Job named after the pair on every pass for as long *)
(* as they stay.  The Job's template is immutable, the control plane runs  *)
(* the Job, and removes it a day after it finished.  A spec is abstracted  *)
(* to the part that the template copies: bucket, endpoint, server version. *)
(***************************************************************************)
EXTENDS Naturals

CONSTANTS Requests,   \* pairs of object key and request id
          Templates,  \* what the template copies from the spec
          NoRequest,  \* the annotations are absent
          MaxEdits,   \* bound on what users do
          MaxFaults   \* bound on failed calls, failed Jobs and crashes

ASSUME NoRequestAssumption == NoRequest \notin Requests
ASSUME BoundsAssumption == MaxEdits \in Nat /\ MaxFaults \in Nat

VARIABLES mint,      \* annotations and spec in the API server
          view,      \* the informer's copy
          jobs,      \* the restore Jobs by name
          applied,   \* the spec that the steps after the restore were taken from
          failed,    \* the last pass that ended did so with an error
          ran,       \* how often each request was restored: 0, 1, 2 or more
          expired,   \* the requests whose Job was removed after it finished
          op,        \* the worker
          queued,    \* the name is in the work queue
          edits,     \* user actions so far
          faults     \* failures so far

vars == <<mint, view, jobs, applied, failed, ran, expired, op, queued, edits, faults>>
history == <<ran, expired>>

---------------------------------------------------------------------------
Mint == [req : Requests \cup {NoRequest}, tmpl : Templates]

\* tmpl outlives the Job.
Job == [st : {"none", "running", "done", "failed"}, tmpl : Templates]

PCs == {"idle", "cronJob", "restoreJob", "rest", "handleError"}

Init ==
    /\ mint \in [req : {NoRequest}, tmpl : Templates]
    /\ view = mint
    /\ jobs = [r \in Requests |-> [st |-> "none", tmpl |-> mint.tmpl]]
    /\ applied = mint.tmpl
    /\ failed = FALSE
    /\ ran = [r \in Requests |-> 0]
    /\ expired = {}
    /\ op = [pc |-> "idle", obj |-> mint]
    /\ queued = TRUE
    /\ edits = 0 /\ faults = 0

Return(requeue) == op' = [op EXCEPT !.pc = "idle"] /\ queued' = (queued \/ requeue)
Goto(pc) == op' = [op EXCEPT !.pc = pc] /\ UNCHANGED queued
Fault == faults < MaxFaults /\ faults' = faults + 1
Edit == edits < MaxEdits /\ edits' = edits + 1

---------------------------------------------------------------------------
(* reconcileBackup, and the steps that follow it *)

Reconcile ==
    /\ op.pc = "idle" /\ queued
    /\ op' = [pc |-> "cronJob", obj |-> view]
    /\ queued' = FALSE
    /\ UNCHANGED <<mint, view, jobs, applied, failed, history, edits, faults>>

\* The CronJob's template is mutable: its apply always goes through.
ApplyCronJob ==
    /\ op.pc = "cronJob"
    /\ Goto(IF op.obj.req = NoRequest THEN "rest" ELSE "restoreJob")
    /\ UNCHANGED <<mint, view, jobs, applied, failed, history, edits, faults>>

\* The Job that the request is named after exists with another template.
Rejected(o) == jobs[o.req].st # "none" /\ jobs[o.req].tmpl # o.tmpl

\* Faulty: a finished Job is started afresh.
JobAppliedAfresh(o) ==
    IF jobs[o.req].st = "running" THEN jobs
    ELSE [jobs EXCEPT ![o.req] = [st |-> "running", tmpl |-> o.tmpl]]

\* Applying a Job that exists with the same template changes nothing.
JobApplied(o) ==
    IF jobs[o.req].st # "none" THEN jobs
    ELSE [jobs EXCEPT ![o.req] = [st |-> "running", tmpl |-> o.tmpl]]

ApplyRestoreJob ==
    /\ op.pc = "restoreJob" /\ ~Rejected(op.obj)
    /\ jobs' = JobApplied(op.obj)
    /\ Goto("rest")
    /\ UNCHANGED <<mint, view, applied, failed, history, edits, faults>>

\* reconcileBackup returns the error, and nothing after it is reconciled.
RestoreRejected ==
    /\ op.pc = "restoreJob" /\ Rejected(op.obj)
    /\ Goto("handleError")
    /\ UNCHANGED <<mint, view, jobs, applied, failed, history, edits, faults>>

\* reconcileCoreResources, reconcileOptionalIngressResources, updateStatus
ReconcileRest ==
    /\ op.pc = "rest"
    /\ applied' = op.obj.tmpl
    /\ failed' = FALSE
    /\ Return(TRUE)
    /\ UNCHANGED <<mint, view, jobs, history, edits, faults>>

HandleError ==
    /\ op.pc = "handleError"
    /\ failed' = TRUE
    /\ Return(TRUE)
    /\ UNCHANGED <<mint, view, jobs, applied, history, edits, faults>>

\* A call fails; that of the Job possibly after it was created.
CallFails(landed) ==
    /\ op.pc \in {"cronJob", "restoreJob", "rest"}
    /\ landed => op.pc = "restoreJob" /\ ~Rejected(op.obj)
    /\ Fault
    /\ jobs' = IF landed THEN JobApplied(op.obj) ELSE jobs
    /\ failed' = TRUE
    /\ Return(TRUE)
    /\ UNCHANGED <<mint, view, applied, history, edits>>

\* A new process; its cache is as old as that of the one before, or newer.
Restart ==
    /\ Fault
    /\ op' = [op EXCEPT !.pc = "idle"] /\ queued' = TRUE
    /\ UNCHANGED <<mint, view, jobs, applied, failed, history, edits>>

SyncMint ==
    /\ view # mint
    /\ view' = mint /\ queued' = TRUE
    /\ UNCHANGED <<mint, jobs, applied, failed, history, op, edits, faults>>

---------------------------------------------------------------------------
(* The control plane: Jobs are owned, so what happens to them is enqueued *)

JobSucceeds(r) ==
    /\ jobs[r].st = "running"
    /\ jobs' = [jobs EXCEPT ![r].st = "done"]
    /\ ran' = [ran EXCEPT ![r] = IF @ = 2 THEN 2 ELSE @ + 1]
    /\ queued' = TRUE
    /\ UNCHANGED <<mint, view, applied, failed, expired, op, edits, faults>>

\* After backoffLimit retries.
JobFails(r) ==
    /\ jobs[r].st = "running"
    /\ Fault
    /\ jobs' = [jobs EXCEPT ![r].st = "failed"]
    /\ queued' = TRUE
    /\ UNCHANGED <<mint, view, applied, failed, history, op, edits>>

\* Faulty: a finished Job stays.
JobStays(r) == FALSE /\ UNCHANGED vars

\* Faulty: a finished Job is marked and not removed.
JobExpiresMarked(r) ==
    /\ jobs[r].st \in {"done", "failed"}
    /\ jobs' = [jobs EXCEPT ![r].st = "expired"]
    /\ queued' = TRUE
    /\ UNCHANGED <<mint, view, applied, failed, history, op, edits, faults>>

\* Faulty: a Job that failed stays.
JobExpiresDone(r) ==
    /\ jobs[r].st = "done"
    /\ jobs' = [jobs EXCEPT ![r].st = "none"]
    /\ expired' = expired \cup {r}
    /\ queued' = TRUE
    /\ UNCHANGED <<mint, view, applied, failed, ran, op, edits, faults>>

\* TTLSecondsAfterFinished
JobExpires(r) ==
    /\ jobs[r].st \in {"done", "failed"}
    /\ jobs' = [jobs EXCEPT ![r].st = "none"]
    /\ expired' = expired \cup {r}
    /\ queued' = TRUE
    /\ UNCHANGED <<mint, view, applied, failed, ran, op, edits, faults>>

---------------------------------------------------------------------------
(* Users *)

UserAnnotates(r) ==
    /\ Edit
    /\ mint.req # r /\ mint' = [mint EXCEPT !.req = r]
    /\ UNCHANGED <<view, jobs, applied, failed, history, op, queued, faults>>

UserEdits(t) ==
    /\ Edit
    /\ mint.tmpl # t /\ mint' = [mint EXCEPT !.tmpl = t]
    /\ UNCHANGED <<view, jobs, applied, failed, history, op, queued, faults>>

---------------------------------------------------------------------------
Operator == \/ Reconcile \/ ApplyCronJob \/ ApplyRestoreJob \/ RestoreRejected
            \/ ReconcileRest \/ HandleError

Next == \/ Operator \/ SyncMint \/ Restart
        \/ \E landed \in BOOLEAN : CallFails(landed)
        \/ \E r \in Requests : JobSucceeds(r) \/ JobFails(r) \/ JobExpires(r)
        \/ \E r \in Requests \cup {NoRequest} : UserAnnotates(r)
        \/ \E t \in Templates : UserEdits(t)

Spec == Init /\ [][Next]_vars

\* The worker runs, the watch delivers, a Job ends one way or the other and its
\* time to live runs out; nothing obliges users or failures.
FairSpec ==
    /\ Spec
    /\ WF_vars(Operator) /\ WF_vars(SyncMint)
    /\ \A r \in Requests : WF_vars(JobSucceeds(r)) /\ WF_vars(JobExpires(r))

---------------------------------------------------------------------------
(* Properties *)

TypeOK ==
    /\ mint \in Mint /\ view \in Mint
    /\ jobs \in [Requests -> Job]
    /\ applied \in Templates
    /\ failed \in BOOLEAN
    /\ ran \in [Requests -> 0..2] /\ expired \subseteq Requests
    /\ op \in [pc : PCs, obj : Mint]
    /\ queued \in BOOLEAN /\ edits \in Nat /\ faults \in Nat

\* A request restores once for as long as its Job is there, however often it
\* is reconciled: after a crash, after a call that failed although it created
\* the Job, from an outdated copy, or when users go back to an earlier request.
RestoreOncePerJob == \A r \in Requests \ expired : ran[r] <= 1

\* A Job that is in the way of an edit of the spec (its template cannot
\* follow) holds the mint up only until it expires: in the end every edit is
\* applied, and passes stop ending in an error.
EditsApplied == <>[](applied = mint.tmpl /\ ~failed)

\* A request that is not withdrawn is restored, although its Job may have been
\* rejected, have failed, or never have been created.
RequestHonoured == <>[](mint.req = NoRequest \/ ran[mint.req] > 0)

---------------------------------------------------------------------------
(* What the documentation says, and the code does not do *)

\* GeneratePostgresRestoreJob "creates a one-shot Job": a request is restored
\* no more than once.
RestoreOnce == \A r \in Requests : ran[r] <= 1
=============================================================================
