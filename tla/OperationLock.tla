---------------------------- MODULE OperationLock ----------------------------
(***************************************************************************)
(* What the registry promises to whoever runs operations on resources: an  *)
(* operation is started on an idle resource only, at most one job works on *)
(* a resource, a job's outcome is recorded under its own ID, and the       *)
(* resource is idle again only when that outcome has been acknowledged.    *)
(* Jobs may die; the lock they held is then never released.                *)
(***************************************************************************)
EXTENDS Naturals

CONSTANT Resources

VARIABLES
    phase,    \* phase[r]: "absent", "idle", "busy" or "done"
    current,  \* current[r]: the ID of the operation on r, 0 when there is none
    jobs      \* jobs[r]: the IDs of the jobs that are working on r

lockVars == <<phase, current, jobs>>

Phases == {"absent", "idle", "busy", "done"}

LockInit ==
    /\ phase = [r \in Resources |-> "absent"]
    /\ current = [r \in Resources |-> 0]
    /\ jobs = [r \in Resources |-> {}]

Register(r) ==
    /\ phase[r] = "absent"
    /\ phase' = [phase EXCEPT ![r] = "idle"]
    /\ UNCHANGED <<current, jobs>>

(* The operation is on record; usually its job runs, but the process that  *)
(* recorded it may fail before it starts the job.                          *)
Begin(r) ==
    /\ phase[r] = "idle"
    /\ phase' = [phase EXCEPT ![r] = "busy"]
    /\ LET id == current'[r]
       IN /\ id \in Nat \ {0}
          /\ \A s \in Resources : current[s] # id
          /\ current' = [current EXCEPT ![r] = id]
          /\ jobs' = jobs \/ jobs' = [jobs EXCEPT ![r] = {id}]

(* The job records its outcome and ends. *)
Finish(r) ==
    /\ phase[r] = "busy"
    /\ jobs[r] = {current[r]}
    /\ phase' = [phase EXCEPT ![r] = "done"]
    /\ jobs' = [jobs EXCEPT ![r] = {}]
    /\ UNCHANGED current

(* The job removes the resource and ends. *)
Remove(r) ==
    /\ phase[r] = "busy"
    /\ jobs[r] = {current[r]}
    /\ phase' = [phase EXCEPT ![r] = "absent"]
    /\ current' = [current EXCEPT ![r] = 0]
    /\ jobs' = [jobs EXCEPT ![r] = {}]

Acknowledge(r) ==
    /\ phase[r] = "done"
    /\ phase' = [phase EXCEPT ![r] = "idle"]
    /\ current' = [current EXCEPT ![r] = 0]
    /\ UNCHANGED jobs

(* Jobs die without a trace: one whose last write failed, or all of them.  *)
Die ==
    /\ \/ \E r \in Resources : jobs' = [jobs EXCEPT ![r] = {}]
       \/ jobs' = [r \in Resources |-> {}]
    /\ UNCHANGED <<phase, current>>

LockNext ==
    \/ \E r \in Resources :
          Register(r) \/ Begin(r) \/ Finish(r) \/ Remove(r) \/ Acknowledge(r)
    \/ Die

LockSpec == LockInit /\ [][LockNext]_lockVars
=============================================================================
