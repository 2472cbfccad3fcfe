---------------------------- MODULE JobLifecycle ----------------------------
(***************************************************************************)
(* What the job manager promises its callers, without goroutines, locks or *)
(* files: every session has a slot for one job; a new job may take the     *)
(* slot only when the old one is settled; a settled job stays settled; and *)
(* a restart may forget a settlement or a job, but never invents one.      *)
(* JobManager is shown to implement it.                                    *)
(***************************************************************************)
EXTENDS Naturals

CONSTANTS Sessions, Jobs, NoJob

VARIABLES
    status,    \* of every job
    sess,      \* the session of every job
    current,   \* the job in the slot of every session
    epoch      \* the number of restarts so far

vars == <<status, sess, current, epoch>>

Active   == {"running", "unknown"}
Terminal == {"done", "error", "canceled", "timed_out"}

Init ==
    /\ status  = [j \in Jobs |-> "none"]
    /\ sess    \in [Jobs -> Sessions]
    /\ current = [s \in Sessions |-> NoJob]
    /\ epoch   = 0

\* A job enters its session's slot, which is empty or holds a settled job.
Accept(j) ==
    /\ status[j] = "none"
    /\ \A i \in Jobs : sess[i] = sess[j] => status[i] \notin Active
    /\ status'  = [status EXCEPT ![j] = "running"]
    /\ current' = [current EXCEPT ![sess[j]] = j]
    /\ UNCHANGED <<sess, epoch>>

\* The job in the slot ends, once.
Settle(j, st) ==
    /\ status[j] \in Active
    /\ current[sess[j]] = j
    /\ status' = [status EXCEPT ![j] = st]
    /\ UNCHANGED <<sess, current, epoch>>

\* A job that was given up turns out to be done.
Amend(j) ==
    /\ status[j] = "error"
    /\ status' = [status EXCEPT ![j] = "done"]
    /\ UNCHANGED <<sess, current, epoch>>

\* What a job that is still tracked after a restart may come back as.
ComesBackAs(st) ==
    IF st = "done" THEN {"unknown", "error", "done"}
    ELSE IF st \in Terminal THEN {"unknown", st}
    ELSE IF st \in Active THEN {"unknown"} ELSE {}

Restart ==
    /\ epoch' = epoch + 1
    /\ \A j \in Jobs :
        \/ status[j] = "none" /\ status'[j] = "none"
        \/ status[j] # "none" /\ current'[sess[j]] = j /\ status'[j] \in ComesBackAs(status[j])
        \/ status[j] # "none" /\ current'[sess[j]] # j /\ status'[j] = "gone"
    /\ \A s \in Sessions : current'[s] # NoJob => sess[current'[s]] = s
    /\ UNCHANGED sess

Next ==
    \/ \E j \in Jobs : Accept(j) \/ Amend(j) \/ \E st \in Terminal : Settle(j, st)
    \/ Restart

Spec == Init /\ [][Next]_vars
=============================================================================
