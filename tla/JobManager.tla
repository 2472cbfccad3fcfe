----------------------------- MODULE JobManager -----------------------------
(***************************************************************************)
(* The durable job manager of the OpenCode adapter                         *)
(* (internal/tools/opencode/manager.go) and the handlers that drive it.    *)
(*                                                                         *)
(* Threads are goroutines: every job has at most one (run after SubmitJob, *)
(* recover after a restart), named by the job itself, and every MCP call   *)
(* in progress has one.  A step is what one goroutine does between two     *)
(* points where another can intervene: one critical section of Manager.mu  *)
(* or Job.mu, one HTTP exchange with OpenCode, one file operation.  Tests   *)
(* of conditions that stay as they are, and what nobody else reads, belong *)
(* to the step before or after them.                                       *)
(*                                                                         *)
(* Left out: Location, message ids, Err texts and timestamps; a call that  *)
(* returns without changing anything (invalid input, a duplicate or        *)
(* conflicting idempotency key, a busy session) is a call that never       *)
(* started.                                                                *)
(***************************************************************************)
EXTENDS Naturals

CONSTANTS
    Sessions,      \* OpenCode session ids
    Keys,          \* idempotency keys
    Jobs,          \* the submissions a behaviour may accept (bounds SubmitJob)
    Calls,         \* MCP calls in progress at the same time
    NoKey,         \* a submission without idempotency key
    NoJob,         \* no job: a nil pointer, an absent map entry
    NoSession,     \* the session argument of a call that is not in progress
    Deadlines,     \* {"none"}, {"ahead"} or both: whether a job gets a deadline
    MaxRestarts,   \* bound on executor restarts
    SaveMayFail    \* whether writing a job record may fail

ASSUME DistinctAssumption ==
    /\ Jobs \cap Calls = {}
    /\ NoJob \notin Jobs
    /\ NoKey \notin Keys
    /\ NoSession \notin Sessions
ASSUME BoundsAssumption ==
    /\ Deadlines \subseteq {"none", "ahead"}
    /\ MaxRestarts \in Nat
    /\ SaveMayFail \in BOOLEAN

Threads == Jobs \cup Calls

Active   == {"running", "unknown"}
Terminal == {"done", "error", "canceled", "timed_out"}
\* "none": not submitted yet; "gone": lost by a restart that found no record.
Status   == Active \cup Terminal \cup {"none", "gone"}

JobPC  == {"off", "prompt", "inflight", "await", "abort", "finish", "publish",
           "snapshot", "rename", "rwait", "rread"}
CallPC == {"idle", "abort", "mark", "lookup", "reconcile", "blocked",
           "publish", "snapshot", "rename"}

VARIABLES
    \* Job objects
    status,
    sess,          \* fixed by the submission; Init guesses it
    key,
    deadline,      \* "none", "ahead" or "past"
    ctx,           \* the context of the job's goroutine
    handle,        \* job.cancel # nil
    doneClosed,    \* job.done is closed
    \* Manager maps and the state directory (one record per session)
    current, index, diskJob, diskStatus,
    \* goroutines
    pc, call, out, buf,
    \* OpenCode: the running turn, the latest assistant message; for the
    \* properties only, which prompts it has really finished and which it has
    \* answered with a response
    turn, last, finished, answered,
    \* executor process
    down, restarts

jobVars  == <<status, sess, key, deadline, ctx, handle, doneClosed>>
mapVars  == <<current, index>>
diskVars == <<diskJob, diskStatus>>
gorVars  == <<pc, call, out, buf>>
srvVars  == <<turn, last, finished, answered>>
procVars == <<down, restarts>>
\* What a goroutine of run or recover leaves alone until it settles the job.
notOwn == <<status, sess, key, deadline, doneClosed, mapVars, diskVars, call,
            buf, procVars>>
vars == <<jobVars, mapVars, diskVars, gorVars, srvVars, procVars>>

\* The job a goroutine works on, and that job's session.
Target(t) == IF t \in Jobs THEN t ELSE call[t].job

\* A call in progress: which tool, on which session, holding which job pointer.
NoCall == [op |-> "none", on |-> NoSession, job |-> NoJob]

Goto(t, where) ==
    /\ pc' = [pc EXCEPT ![t] = where]
    /\ call' = IF where = "idle" THEN [call EXCEPT ![t] = NoCall] ELSE call

Begin(c, where, o, s, j) ==
    /\ pc[c] = "idle"
    /\ pc' = [pc EXCEPT ![c] = where]
    /\ call' = [call EXCEPT ![c] = [op |-> o, on |-> s, job |-> j]]

\* Mutant: finish would overwrite a job that a check has marked done.
SettleableIfNotDropped(j) == status[j] \notin {"canceled", "timed_out"}
\* Every writer but Reconcile leaves a settled job alone.
Settleable(j) == status[j] \notin Terminal
\* A failed job may be found done after all; a canceled or timed-out one stays.
Reconcilable(j) == status[j] \notin {"canceled", "timed_out"}

NoMessage == [by |-> NoJob, fin |-> FALSE]

Init ==
    /\ status     = [j \in Jobs |-> "none"]
    /\ sess       \in [Jobs -> Sessions]
    /\ key        = [j \in Jobs |-> NoKey]
    /\ deadline   = [j \in Jobs |-> "none"]
    /\ ctx        = [j \in Jobs |-> "none"]
    /\ handle     = [j \in Jobs |-> FALSE]
    /\ doneClosed = [j \in Jobs |-> FALSE]
    /\ current    = [s \in Sessions |-> NoJob]
    /\ index      = [s \in Sessions |-> [k \in Keys |-> NoJob]]
    /\ diskJob    = [s \in Sessions |-> NoJob]
    /\ diskStatus = [s \in Sessions |-> "none"]
    /\ pc  = [t \in Threads |-> IF t \in Jobs THEN "off" ELSE "idle"]
    /\ call = [c \in Calls |-> NoCall]
    /\ out = [j \in Jobs |-> "none"]
    /\ buf = [t \in Threads |-> "none"]
    /\ turn     = [s \in Sessions |-> NoJob]
    /\ last     = [s \in Sessions |-> NoMessage]
    /\ finished = {}
    /\ answered = {}
    /\ down = FALSE
    /\ restarts = 0

-----------------------------------------------------------------------------
(* Steps every goroutine that settles a job goes through after the critical
   section that changed the status: signalDone and cancel, then saveJob, which
   takes a snapshot under Job.mu and replaces the session's file afterwards,
   outside any lock. *)

\* Cancelling a context that is already over changes nothing.
Canceled(c) == IF c = "live" THEN "canceled" ELSE c

\* Mutant: cancel is not called.
KeepContext(j) == ctx
\* The context after job.cancel, when the job has one.
CancelContext(j) == [ctx EXCEPT ![j] = IF handle[j] THEN Canceled(@) ELSE @]

\* The section that settled the job took job.cancel; calling it here, where
\* only this goroutine calls it, has the same effect as taking it there.
Publish(t) ==
    /\ pc[t] = "publish"
    /\ LET j == Target(t) IN
        /\ doneClosed' = [doneClosed EXCEPT ![j] = TRUE]
        /\ ctx' = CancelContext(j)
        /\ handle' = [handle EXCEPT ![j] = FALSE]
    /\ Goto(t, "snapshot")
    /\ UNCHANGED <<status, sess, key, deadline, mapVars, diskVars, out,
                   buf, srvVars, procVars>>

Snapshot(t) ==
    /\ pc[t] = "snapshot"
    /\ buf' = [buf EXCEPT ![t] = status[Target(t)]]
    /\ Goto(t, "rename")
    /\ UNCHANGED <<jobVars, mapVars, diskVars, out, srvVars, procVars>>

\* The end of a job's goroutine.  Its deferred cancel ends a context that no
\* other goroutine looks at, so it is part of the last step.
Ends(j) ==
    /\ pc' = [pc EXCEPT ![j] = "off"]
    /\ ctx' = [ctx EXCEPT ![j] = "none"]
    /\ handle' = [handle EXCEPT ![j] = FALSE]
    /\ out' = [out EXCEPT ![j] = "none"]

\* What follows the save: a submission starts the goroutine of run and returns,
\* any other call returns, a job's goroutine ends.
AfterSave(t) ==
    /\ buf' = [buf EXCEPT ![t] = "none"]
    /\ IF t \in Jobs
       THEN Ends(t) /\ UNCHANGED call
       ELSE /\ pc' = IF call[t].op = "submit"
                     THEN [pc EXCEPT ![t] = "idle", ![call[t].job] = "prompt"]
                     ELSE [pc EXCEPT ![t] = "idle"]
            /\ call' = [call EXCEPT ![t] = NoCall]
            /\ UNCHANGED <<ctx, handle, out>>
    /\ UNCHANGED <<status, sess, key, deadline, doneClosed, mapVars, srvVars,
                   procVars>>

Rename(t) ==
    /\ pc[t] = "rename"
    /\ LET s == sess[Target(t)] IN
        /\ diskJob'    = [diskJob EXCEPT ![s] = Target(t)]
        /\ diskStatus' = [diskStatus EXCEPT ![s] = buf[t]]
    /\ AfterSave(t)

\* saveJob only logs a failure; the caller goes on as if it had saved.
SaveFails(t) ==
    /\ SaveMayFail
    /\ pc[t] = "rename"
    /\ AfterSave(t)
    /\ UNCHANGED diskVars

-----------------------------------------------------------------------------
(* SubmitJob *)

\* Mutant: an unknown job keeps the session busy, a running one does not.
SessionFreeUnlessUnknown(s) == current[s] # NoJob => status[current[s]] # "unknown"
\* SubmitJob's second guard: the session's tracked job, if any, is over.
SessionFree(s) == current[s] # NoJob => status[current[s]] \notin Active
\* Mutant: the replaced job's key is not deleted.
WithKeyOf(s) == index[s]
\* It forgets the key of the job it replaces.
WithoutKeyOf(s) ==
    [k \in Keys |-> IF current[s] # NoJob /\ key[current[s]] = k
                    THEN NoJob ELSE index[s][k]]

\* Mutant: the job outlives the executor's root context.
DetachedContext == "live"
\* A child of the executor's root context: canceled if that one is.
RootContext == IF down THEN "canceled" ELSE "live"

\* The section under Manager.mu.  A key that is in the index is a duplicate or
\* a conflict and changes nothing.
Submit(c, s, k, d, j) ==
    /\ Begin(c, "snapshot", "submit", s, j)
    /\ status[j] = "none"
    /\ sess[j] = s
    /\ k # NoKey => index[s][k] = NoJob
    /\ SessionFree(s)
    /\ status'   = [status EXCEPT ![j] = "running"]
    /\ key'      = [key EXCEPT ![j] = k]
    /\ deadline' = [deadline EXCEPT ![j] = d]
    /\ ctx'      = [ctx EXCEPT ![j] = RootContext]
    /\ handle'   = [handle EXCEPT ![j] = TRUE]
    /\ current'  = [current EXCEPT ![s] = j]
    /\ index'    = [index EXCEPT ![s] =
                      [h \in Keys |-> IF h = k THEN j ELSE WithoutKeyOf(s)[h]]]
    /\ UNCHANGED <<sess, doneClosed, diskVars, out, buf, srvVars, procVars>>

-----------------------------------------------------------------------------
(* Cancel *)

CancelBegin(c, s) ==
    /\ Begin(c, "abort", "cancel", s, current[s])
    /\ current[s] # NoJob => status[current[s]] \notin Terminal
    /\ UNCHANGED <<jobVars, mapVars, diskVars, out, buf, srvVars, procVars>>

\* POST /session/{id}/abort stops whatever turn the session is running.  An
\* error makes Cancel return it; the request may have taken effect even so.
\* Aborting an untracked session changes nothing in the manager.
CancelAborts(c, ok, killed) ==
    /\ pc[c] = "abort"
    /\ ok => killed
    /\ turn' = IF killed THEN [turn EXCEPT ![call[c].on] = NoJob] ELSE turn
    /\ Goto(c, IF ok /\ call[c].job # NoJob THEN "mark" ELSE "idle")
    /\ UNCHANGED <<jobVars, mapVars, diskVars, out, buf, last, finished,
                   answered, procVars>>

CancelMarks(c) ==
    /\ pc[c] = "mark"
    /\ LET j == call[c].job IN
        IF Settleable(j)
        THEN /\ status' = [status EXCEPT ![j] = "canceled"]
             /\ Goto(c, "publish")
        ELSE /\ Goto(c, "idle")
             /\ UNCHANGED status
    /\ UNCHANGED <<sess, key, deadline, ctx, handle, doneClosed, mapVars,
                   diskVars, out, buf, srvVars, procVars>>

-----------------------------------------------------------------------------
(* handoff_check: doCheck reads the messages of a tracked session, asks for
   pending permissions and questions, and hands what it read to Reconcile. *)

\* isSessionFinishedJSON: the latest assistant message has a terminal finish.
SessionFinished(s) == last[s].fin
\* openCodeAssistantContinuing: there is one and it has none.
AssistantContinuing(s) == last[s].by # NoJob /\ ~last[s].fin

\* Mutant: doCheck reconciles without asking whether the session is tracked.
CheckReadsAnySession(c, s) ==
    /\ Begin(c, "lookup", "check", s, NoJob)
    /\ SessionFinished(s)
    /\ UNCHANGED <<jobVars, mapVars, diskVars, out, buf, srvVars, procVars>>

CheckReads(c, s) ==
    /\ Begin(c, "lookup", "check", s, NoJob)
    /\ current[s] # NoJob
    /\ SessionFinished(s)
    /\ UNCHANGED <<jobVars, mapVars, diskVars, out, buf, srvVars, procVars>>

\* Reconcile looks the job up again: it may be another by now.
ReconcileLooksUp(c) ==
    /\ pc[c] = "lookup"
    /\ pc' = [pc EXCEPT ![c] = "reconcile"]
    /\ call' = [call EXCEPT ![c].job = current[call[c].on]]
    /\ UNCHANGED <<jobVars, mapVars, diskVars, out, buf, srvVars, procVars>>

\* Mutant: Reconcile does not signal completion.
SilentReconcile(j) == "snapshot"
\* Only the change from active to done has waiters to wake.
AfterReconcile(j) == IF status[j] \notin Terminal THEN "publish" ELSE "snapshot"

ReconcileMarks(c) ==
    /\ pc[c] = "reconcile"
    /\ LET j == call[c].job IN
        /\ status' = IF Reconcilable(j) THEN [status EXCEPT ![j] = "done"] ELSE status
        /\ Goto(c, AfterReconcile(j))
    /\ UNCHANGED <<sess, key, deadline, ctx, handle, doneClosed, mapVars,
                   diskVars, out, buf, srvVars, procVars>>

-----------------------------------------------------------------------------
(* Wait, as handoff_fire, handoff_check and handoff_execute use it *)

WaitBegin(c, s) ==
    /\ Begin(c, "blocked", "wait", s, current[s])
    /\ current[s] # NoJob
    /\ status[current[s]] \notin Terminal
    /\ UNCHANGED <<jobVars, mapVars, diskVars, out, buf, srvVars, procVars>>

WaitReturns(c) ==
    /\ pc[c] = "blocked"
    /\ doneClosed[call[c].job]
    /\ Goto(c, "idle")
    /\ UNCHANGED <<jobVars, mapVars, diskVars, out, buf, srvVars, procVars>>

\* The call's own context ends first.
WaitExpires(c) ==
    /\ pc[c] = "blocked"
    /\ Goto(c, "idle")
    /\ UNCHANGED <<jobVars, mapVars, diskVars, out, buf, srvVars, procVars>>

-----------------------------------------------------------------------------
(* run, the goroutine of a submitted job *)

\* The goroutine goes on, with the outcome it has decided on if any.
Decides(j, where, outcome) ==
    /\ pc' = [pc EXCEPT ![j] = where]
    /\ out' = [out EXCEPT ![j] = outcome]
    /\ UNCHANGED <<ctx, handle>>

\* ctx.Err() is DeadlineExceeded.
Late(j) == ctx[j] = "expired"
\* Mutant: the end of the deadline is treated like a shutdown.
OnlySaves(j) == IF Settleable(j) THEN Decides(j, "snapshot", "none") ELSE Ends(j)
\* timeout: a settled job is left alone, another is aborted first.
TimesOut(j) == IF Settleable(j) THEN Decides(j, "abort", "none") ELSE Ends(j)

\* The prompt reaches OpenCode, which starts a turn when the session has none.
Deliver(j) ==
    /\ pc[j] = "prompt"
    /\ ctx[j] = "live"
    /\ turn[sess[j]] = NoJob
    /\ turn' = [turn EXCEPT ![sess[j]] = j]
    /\ Goto(j, "inflight")
    /\ UNCHANGED <<jobVars, mapVars, diskVars, out, buf, last, finished,
                   answered, procVars>>

\* client.Prompt returns: with a response, which may come while the turn goes
\* on with tool calls, and before it has published a message or without one at
\* all; or with an error, which a broken connection or the end of ctx causes
\* too.  run then looks at ctx and at the status: past the
\* deadline it times the job out; it leaves a canceled job alone; a canceled
\* context preserves the status; a failed prompt fails the job; a good one is
\* awaited.
PromptReturns(j, ok) ==
    /\ IF ok THEN pc[j] = "inflight" /\ ctx[j] = "live"
             ELSE pc[j] \in {"prompt", "inflight"}
    /\ \/ Late(j) /\ TimesOut(j)
       \/ ~Late(j) /\ ~Reconcilable(j) /\ Ends(j)
       \/ ~Late(j) /\ Reconcilable(j) /\ ctx[j] = "canceled" /\ Decides(j, "snapshot", "none")
       \/ ~Late(j) /\ Reconcilable(j) /\ ctx[j] = "live" /\ ~ok /\ Decides(j, "finish", "error")
       \/ ~Late(j) /\ Reconcilable(j) /\ ctx[j] = "live" /\ ok /\ Decides(j, "await", "none")
    /\ answered' = IF ok THEN answered \cup {j} ELSE answered
    /\ UNCHANGED <<notOwn, turn, last, finished>>

\* A turn is over for awaitOpenCodeFinished when it is not continuing, a
\* session without assistant message included.
TurnOver(s) == SessionFinished(s) \/ ~AssistantContinuing(s)

\* awaitOpenCodeFinished polls until the turn is over: rounds that find it
\* continuing, or that cannot read the messages, change nothing.
AwaitFinished(j) ==
    /\ pc[j] = "await"
    /\ Reconcilable(j)
    /\ ctx[j] = "live"
    /\ TurnOver(sess[j])
    /\ Decides(j, "finish", "done")
    /\ UNCHANGED <<notOwn, srvVars>>

\* It gives up when the job was canceled or ctx is over.  Both are for good, so
\* that run finds them again when it looks.
AwaitStops(j) ==
    /\ pc[j] = "await"
    /\ ~Reconcilable(j) \/ ctx[j] # "live"
    /\ \/ Late(j) /\ TimesOut(j)
       \/ ~Late(j) /\ ~Reconcilable(j) /\ Ends(j)
       \/ ~Late(j) /\ Reconcilable(j) /\ Decides(j, "snapshot", "none")
    /\ UNCHANGED <<notOwn, srvVars>>

-----------------------------------------------------------------------------
(* The end of timeout, and finish, shared by run and recover *)

\* An abort that fails, or takes more than ten seconds, is only logged.
TimeoutAborts(j, killed) ==
    /\ pc[j] = "abort"
    /\ turn' = IF killed THEN [turn EXCEPT ![sess[j]] = NoJob] ELSE turn
    /\ Decides(j, "finish", "timed_out")
    /\ UNCHANGED <<notOwn, last, finished, answered>>

Finish(j) ==
    /\ pc[j] = "finish"
    /\ IF Settleable(j)
       THEN /\ status' = [status EXCEPT ![j] = out[j]]
            /\ Decides(j, "publish", "none")
       ELSE /\ Ends(j)
            /\ UNCHANGED status
    /\ UNCHANGED <<sess, key, deadline, doneClosed, mapVars, diskVars, call,
                   buf, srvVars, procVars>>

-----------------------------------------------------------------------------
(* recover, the goroutine of a job found unfinished at startup *)

\* GET /api/session/{id}/wait answers when the session has no turn.
RecoverWaited(j) ==
    /\ pc[j] = "rwait"
    /\ ctx[j] = "live"
    /\ turn[sess[j]] = NoJob
    /\ Decides(j, "rread", "none")
    /\ UNCHANGED <<notOwn, srvVars>>

\* A wait that fails: past its deadline the job times out, otherwise
\* setRecoveryError notes the error on the job, still unknown, and saves.
RecoverWaitFails(j) ==
    /\ pc[j] = "rwait"
    /\ IF Late(j) /\ deadline[j] = "past"
       THEN TimesOut(j) ELSE Decides(j, "snapshot", "none")
    /\ UNCHANGED <<notOwn, srvVars>>

\* Mutant: recover would use the looser test of awaitOpenCodeFinished.
RecoveredUnlessContinuing(s) == IF TurnOver(s) THEN "done" ELSE "error"
\* Without its answer only a finished turn settles a job as done.
Recovered(s) == IF SessionFinished(s) THEN "done" ELSE "error"

RecoverReads(j, ok) ==
    /\ pc[j] = "rread"
    /\ ok => ctx[j] = "live"
    /\ IF ok
       THEN Decides(j, "finish", Recovered(sess[j]))
       ELSE Decides(j, "snapshot", "none")
    /\ UNCHANGED <<notOwn, srvVars>>

-----------------------------------------------------------------------------
(* Time, and OpenCode itself *)

\* The deadline of an unfinished job passes; a context bounded by it expires.
Expire(j) ==
    /\ deadline[j] = "ahead"
    /\ status[j] \in Active
    /\ deadline' = [deadline EXCEPT ![j] = "past"]
    /\ ctx' = [ctx EXCEPT ![j] = IF @ = "live" THEN "expired" ELSE @]
    /\ UNCHANGED <<status, sess, key, handle, doneClosed, mapVars, diskVars,
                   gorVars, srvVars, procVars>>

\* Thirty seconds of recovery pass.
RecoveryExpires(j) ==
    /\ pc[j] \in {"rwait", "rread"}
    /\ ctx[j] = "live"
    /\ ctx' = [ctx EXCEPT ![j] = "expired"]
    /\ UNCHANGED <<status, sess, key, deadline, handle, doneClosed, mapVars,
                   diskVars, gorVars, srvVars, procVars>>

\* The running turn publishes an assistant message, finishes, or breaks off.
TurnWorks(s) ==
    /\ turn[s] # NoJob
    /\ last' = [last EXCEPT ![s] = [by |-> turn[s], fin |-> FALSE]]
    /\ UNCHANGED <<jobVars, mapVars, diskVars, gorVars, turn, finished, answered,
                   procVars>>

TurnFinishes(s) ==
    /\ turn[s] # NoJob
    /\ last' = [last EXCEPT ![s] = [by |-> turn[s], fin |-> TRUE]]
    /\ finished' = finished \cup {turn[s]}
    /\ turn' = [turn EXCEPT ![s] = NoJob]
    /\ UNCHANGED <<jobVars, mapVars, diskVars, gorVars, answered, procVars>>

TurnBreaks(s) ==
    /\ turn[s] # NoJob
    /\ turn' = [turn EXCEPT ![s] = NoJob]
    /\ UNCHANGED <<jobVars, mapVars, diskVars, gorVars, last, finished, answered,
                   procVars>>

-----------------------------------------------------------------------------
(* The executor process *)

\* main's deferred cancel of the root context: every live context is canceled.
Shutdown ==
    /\ ~down
    /\ restarts < MaxRestarts
    /\ down' = TRUE
    /\ ctx' = [j \in Jobs |-> Canceled(ctx[j])]
    /\ UNCHANGED <<status, sess, key, deadline, handle, doneClosed, mapVars,
                   diskVars, gorVars, srvVars, restarts>>

\* Mutant: an interrupted job's error is recovered too.
LoadedAgain(st) == IF st \in {"running", "error"} THEN "unknown" ELSE st
\* loadJobs: the status a record comes back with.
Loaded(st) == IF st = "running" THEN "unknown" ELSE st
OnDisk(j) == diskJob[sess[j]] = j
StatusAfterLoad(j) ==
    IF status[j] = "none" THEN "none"
    ELSE IF OnDisk(j) THEN Loaded(diskStatus[sess[j]]) ELSE "gone"

\* The process ends, at any point, and a new one starts: NewManager loads the
\* records and starts recover for every unknown job; one past its deadline goes
\* to timeout, as a wait cut by the deadline does.  A local OpenCode server
\* goes down with it (keep = FALSE), an external one goes on.
Restart(keep) ==
    /\ restarts < MaxRestarts
    /\ restarts' = restarts + 1
    /\ down' = FALSE
    /\ status' = [j \in Jobs |-> StatusAfterLoad(j)]
    /\ doneClosed' = [j \in Jobs |-> StatusAfterLoad(j) \in Terminal]
    /\ ctx' = [j \in Jobs |-> IF StatusAfterLoad(j) # "unknown" THEN "none"
                              ELSE IF deadline[j] = "past" THEN "expired" ELSE "live"]
    /\ handle' = [j \in Jobs |-> FALSE]
    /\ current' = diskJob
    /\ index' = [s \in Sessions |-> [k \in Keys |->
                   IF diskJob[s] # NoJob /\ key[diskJob[s]] = k
                   THEN diskJob[s] ELSE NoJob]]
    /\ pc' = [t \in Threads |->
                IF t \in Calls THEN "idle"
                ELSE IF StatusAfterLoad(t) = "unknown" THEN "rwait" ELSE "off"]
    /\ call' = [c \in Calls |-> NoCall]
    /\ out' = [j \in Jobs |-> "none"]
    /\ buf' = [t \in Threads |-> "none"]
    /\ turn' = IF keep THEN turn ELSE [s \in Sessions |-> NoJob]
    /\ UNCHANGED <<sess, key, deadline, diskVars, last, finished, answered>>

-----------------------------------------------------------------------------
\* What a goroutine does by itself, once it can.
Save(t) == Publish(t) \/ Snapshot(t) \/ Rename(t) \/ SaveFails(t)

CallRuns(c) ==
    \/ Save(c)
    \/ CancelMarks(c) \/ ReconcileLooksUp(c) \/ ReconcileMarks(c)
    \/ WaitReturns(c)

JobRuns(j) ==
    \/ Save(j)
    \/ AwaitFinished(j) \/ AwaitStops(j) \/ Finish(j)
    \/ \E killed \in BOOLEAN : TimeoutAborts(j, killed)
    \/ \E ok \in BOOLEAN : RecoverReads(j, ok)

CallBegins(c) ==
    \E s \in Sessions :
        \/ \E k \in Keys \cup {NoKey}, d \in Deadlines, j \in Jobs : Submit(c, s, k, d, j)
        \/ CancelBegin(c, s)
        \/ CheckReads(c, s)
        \/ WaitBegin(c, s)

\* Answers of OpenCode that may come or not.
Answers(j) ==
    \/ Deliver(j)
    \/ \E ok \in BOOLEAN : PromptReturns(j, ok)
    \/ RecoverWaited(j) \/ RecoverWaitFails(j)

Next ==
    \/ \E c \in Calls :
        \/ CallRuns(c) \/ CallBegins(c) \/ WaitExpires(c)
        \/ \E ok, killed \in BOOLEAN : CancelAborts(c, ok, killed)
    \/ \E j \in Jobs : JobRuns(j) \/ Answers(j) \/ Expire(j) \/ RecoveryExpires(j)
    \/ \E s \in Sessions : TurnWorks(s) \/ TurnFinishes(s) \/ TurnBreaks(s)
    \/ Shutdown
    \/ \E keep \in BOOLEAN : Restart(keep)

Spec == Init /\ [][Next]_vars

\* A request whose context is over comes back with its error.
RequestCut(j) == ctx[j] # "live" /\ (PromptReturns(j, FALSE) \/ RecoverWaitFails(j))

(* Goroutines are scheduled, deadlines pass and a request whose context is
   over returns; no answer of OpenCode is counted on. *)
Fairness ==
    /\ \A c \in Calls : WF_vars(CallRuns(c))
    /\ \A j \in Jobs :
        /\ WF_vars(JobRuns(j))
        /\ WF_vars(RequestCut(j))
        /\ WF_vars(Expire(j))
        /\ WF_vars(RecoveryExpires(j))

FairSpec == Spec /\ Fairness

-----------------------------------------------------------------------------
(* Properties *)

\* Where a call goes through its job pointer.
HoldingPC == {"mark", "reconcile", "blocked", "publish", "snapshot", "rename"}

JobTypeOK ==
    /\ status     \in [Jobs -> Status]
    /\ sess       \in [Jobs -> Sessions]
    /\ key        \in [Jobs -> Keys \cup {NoKey}]
    /\ deadline   \in [Jobs -> {"none", "ahead", "past"}]
    /\ ctx        \in [Jobs -> {"none", "live", "expired", "canceled"}]
    /\ handle     \in [Jobs -> BOOLEAN]
    /\ doneClosed \in [Jobs -> BOOLEAN]

MapTypeOK ==
    /\ current    \in [Sessions -> Jobs \cup {NoJob}]
    /\ index      \in [Sessions -> [Keys -> Jobs \cup {NoJob}]]
    /\ diskJob    \in [Sessions -> Jobs \cup {NoJob}]
    /\ diskStatus \in [Sessions -> Status]

CallType == [op : {"none", "submit", "cancel", "check", "wait"},
             on : Sessions \cup {NoSession},
             job : Jobs \cup {NoJob}]

GoroutineTypeOK ==
    /\ pc   \in [Threads -> JobPC \cup CallPC]
    /\ \A j \in Jobs : pc[j] \in JobPC
    /\ \A c \in Calls : pc[c] \in CallPC
    /\ call \in [Calls -> CallType]
    /\ \A c \in Calls : pc[c] \in HoldingPC => call[c].job \in Jobs
    /\ out  \in [Jobs -> {"none"} \cup Terminal]
    /\ buf  \in [Threads -> Status]

EnvironmentTypeOK ==
    /\ turn \in [Sessions -> Jobs \cup {NoJob}]
    /\ last \in [Sessions -> [by : Jobs \cup {NoJob}, fin : BOOLEAN]]
    /\ finished \subseteq Jobs
    /\ answered \subseteq Jobs
    /\ down \in BOOLEAN
    /\ restarts \in Nat

\* Every variable has its type, a goroutine is at a point of its own code, and
\* a call that goes through its job pointer has one: Manager.Reconcile returns
\* nil for an untracked session and doCheck goes through it unasked.
TypeOK == JobTypeOK /\ MapTypeOK /\ GoroutineTypeOK /\ EnvironmentTypeOK

\* The idempotency index holds a key exactly while the session's tracked job is
\* the one submitted with it: no stale entry answers for a replaced job and
\* none is missing for a tracked one, across submissions and restarts.
IndexMatchesCurrent ==
    \A s \in Sessions, k \in Keys :
        index[s][k] = IF current[s] # NoJob /\ key[current[s]] = k
                      THEN current[s] ELSE NoJob

\* SubmitJob's promise "already has an active handoff job": a job that is
\* running or unknown is the one its session tracks, so that a session never
\* has two and no active job is out of reach of check, wait and cancel.
ActiveIsTracked ==
    \A j \in Jobs : status[j] \in Active => current[sess[j]] = j

\* Job.done is closed, or a goroutine is about to close it, once the job is
\* over: nobody blocked in Manager.Wait is forgotten.
NoLostWakeup ==
    \A j \in Jobs : status[j] \in Terminal /\ ~doneClosed[j] =>
        \E t \in Threads : pc[t] = "publish" /\ Target(t) = j

\* A record may be older than the job it stands for, but never ahead of it:
\* a settled status on disk is the job's status, an error possibly amended to
\* done since.  So no restart settles a job that was not settled.
SettledOnDiskIsSettled ==
    \A s \in Sessions : diskStatus[s] \in Terminal =>
        LET j == diskJob[s] IN
            \/ status[j] = diskStatus[s]
            \/ diskStatus[s] = "error" /\ status[j] = "done"

\* No job is reported done on nothing: OpenCode answered its prompt with a
\* response, or finished a turn of its session.  A prompt that failed or was
\* cut, a session without messages after a restart, a wait that came back
\* early are not taken for a finished job by run, recover or Reconcile.
DoneHasEvidence ==
    \A j \in Jobs : status[j] = "done" =>
        j \in answered \/ \E i \in finished : sess[i] = sess[j]

\* While the process lives, a job that was canceled, timed out or done stays
\* so, whatever late answer, check or timer comes; only an error is amended.
SettledIsFinal ==
    [][\A j \in Jobs : status[j] \in Terminal /\ status'[j] # status[j] =>
          \/ restarts' # restarts
          \/ status[j] = "error" /\ status'[j] = "done"]_vars

\* The goroutines, locks and files together keep the promises of JobLifecycle:
\* one active job per session, settled for good, nothing invented by a restart.
Lifecycle == INSTANCE JobLifecycle WITH epoch <- restarts
ImplementsLifecycle == Lifecycle!Spec

\* run: "The manager is shutting down.  Preserve running state so the next
\* executor instance can recover it": once the root context is canceled no
\* job's goroutine decides that the job failed, whenever it was submitted.
ShutdownFailsNoJob ==
    [][\A j \in Jobs : down /\ pc[j] # "finish" /\ pc'[j] = "finish" => out'[j] # "error"]_vars

\* A deadline that passed ends its job (README, "Durability"), in the process
\* that took the job: after a restart recover may give up before the deadline.
DeadlineEnforced ==
    \A j \in Jobs :
        status[j] \in Active /\ deadline[j] = "past" /\ restarts = 0
            ~> status[j] \notin Active \/ down \/ restarts > 0

\* Whoever waits for a job returns once the job is over.
WaitersReturn ==
    \A c \in Calls, j \in Jobs :
        pc[c] = "blocked" /\ call[c].job = j /\ status[j] \in Terminal ~> pc[c] # "blocked"

\* The goroutine of a job that is over ends, whoever settled the job: the
\* prompt, the poll or the recovery wait it sits in is cut short.
GoroutinesEnd ==
    \A j \in Jobs : status[j] \in Terminal /\ pc[j] # "off" ~> pc[j] = "off"

\* README: "Retrying the same request with the same key returns the existing
\* job": no two jobs of a session were accepted under one key.
KeyAcceptedOnce ==
    \A i, j \in Jobs :
        /\ status[i] # "none" /\ status[j] # "none"
        /\ sess[i] = sess[j] /\ key[i] = key[j] /\ key[i] # NoKey
        => i = j

\* Reconcile marks a job done "when the opencode message stream proves that
\* the session completed": a job it changes to done is one whose own prompt
\* OpenCode finished.
ReconciledMeansFinished ==
    [][\A c \in Calls : LET j == call[c].job IN
          ReconcileMarks(c) /\ status[j] # "done" /\ status'[j] = "done" => j \in finished]_vars

\* README: "Jobs that were active during an executor restart are recovered as
\* unknown": every active job whose submission was answered.
ActiveIsRecovered ==
    [][restarts' # restarts =>
         \A j \in Jobs :
            status[j] \in Active /\ (\A c \in Calls : call[c].job = j => call[c].op # "submit")
            => status'[j] = "unknown"]_vars
=============================================================================
