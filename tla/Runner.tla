------------------------------- MODULE Runner -------------------------------
(***************************************************************************)
(* codex-opencode-runner (internal/runner): one run of "opencode run" in a *)
(* directory, under a lock on that directory, ended by the child, a        *)
(* signal, the timer or the context, and reported as one JSON object.      *)
(*                                                                         *)
(* Several runner processes may be started for the same directory.  A step *)
(* is one system call, one arm of a select, or what the child or the       *)
(* kernel does.  The Unix build is modelled.  Left out: how arguments,     *)
(* configuration and file names are made up, texts and durations.          *)
(***************************************************************************)
EXTENDS Naturals, Sequences, FiniteSets

CONSTANTS
    Runners,     \* runner processes
    Dirs,        \* canonical directories, one lock file each
    Nobody,      \* no runner
    MaxEvents,   \* bound on the lines a child writes
    Lines,       \* the kinds of lines a child may write, of those below
    MayDie       \* whether a runner may be killed

AllLines == {"text", "error", "junk",   \* an event, or no JSON
             "long"}                    \* more than the scanner's 10 MiB

ASSUME RunnerAssumption ==
    /\ Nobody \notin Runners
    /\ MaxEvents \in Nat
    /\ Lines \subseteq AllLines
    /\ MayDie \in BOOLEAN

VARIABLES
    pc, dir,
    lock,     \* who holds the flock of a directory
    child,    \* the child process: none, running, exited
    exit,     \* how it ended: ok, fail, or killed by a signal
    told,     \* the signals its process group has been sent
    waited,   \* waitDone: empty, with the value, or received
    sig,      \* sigCh holds a signal
    timer,    \* off, armed or fired
    ctx,      \* live, deadline or canceled
    verdict,  \* timedOut or cancelled, if set
    events,   \* the event log
    result    \* the statuses printed

vars == <<pc, dir, lock, child, exit, told, waited, sig, timer, ctx, verdict, events, result>>
childVars == <<child, exit, told, waited, events>>
causeVars == <<sig, timer, ctx, verdict>>

\* Where sigCh is in use.
Notified == {"select", "grace", "drain", "read"}
Ended    == {"over", "dead"}
Steps    == {"off", "lock", "prepare", "start", "started", "print", "release"}
            \cup Notified \cup Ended

Init ==
    /\ pc = [r \in Runners |-> "off"]
    /\ dir \in [Runners -> Dirs]
    /\ lock = [d \in Dirs |-> Nobody]
    /\ child = [r \in Runners |-> "none"]
    /\ exit = [r \in Runners |-> "none"]
    /\ told = [r \in Runners |-> {}]
    /\ waited = [r \in Runners |-> "empty"]
    /\ sig = [r \in Runners |-> FALSE]
    /\ timer = [r \in Runners |-> "off"]
    /\ ctx = [r \in Runners |-> "live"]
    /\ verdict = [r \in Runners |-> "none"]
    /\ events = [r \in Runners |-> <<>>]
    /\ result = [r \in Runners |-> <<>>]

Goto(r, from, to) ==
    /\ pc[r] = from
    /\ pc' = [pc EXCEPT ![r] = to]

\* finish: the result is printed before the deferred calls run.
Emit(r, from, status) ==
    /\ Goto(r, from, "release")
    /\ result' = [result EXCEPT ![r] = Append(@, status)]

-----------------------------------------------------------------------------
(* Before the child *)

Launch(r) ==
    /\ Goto(r, "off", "lock")
    /\ UNCHANGED <<dir, lock, childVars, causeVars, result>>

\* Mutant: the error of flock is dropped.
LockAnyway(r) ==
    /\ Goto(r, "lock", "prepare")
    /\ lock' = [lock EXCEPT ![dir[r]] = IF @ = Nobody THEN r ELSE @]
    /\ UNCHANGED <<dir, childVars, causeVars, result>>

\* AcquireDirLock: flock without waiting.
Lock(r) ==
    /\ lock[dir[r]] = Nobody
    /\ Goto(r, "lock", "prepare")
    /\ lock' = [lock EXCEPT ![dir[r]] = r]
    /\ UNCHANGED <<dir, childVars, causeVars, result>>

\* Another runner holds it, or the lock file cannot be made or written.
LockRefused(r) ==
    /\ Emit(r, "lock", "failed")
    /\ UNCHANGED <<dir, lock, childVars, causeVars>>

\* The log directory and the two logs.
Prepare(r) ==
    /\ \/ Goto(r, "prepare", "start") /\ result' = result
       \/ Emit(r, "prepare", "failed")
    /\ UNCHANGED <<dir, lock, childVars, causeVars>>

\* The child, in a process group of its own; then the signals and the timer.
StartChild(r) ==
    /\ \/ /\ Goto(r, "start", "started")
          /\ child' = [child EXCEPT ![r] = "running"]
          /\ result' = result
       \/ Emit(r, "start", "failed") /\ child' = child
    /\ UNCHANGED <<dir, lock, exit, told, waited, events, causeVars>>

Notify(r) ==
    /\ Goto(r, "started", "select")
    /\ timer' = [timer EXCEPT ![r] = "armed"]
    /\ UNCHANGED <<dir, lock, childVars, sig, ctx, verdict, result>>

-----------------------------------------------------------------------------
(* The select, and stopChild *)

\* A negative number kills the group, while there is one.
Kill(r, s) == told' = [told EXCEPT ![r] = IF child[r] = "running" THEN @ \cup {s} ELSE @]

ChildDone(r) ==
    /\ waited[r] = "value"
    /\ Goto(r, "select", "read")
    /\ waited' = [waited EXCEPT ![r] = "received"]
    /\ UNCHANGED <<dir, lock, child, exit, told, events, causeVars, result>>

\* Mutant: every interruption counts as a cancellation.
CauseIsCancel(r) ==
    IF sig[r] \/ timer[r] = "fired" \/ ctx[r] # "live" THEN {"cancelled"} ELSE {}
\* The arms that are ready; select takes any of them.
Cause(r) ==
    (IF sig[r] THEN {"cancelled"} ELSE {})
    \cup (IF timer[r] = "fired" THEN {"timed_out"} ELSE {})
    \cup (CASE ctx[r] = "deadline" -> {"timed_out"}
            [] ctx[r] = "canceled" -> {"cancelled"}
            [] OTHER -> {})

Interrupted(r) ==
    /\ Goto(r, "select", "grace")
    /\ \E v \in Cause(r) : verdict' = [verdict EXCEPT ![r] = v]
    /\ Kill(r, "term")
    /\ UNCHANGED <<dir, lock, child, exit, waited, events, sig, timer, ctx, result>>

\* Mutant: stopChild returns after the grace period.
GraceOverAndReturn(r) ==
    /\ Goto(r, "grace", "read")
    /\ UNCHANGED <<dir, lock, childVars, causeVars, result>>
\* Mutant: the second signal is another SIGTERM.
GraceOverAsksAgain(r) ==
    /\ Goto(r, "grace", "drain")
    /\ Kill(r, "term")
    /\ UNCHANGED <<dir, lock, child, exit, waited, events, causeVars, result>>

GraceOver(r) ==
    /\ Goto(r, "grace", "drain")
    /\ Kill(r, "kill")
    /\ UNCHANGED <<dir, lock, child, exit, waited, events, causeVars, result>>

ChildStopped(r) ==
    /\ waited[r] = "value"
    /\ Goto(r, "grace", "read") \/ Goto(r, "drain", "read")
    /\ waited' = [waited EXCEPT ![r] = "received"]
    /\ UNCHANGED <<dir, lock, child, exit, told, events, causeVars, result>>

-----------------------------------------------------------------------------
(* The result *)

\* ParseEventStream: the scanner ends at a line that does not fit its buffer;
\* lines that are no JSON are passed over.
Scanned(log) ==
    {i \in 1 .. Len(log) : \A k \in 1 .. i : log[k] # "long"}
HasError(log) == \E i \in Scanned(log) : log[i] = "error"

\* Mutant: the exit code alone decides.
StatusByExit(v, log, how) ==
    IF v # "none" THEN v ELSE IF how # "ok" THEN "failed" ELSE "completed"
Status(v, log, how) ==
    IF v # "none" THEN v ELSE IF HasError(log) \/ how # "ok" THEN "failed" ELSE "completed"

\* Reading the event log may fail.
Report(r) ==
    /\ \/ Emit(r, "read", Status(verdict[r], events[r], exit[r]))
       \/ Emit(r, "read", "failed")
    /\ UNCHANGED <<dir, lock, childVars, causeVars>>

\* The deferred calls and the exit of the process; the kernel drops the lock
\* with the process, if Release has not.
Release(r) ==
    /\ Goto(r, "release", "over")
    /\ lock' = [lock EXCEPT ![dir[r]] = IF @ = r THEN Nobody ELSE @]
    /\ UNCHANGED <<dir, childVars, causeVars, result>>

-----------------------------------------------------------------------------
(* The child, time, and whoever sends signals *)

Writes(r) ==
    /\ child[r] = "running" /\ Len(events[r]) < MaxEvents
    /\ \E l \in Lines : events' = [events EXCEPT ![r] = Append(@, l)]
    /\ UNCHANGED <<pc, dir, lock, child, exit, told, waited, causeVars, result>>

Ends(r, how) ==
    /\ child[r] = "running"
    /\ child' = [child EXCEPT ![r] = "exited"]
    /\ exit' = [exit EXCEPT ![r] = how]
    /\ UNCHANGED <<pc, dir, lock, told, waited, events, causeVars, result>>

\* A child may heed SIGTERM, also by exiting with 0, or ignore it.
ChildExits(r) == \E how \in {"ok", "fail"} : Ends(r, how)
ChildTermed(r) == "term" \in told[r] /\ Ends(r, "signal")
ChildKilled(r) == "kill" \in told[r] /\ Ends(r, "signal")

\* cmd.Wait, in its goroutine.
Reap(r) ==
    /\ pc[r] \notin Ended
    /\ child[r] = "exited" /\ waited[r] = "empty"
    /\ waited' = [waited EXCEPT ![r] = "value"]
    /\ UNCHANGED <<pc, dir, lock, child, exit, told, events, causeVars, result>>

TimerFires(r) ==
    /\ timer[r] = "armed" /\ pc[r] \in Notified
    /\ timer' = [timer EXCEPT ![r] = "fired"]
    /\ UNCHANGED <<pc, dir, lock, childVars, sig, ctx, verdict, result>>

ContextEnds(r) ==
    /\ ctx[r] = "live" /\ pc[r] = "select"
    /\ \E c \in {"deadline", "canceled"} : ctx' = [ctx EXCEPT ![r] = c]
    /\ UNCHANGED <<pc, dir, lock, childVars, sig, timer, verdict, result>>

Signaled(r) ==
    /\ pc[r] \in Notified
    /\ sig' = [sig EXCEPT ![r] = TRUE]
    /\ UNCHANGED <<pc, dir, lock, childVars, timer, ctx, verdict, result>>

\* SIGKILL at any time, or a signal where nobody is notified.  The kernel
\* drops the lock and sends the child SIGTERM (Pdeathsig).
Dies(r) ==
    /\ MayDie
    /\ pc[r] \notin {"off"} \cup Ended
    /\ pc' = [pc EXCEPT ![r] = "dead"]
    /\ lock' = [lock EXCEPT ![dir[r]] = IF @ = r THEN Nobody ELSE @]
    /\ Kill(r, "term")
    /\ UNCHANGED <<dir, child, exit, waited, events, causeVars, result>>

-----------------------------------------------------------------------------
Run(r) ==
    \/ Lock(r) \/ LockRefused(r) \/ Prepare(r) \/ StartChild(r) \/ Notify(r)
    \/ ChildDone(r) \/ Interrupted(r) \/ GraceOver(r) \/ ChildStopped(r)
    \/ Report(r) \/ Release(r)

Next ==
    \E r \in Runners :
        \/ Launch(r) \/ Run(r)
        \/ Writes(r) \/ ChildExits(r) \/ ChildTermed(r) \/ ChildKilled(r) \/ Reap(r)
        \/ TimerFires(r) \/ ContextEnds(r) \/ Signaled(r) \/ Dies(r)

Spec == Init /\ [][Next]_vars

\* The runner is scheduled, its timer goes on, and SIGKILL works.  The child
\* need not end by itself, nor on SIGTERM.
FairSpec ==
    /\ Spec
    /\ \A r \in Runners :
        WF_vars(Run(r)) /\ WF_vars(Reap(r)) /\ WF_vars(TimerFires(r)) /\ WF_vars(ChildKilled(r))

-----------------------------------------------------------------------------
(* Properties *)

TypeOK ==
    /\ pc \in [Runners -> Steps]
    /\ dir \in [Runners -> Dirs]
    /\ lock \in [Dirs -> Runners \cup {Nobody}]
    /\ child \in [Runners -> {"none", "running", "exited"}]
    /\ exit \in [Runners -> {"none", "ok", "fail", "signal"}]
    /\ told \in [Runners -> SUBSET {"term", "kill"}]
    /\ waited \in [Runners -> {"empty", "value", "received"}]
    /\ sig \in [Runners -> BOOLEAN]
    /\ timer \in [Runners -> {"off", "armed", "fired"}]
    /\ ctx \in [Runners -> {"live", "deadline", "canceled"}]
    /\ verdict \in [Runners -> {"none", "timed_out", "cancelled"}]
    /\ events \in [Runners -> Seq(AllLines)]
    /\ result \in [Runners -> Seq({"completed", "failed", "timed_out", "cancelled"})]

\* The lock does what it is for: two children work in one directory only if
\* the runner of one was killed and its child has not ended yet.
OneChildPerDirectory ==
    \A r, q \in Runners :
        r # q /\ dir[r] = dir[q] /\ child[r] = "running" /\ child[q] = "running"
        => pc[r] = "dead" \/ pc[q] = "dead"

\* A runner that has a result does not leave its child behind.
ResultMeansChildEnded ==
    \A r \in Runners : result[r] # <<>> => child[r] # "running"

Explained(r, status) ==
    CASE status = "completed" ->
            /\ exit[r] = "ok" /\ told[r] = {}
            /\ events[r] # <<>> => events[r][1] # "error"
      [] status = "timed_out" -> timer[r] = "fired" \/ ctx[r] = "deadline"
      [] status = "cancelled" -> sig[r] \/ ctx[r] = "canceled"
      [] OTHER -> TRUE

\* The result says what happened: completed is a child that ended by itself,
\* with success, unasked; the others name their cause.
StatusIsCause ==
    \A r \in Runners : \A i \in 1 .. Len(result[r]) : Explained(r, result[r][i])

\* Whatever the child does, a run ends, with exactly one result.
RunEnds ==
    \A r \in Runners :
        pc[r] = "lock" ~> pc[r] = "dead" \/ (pc[r] = "over" /\ Len(result[r]) = 1)

\* ParseEventStream: "Malformed lines are ignored for extraction": a run whose
\* log has an error event is not reported as completed.
ErrorsAreReported ==
    \A r \in Runners :
        (\E i \in DOMAIN events[r] : events[r][i] = "error")
        => \A i \in DOMAIN result[r] : result[r][i] # "completed"
=============================================================================
