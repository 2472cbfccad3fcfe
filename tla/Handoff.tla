------------------------------ MODULE Handoff ------------------------------
(***************************************************************************)
(* The MCP handlers of internal/tools/opencode/tools.go over the job       *)
(* manager, the workspace manager and OpenCode: execute, fire, check,      *)
(* verify, cleanup and the replies to OpenCode's requests.                 *)
(*                                                                         *)
(* Callers issue one call after the other; the calls of different callers  *)
(* interleave between any two of: a critical section of a manager, an HTTP *)
(* exchange, a git or file operation.  What the managers do inside is left *)
(* to JobManager and Workspace: a job is a status here, settled by anybody *)
(* and as JobLifecycle allows while there is no restart; a workspace is    *)
(* its record and whether its directory exists.  Left out: limits and the  *)
(* shape of results (CheckShape), the contents of prompts and workspaces.  *)
(***************************************************************************)
EXTENDS Naturals, Sequences, SequencesExt

CONSTANTS
    Callers,
    Sessions,      \* those that handoff_execute may create
    Jobs,          \* the submissions a behaviour may accept
    Requests,      \* the permission requests OpenCode may make
    NoSession, NoJob, NoRequest,
    Tools          \* the tools the callers use, of AllTools

AllTools == {"execute", "fire", "check", "verify", "cleanup", "reply"}

ASSUME HandoffAssumption ==
    /\ NoSession \notin Sessions
    /\ NoJob \notin Jobs
    /\ NoRequest \notin Requests
    /\ Tools \subseteq AllTools

VARIABLES
    pc, call,
    seen,       \* the first pending request of the caller's last check
    result,     \* what the caller's last call returned
    status, place,      \* of every job
    current,            \* Manager.jobs
    record,     \* Manager.records: none, owned, direct or cleaned
    dir,        \* the owned directory exists
    sent,       \* the jobs whose prompt has reached OpenCode
    turn,       \* OpenCode: the job whose turn the session runs
    last,       \* the latest assistant message: its job, and whether finished
    asked       \* the pending requests of the session

managerVars == <<status, place, current, sent>>
spaceVars   == <<record, dir>>
serverVars  == <<turn, last, asked>>
callerVars  == <<seen, result>>
vars == <<pc, call, callerVars, managerVars, spaceVars, serverVars>>

Terminal == {"done", "error", "canceled", "timed_out"}
Places   == {"own", "given"}     \* the workspace, or the caller's directory
NoMessage == [by |-> NoJob, fin |-> FALSE]
\* A call in progress: what it waits for, how the wait ended and what the last
\* message was then, what the check read, and the request it answers.
NoCall   == [op |-> "none", on |-> NoSession, job |-> NoJob, loc |-> "given", ended |-> "no",
             was |-> NoMessage, read |-> NoMessage, req |-> NoRequest]
NoResult == [st |-> "none", job |-> NoJob, for |-> NoJob, ended |-> "no", was |-> NoMessage]

Init ==
    /\ pc      = [c \in Callers |-> "idle"]
    /\ call    = [c \in Callers |-> NoCall]
    /\ seen    = [c \in Callers |-> NoRequest]
    /\ result  = [c \in Callers |-> NoResult]
    /\ status  = [j \in Jobs |-> "none"]
    /\ place   = [j \in Jobs |-> "given"]
    /\ current = [s \in Sessions |-> NoJob]
    /\ record  = [s \in Sessions |-> "none"]
    /\ dir     = [s \in Sessions |-> FALSE]
    /\ sent    = {}
    /\ turn    = [s \in Sessions |-> NoJob]
    /\ last    = [s \in Sessions |-> NoMessage]
    /\ asked   = [s \in Sessions |-> <<>>]

At(c, where) == pc[c] = where
Goto(c, where) == pc' = [pc EXCEPT ![c] = where]
On(c) == call[c].on

Begin(c, op, s, where) ==
    /\ At(c, "idle") /\ op \in Tools
    /\ Goto(c, where)
    /\ call' = [call EXCEPT ![c] = [NoCall EXCEPT !.op = op, !.on = s]]

\* A call that returns an error, or nothing the properties look at.
Return(c) ==
    /\ Goto(c, "idle")
    /\ call' = [call EXCEPT ![c] = NoCall]

\* No job of the session is active.
Inactive(s) == current[s] # NoJob => status[current[s]] \in Terminal

Known(s) == record[s] # "none"
Continuing(m) == m.by # NoJob /\ ~m.fin

-----------------------------------------------------------------------------
(* handoff_execute and handoff_fire *)

\* createSession, arguments validated before.  When OpenCode refuses, Open
\* rolls the workspace back, and nothing has happened; when the record cannot
\* be saved, session and workspace stay, and the caller gets the error.
ExecuteCreates(c, s) ==
    /\ ~Known(s)
    /\ Begin(c, "execute", s, "resolve") \/ UNCHANGED <<pc, call>>
    /\ At(c, "idle") /\ "execute" \in Tools
    /\ \E kind \in {"owned", "direct"} :
        /\ record' = [record EXCEPT ![s] = kind]
        /\ dir' = [dir EXCEPT ![s] = kind = "owned"]
    /\ UNCHANGED <<callerVars, managerVars, serverVars>>

FireBegins(c, s) ==
    /\ Known(s)
    /\ Begin(c, "fire", s, "resolve")
    /\ UNCHANGED <<callerVars, managerVars, spaceVars, serverVars>>

\* Manager.Resolve: a cleaned workspace is no workspace; the directory itself is
\* not looked at.
Resolved(s) == IF record[s] = "owned" THEN "own" ELSE "given"

SubmitResolves(c) ==
    /\ At(c, "resolve") /\ Goto(c, "submit")
    /\ call' = [call EXCEPT ![c].loc = Resolved(On(c))]
    /\ UNCHANGED <<callerVars, managerVars, spaceVars, serverVars>>

\* SubmitJob.  Whether the call waits afterwards is up to its arguments.
Submits(c, j) ==
    /\ At(c, "submit") /\ Inactive(On(c))
    /\ status[j] = "none"
    /\ status'  = [status EXCEPT ![j] = "running"]
    /\ place'   = [place EXCEPT ![j] = call[c].loc]
    /\ current' = [current EXCEPT ![On(c)] = j]
    /\ Goto(c, "wait") \/ Goto(c, IF call[c].op = "execute" THEN "tracked" ELSE "pending")
    /\ UNCHANGED <<call, sent, callerVars, spaceVars, serverVars>>

\* The idempotency key of the session's job, with the same request: the call goes
\* on with the job there is, active or not.
SubmitRepeats(c) ==
    /\ At(c, "submit") /\ current[On(c)] # NoJob
    /\ Goto(c, "wait") \/ Goto(c, IF call[c].op = "execute" THEN "tracked" ELSE "pending")
    /\ UNCHANGED <<call, callerVars, managerVars, spaceVars, serverVars>>

\* The session is busy, or the key was used with another request.
SubmitRefused(c) ==
    /\ At(c, "submit")
    /\ Return(c)
    /\ UNCHANGED <<callerVars, managerVars, spaceVars, serverVars>>

-----------------------------------------------------------------------------
(* Waiting: waitForHandoffCheck, and Manager.Wait for handoff_fire *)

CheckBegins(c, s) ==
    /\ Known(s)
    /\ Begin(c, "check", s, "wait") \/ Begin(c, "check", s, "tracked")
    /\ UNCHANGED <<callerVars, managerVars, spaceVars, serverVars>>

\* Manager.Wait looks its job up; a session without one is waited for at
\* OpenCode.
WaitLooksUp(c) ==
    /\ At(c, "wait") /\ Goto(c, IF current[On(c)] = NoJob THEN "remote" ELSE "local")
    /\ call' = [call EXCEPT ![c].job = current[On(c)]]
    /\ UNCHANGED <<callerVars, managerVars, spaceVars, serverVars>>

\* The wait is over, by itself or at its deadline.
WaitEnds(c, how) ==
    /\ Goto(c, IF call[c].op = "fire" THEN "pending" ELSE "tracked")
    /\ call' = [call EXCEPT ![c].ended = how, ![c].was = last[On(c)]]

RemoteWaitReturns(c) ==
    /\ At(c, "remote")
    /\ turn[On(c)] = NoJob
    /\ WaitEnds(c, "remote")
    /\ UNCHANGED <<callerVars, managerVars, spaceVars, serverVars>>

\* Mutant: the end of the local job is the end of the wait.
LocalEndEndsWait(c) ==
    /\ At(c, "local")
    /\ status[call[c].job] \in Terminal
    /\ WaitEnds(c, "self")
    /\ UNCHANGED <<callerVars, managerVars, spaceVars, serverVars>>

LocalWaitReturns(c) ==
    /\ At(c, "local")
    /\ status[call[c].job] \in Terminal
    /\ IF call[c].op = "fire" THEN WaitEnds(c, "self") ELSE Goto(c, "poll") /\ UNCHANGED call
    /\ UNCHANGED <<callerVars, managerVars, spaceVars, serverVars>>

PollJob(c) ==
    /\ At(c, "poll")
    /\ IF status[current[On(c)]] \in {"error", "canceled", "timed_out"}
       THEN WaitEnds(c, "self")
       ELSE Goto(c, "pollread") /\ UNCHANGED call
    /\ UNCHANGED <<callerVars, managerVars, spaceVars, serverVars>>

\* The messages of the session; reading them may fail.
PollMessages(c) ==
    /\ At(c, "pollread")
    /\ \/ ~Continuing(last[On(c)]) /\ WaitEnds(c, "self")
       \/ Goto(c, "poll") /\ UNCHANGED call
    /\ UNCHANGED <<callerVars, managerVars, spaceVars, serverVars>>

\* Mutant: only the wait for the manager looks at the deadline.
ExpiresLocally(c) ==
    /\ At(c, "local") /\ WaitEnds(c, "expired")
    /\ UNCHANGED <<callerVars, managerVars, spaceVars, serverVars>>
WaitExpires(c) ==
    /\ pc[c] \in {"remote", "local", "poll", "pollread"}
    /\ WaitEnds(c, "expired")
    /\ UNCHANGED <<callerVars, managerVars, spaceVars, serverVars>>

-----------------------------------------------------------------------------
(* doCheck *)

Tracks(c) ==
    /\ At(c, "tracked")
    /\ Goto(c, IF current[On(c)] = NoJob THEN "untracked" ELSE "read")
    /\ UNCHANGED <<call, callerVars, managerVars, spaceVars, serverVars>>

Reports(c, st, j) ==
    result' = [result EXCEPT ![c] =
                 [st |-> st, job |-> j, for |-> call[c].job, ended |-> call[c].ended, was |-> call[c].was]]

\* The status of a session that is not tracked is what its messages say.
ReadsUntracked(c) ==
    /\ At(c, "untracked")
    /\ Reports(c, IF last[On(c)].fin THEN "done" ELSE "running", NoJob)
    /\ Goto(c, "pending")
    /\ UNCHANGED <<call, seen, managerVars, spaceVars, serverVars>>

\* A check whose messages cannot be read returns the error.
Reads(c) ==
    /\ At(c, "read")
    /\ \/ /\ Goto(c, "fetch")
          /\ call' = [call EXCEPT ![c].read = last[On(c)]]
       \/ Return(c)
    /\ UNCHANGED <<callerVars, managerVars, spaceVars, serverVars>>

\* fetchPending; it may fail for either kind, and the call goes on.  A check of a
\* tracked session has its job to reconcile, other calls return.
FetchesPending(c) ==
    /\ pc[c] \in {"fetch", "pending"}
    /\ \E r \in {NoRequest} \cup {asked[On(c)][i] : i \in 1 .. 1 \cap DOMAIN asked[On(c)]} :
          seen' = [seen EXCEPT ![c] = r]
    /\ IF pc[c] = "fetch" THEN Goto(c, "reconcile") /\ UNCHANGED call ELSE Return(c)
    /\ UNCHANGED <<result, managerVars, spaceVars, serverVars>>

\* Reconcile: only a cancellation and a timeout are kept.
Reconciled(c) ==
    LET st == status[current[On(c)]] IN
    IF call[c].read.fin /\ st \notin {"canceled", "timed_out"} THEN "done" ELSE st

\* A job that is done is still running while the assistant continues.
Reported(c) ==
    IF Reconciled(c) = "done" /\ Continuing(call[c].read) THEN "running" ELSE Reconciled(c)

\* The job reported is the tracked one, which need not be the one waited for.
Reconciles(c) ==
    /\ At(c, "reconcile")
    /\ status' = [status EXCEPT ![current[On(c)]] = Reconciled(c)]
    /\ Reports(c, Reported(c), current[On(c)])
    /\ Return(c)
    /\ UNCHANGED <<seen, place, current, sent, spaceVars, serverVars>>

-----------------------------------------------------------------------------
(* handoff_verify and handoff_cleanup *)

\* requireInactiveJob; what follows does not ask again.
WorkspaceCall(c, op, s) ==
    /\ Known(s)
    /\ Inactive(s)
    /\ Begin(c, op, s, op)
    /\ UNCHANGED <<callerVars, managerVars, spaceVars, serverVars>>

VerifyBegins(c, s)  == WorkspaceCall(c, "verify", s)
CleanupBegins(c, s) == WorkspaceCall(c, "cleanup", s)

\* Workspace!VerifyEnds: the checks have run.
VerifyEnds(c) ==
    /\ At(c, "verify") /\ Return(c)
    /\ UNCHANGED <<callerVars, managerVars, spaceVars, serverVars>>

\* Mutant: an error of the removal is passed over.
RemovesOrNot(c) ==
    /\ At(c, "cleanup")
    /\ \/ /\ record[On(c)] = "owned"
          /\ dir' = [dir EXCEPT ![On(c)] = FALSE] \/ UNCHANGED dir
          /\ Goto(c, "mark") /\ UNCHANGED <<call, record>>
       \/ Return(c) /\ UNCHANGED spaceVars
    /\ UNCHANGED <<callerVars, managerVars, serverVars>>

\* Cleanup: refused, or the directory goes; a removal that fails ends the call.
CleanupRemoves(c) ==
    /\ At(c, "cleanup")
    /\ \/ /\ record[On(c)] = "owned"
          /\ dir' = [dir EXCEPT ![On(c)] = FALSE]
          /\ Goto(c, "mark") /\ UNCHANGED <<call, record>>
       \/ Return(c) /\ UNCHANGED spaceVars
    /\ UNCHANGED <<callerVars, managerVars, serverVars>>

\* markCleaned, unless the branch cannot be deleted: then the record still names
\* the directory that is gone.
CleanupMarks(c) ==
    /\ At(c, "mark") /\ Return(c)
    /\ record' = [record EXCEPT ![On(c)] = "cleaned"] \/ UNCHANGED record
    /\ UNCHANGED <<dir, callerVars, managerVars, serverVars>>

-----------------------------------------------------------------------------
(* handoff_permission_reply and handoff_question_reply *)

\* A caller replies after a check showed it a request.
ReplyReads(c, s) ==
    /\ seen[c] # NoRequest
    /\ asked[s] # <<>>
    /\ At(c, "idle") /\ "reply" \in Tools
    /\ Goto(c, "reply")
    /\ call' = [call EXCEPT ![c] = [NoCall EXCEPT !.op = "reply", !.on = s, !.req = Head(asked[s])]]
    /\ UNCHANGED <<callerVars, managerVars, spaceVars, serverVars>>

\* OpenCode takes an answer to a request that is pending, once; a reply that is
\* refused or does not get there ends the call.
ReplyPosts(c) ==
    /\ At(c, "reply")
    /\ \/ /\ \E i \in DOMAIN asked[On(c)] :
              /\ asked[On(c)][i] = call[c].req
              /\ asked' = [asked EXCEPT ![On(c)] = RemoveAt(@, i)]
          /\ Goto(c, "pending") /\ UNCHANGED call
       \/ Return(c) /\ UNCHANGED asked
    /\ UNCHANGED <<callerVars, managerVars, spaceVars, turn, last>>

-----------------------------------------------------------------------------
(* The job manager and OpenCode *)

\* The prompt reaches OpenCode.
PromptArrives(s) ==
    /\ current[s] # NoJob /\ status[current[s]] = "running"
    /\ turn[s] = NoJob /\ current[s] \notin sent
    /\ sent' = sent \cup {current[s]}
    /\ turn' = [turn EXCEPT ![s] = current[s]]
    /\ UNCHANGED <<pc, call, callerVars, status, place, current, spaceVars, last, asked>>

\* JobManager settles a job; done by run, whose prompt was answered: the messages
\* may be empty then, or those of an earlier turn.
JobSettles(s, st) ==
    /\ current[s] # NoJob /\ status[current[s]] = "running"
    /\ st = "done" => current[s] \in sent
    /\ status' = [status EXCEPT ![current[s]] = st]
    /\ UNCHANGED <<pc, call, callerVars, place, current, sent, spaceVars, serverVars>>

TurnSpeaks(s) ==
    /\ turn[s] # NoJob
    /\ \E fin \in BOOLEAN :
        /\ last' = [last EXCEPT ![s] = [by |-> turn[s], fin |-> fin]]
        /\ turn' = IF fin THEN [turn EXCEPT ![s] = NoJob] ELSE turn
        /\ asked' = IF fin THEN [asked EXCEPT ![s] = <<>>] ELSE asked
    /\ UNCHANGED <<pc, call, callerVars, managerVars, spaceVars>>

TurnBreaks(s) ==
    /\ turn[s] # NoJob
    /\ turn' = [turn EXCEPT ![s] = NoJob]
    /\ asked' = [asked EXCEPT ![s] = <<>>]
    /\ UNCHANGED <<pc, call, callerVars, managerVars, spaceVars, last>>

TurnAsks(s, r) ==
    /\ turn[s] # NoJob
    /\ \A q \in Sessions : \A i \in DOMAIN asked[q] : asked[q][i] # r
    /\ asked' = [asked EXCEPT ![s] = Append(@, r)]
    /\ UNCHANGED <<pc, call, callerVars, managerVars, spaceVars, turn, last>>

-----------------------------------------------------------------------------
CallRuns(c) ==
    \/ SubmitResolves(c) \/ (\E j \in Jobs : Submits(c, j)) \/ SubmitRepeats(c) \/ SubmitRefused(c)
    \/ WaitLooksUp(c) \/ LocalWaitReturns(c) \/ PollJob(c) \/ PollMessages(c)
    \/ Tracks(c) \/ ReadsUntracked(c) \/ Reads(c) \/ FetchesPending(c) \/ Reconciles(c)
    \/ VerifyEnds(c) \/ CleanupRemoves(c) \/ CleanupMarks(c) \/ ReplyPosts(c)

CallBegins(c) ==
    \E s \in Sessions :
        \/ ExecuteCreates(c, s) \/ FireBegins(c, s) \/ CheckBegins(c, s)
        \/ VerifyBegins(c, s) \/ CleanupBegins(c, s) \/ ReplyReads(c, s)

Next ==
    \/ \E c \in Callers : CallBegins(c) \/ CallRuns(c) \/ RemoteWaitReturns(c) \/ WaitExpires(c)
    \/ \E s \in Sessions :
        \/ PromptArrives(s) \/ TurnSpeaks(s) \/ TurnBreaks(s)
        \/ \E st \in Terminal : JobSettles(s, st)
        \/ \E r \in Requests : TurnAsks(s, r)

Spec == Init /\ [][Next]_vars

\* Handlers are scheduled and their deadlines pass; OpenCode need not answer.
FairSpec == Spec /\ \A c \in Callers : WF_vars(CallRuns(c)) /\ WF_vars(WaitExpires(c))

-----------------------------------------------------------------------------
(* Properties *)

Points == {"idle", "resolve", "submit", "wait", "remote", "local", "poll", "pollread",
           "tracked", "untracked", "read", "fetch", "reconcile", "pending",
           "verify", "cleanup", "mark", "reply"}
Message == [by : Jobs \cup {NoJob}, fin : BOOLEAN]
Endings == {"no", "self", "remote", "expired"}

\* A call that works on a session has one, and one that waits locally a job.
TypeOK ==
    /\ pc \in [Callers -> Points]
    /\ call \in [Callers -> [op : AllTools \cup {"none"}, on : Sessions \cup {NoSession},
                            job : Jobs \cup {NoJob}, loc : Places, ended : Endings,
                            was : Message, read : Message, req : Requests \cup {NoRequest}]]
    /\ \A c \in Callers : pc[c] # "idle" => On(c) \in Sessions
    /\ \A c \in Callers : pc[c] = "local" => call[c].job \in Jobs
    /\ \A c \in Callers : pc[c] = "reconcile" => current[On(c)] \in Jobs
    /\ seen \in [Callers -> Requests \cup {NoRequest}]
    /\ result \in [Callers -> [st : Terminal \cup {"none", "running"}, job : Jobs \cup {NoJob},
                              for : Jobs \cup {NoJob}, ended : Endings, was : Message]]
    /\ status \in [Jobs -> Terminal \cup {"none", "running"}]
    /\ place \in [Jobs -> Places]
    /\ current \in [Sessions -> Jobs \cup {NoJob}]
    /\ record \in [Sessions -> {"none", "owned", "direct", "cleaned"}]
    /\ dir \in [Sessions -> BOOLEAN]
    /\ sent \subseteq Jobs
    /\ turn \in [Sessions -> Jobs \cup {NoJob}]
    /\ last \in [Sessions -> Message]
    /\ asked \in [Sessions -> Seq(Requests)]

Running(s) == current[s] # NoJob /\ status[current[s]] = "running"

\* A wait that ended by itself, with messages of the job it waited for, is
\* followed by a settled status for that job: handoff_check need not be
\* repeated because OpenCode had only begun (waitForHandoffCheck: "we keep
\* polling OpenCode until the latest assistant turn is terminal").
WaitMeansSettled ==
    \A c \in Callers : LET r == result[c] IN
        r.ended = "self" /\ r.job # NoJob /\ r.job = r.for /\ r.was.by = r.job
        => r.st \in Terminal

\* README: "Cleanup refuses to run while a tracked job is active": no
\* workspace directory disappears under a running job.
CleanupSparesActive ==
    [][\A s \in Sessions : dir[s] /\ ~dir'[s] => ~Running(s)]_vars

\* handoff_verify: "Run executable+argv verification checks in a completed
\* session workspace": no job is running while the checks run.
VerifyOnCompleted ==
    \A c \in Callers : pc[c] = "verify" => ~Running(On(c))

\* README, handoff_create_session: "Create a model session and bind its
\* workspace": no job is sent to the directory the caller gives instead while
\* the session's own directory is there, whatever call overlaps the submission
\* and wherever a cleanup fails.
WorkspaceNotBypassed ==
    [][\A s \in Sessions : ~Running(s) /\ Running(s)' =>
         (place'[current'[s]] = "given" => ~dir[s])]_vars

\* What one would like to add and the code does not give: no job is sent to a
\* directory of the executor's that is gone.  A cleanup that could not delete
\* the branch, or that came in after Resolve, leaves such a job.
SentToWhatIsThere ==
    [][\A s \in Sessions : ~Running(s) /\ Running(s)' =>
         (place'[current'[s]] = "own" => dir[s])]_vars

\* handoff_permission_reply: "Reply to a pending permission request.  See
\* handoff_check for pending permissions": the request that is answered is
\* the one the caller was shown.
ReplyAnswersSeen ==
    \A c \in Callers : pc[c] = "reply" => call[c].req = seen[c]

\* Every call returns, whatever OpenCode does or fails to do: the polling loop
\* has no other bound than its context.
CallsReturn == \A c \in Callers : pc[c] # "idle" ~> pc[c] = "idle"
=============================================================================
