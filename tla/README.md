# A verification project for codex-opencode-executor

`codex-opencode-executor` is an MCP server that hands coding tasks to OpenCode:
a client creates a session, fires a prompt at it, checks, waits, cancels, and
reviews the workspace the work was done in. This directory holds TLA+ models of
it, the TLC configurations that check them, and TLAPS proofs. Every definition
translates code under `src/`; `PROJECT.json` maps each to its lines, lists the
hazards of the code line by line with the properties that watch them, and names a
mutant of the code for every property, an operator that stands next to the
definition it changes and makes the property fail.

    tlc -config MCJobManager.cfg MCJobManager.tla     # a run
    tlapm JobManagerProofs.tla                        # the proofs of a module

Contents: [Inventory](#inventory), [Plan](#plan), the models
([JobManager](#jobmanager), [Workspace](#workspace), [LocalServer](#localserver),
[Runner](#runner), [Handoff](#handoff), [HandoffArgs](#handoffargs),
[CheckShape](#checkshape-and-json),
[OpenCodeClient](#opencodeclient-and-the-generated-api)), [Runs](#runs),
[Fairness](#fairness), [Disagreements](#disagreements-between-code-and-documentation)
and [further ones](#further-disagreements), [Proofs](#proofs), [Not modelled](#not-modelled).

## Inventory

| Component (code) | State | Operations | What makes it hard | What makes it correct | Here |
| --- | --- | --- | --- | --- | --- |
| Job manager (`internal/tools/opencode/manager.go`) | a job per session, the idempotency index, one JSON record per session on disk, a goroutine per job | SubmitJob, Cancel, Wait, Reconcile, run, timeout, finish, recover, saveJob, loadJobs | critical sections split around HTTP and file operations; deadlines; restarts at any point | one active job per session, settled once, nobody waits forever, records never ahead of jobs | `JobManager`, `JobLifecycle`, `JobManagerProofs` |
| Handoff handlers (`tools.go`, `execution.go`, `session.go`) | none of their own | fire, check, wait, execute, cancel, permission and question replies, workspace tools | they read a job, talk to OpenCode, and act on what they read | no result about the wrong job, no cleanup under an active job, nothing created on bad input | `Handoff`, `HandoffProofs`, `HandoffArgs`, `HandoffArgsProofs`; cancel in `JobManager` |
| Result shaping (`format.go`, `types.go`) | none | finish classification, `handoff_check` result, truncation | the running / finished / continuing distinction, two shapes of messages | final text only from a finished turn | `CheckShape`, `CheckShapeProofs`, `Json`, `JsonProofs` |
| Workspace manager (`internal/workspace/workspace.go`) | a record per session in memory and on disk; worktrees, branches, directories | Open with rollback, Resolve, Inspect, Diff, Verify, Cleanup | several git steps that fail one by one; saves outside the lock; crashes | what is created is owned by a record or rolled back; no work removed without force | `Workspace`, `WorkspaceLifecycle`, `WorkspaceProofs` |
| Runner (`internal/runner`, `cmd/codex-opencode-runner`) | directory lock, child process group, event log | Run | completion, signal, timer and context race | one runner per directory, one result whose status is what happened | `Runner`, `RunnerProofs` |
| Executor process (`cmd/codex-opencode-executor`) | root context, local OpenCode server | Create, startLocal, waitForHTTP, stop, main's deferred calls | one exit value read by two; shutdown order; two executors and one port | the server is stopped, jobs survive a shutdown | `LocalServer`, `OpenCodeProofs`; root context and restart in `JobManager` |
| OpenCode client (`client.go`) | none | a method per operation, two of them with a fallback to another API | answers of many forms, from another version of another program | what OpenCode did is what the caller is told | `OpenCodeClient`, `OpenCodeProofs` |
| Generated API (`opencodeapi`) | none | encode, send, decode and validate per operation | optional, null and unknown fields | | `ApiCalls`, `ApiTypes`, `ApiRules`, `Schemas` |
| Permission modes, toolset (`permission.go`, `toolset.go`) | none | parsing, defaults, registration of tools | precedence | nothing allowed that nobody asked for | `HandoffArgs`, without the registration |
| MCP transport helpers (`internal/mcputil`) | none | plumbing | | | not modelled |
| OpenCode | sessions, turns, messages, requests | external | answers late, lost, or cut by a context | | as the environment of each model |

How they interact: a handler calls the job manager and the workspace manager
directly; the job manager starts a goroutine per job, which talks to OpenCode
over HTTP; handlers and that goroutine share the `Job` under `Job.mu` and the
maps under `Manager.mu`; `Job.done` wakes waiters; the state directories are all
that survives the process. The two managers do not know of one another: only
the handlers relate a job to a workspace, which is what `Handoff` is about. The
runner is a program of its own.

## Plan

Done:

1. `JobManager`, `JobLifecycle` and the refinement between them; all its safety
   properties and the refinement proved.
2. `Workspace` over an explicit file system, `WorkspaceLifecycle` and the refinement
   between them; all its safety properties and the refinement proved.
3. `LocalServer`, with the prompts in flight when main's deferred calls run; its
   invariants proved.
4. `Runner`; its invariants proved.
5. `Handoff`, the composition: handlers over a job manager and a workspace
   manager reduced to what their own modules show; its safety properties proved, where
   a job is sent for any callers, the others for calls on one session that do not overlap.
6. `HandoffArgs`, `CheckShape` and `OpenCodeClient`, the safety properties of all three
   proved: what is pure in the handlers, the results and the client, the last over the
   generated code of the API (`Schemas`, `ApiTypes`, `ApiRules`, `ApiCalls`).

Every safety property that a run checks is proved. Left: the server half of the
generated API and of the tools, should the program come to use the one or keep state
in the other.

Modules meant for proofs declare no RECURSIVE operators, name the assumptions on
their constants, and have one action per operation.

## JobManager

**Threads.** A thread is a goroutine. Every job has at most one (`run` after
SubmitJob, `recover` after a restart), named by the job itself; each MCP call in
progress has one. `pc` says where a thread is. A step is what a thread does
between two points where another can intervene: one critical section, one HTTP
exchange, one file operation. A call's steps after its last change of state are
not modelled, and neither are calls that return without having changed anything.

**State and code.**

| Variables | Code |
| --- | --- |
| `status`, `key`, `deadline`, `handle`, `doneClosed` | `Job.Status`, `IdempotencyKey`, `Deadline`, `cancel # nil`, `done` closed |
| `sess` | the session id of a job, chosen by Init once and for all |
| `ctx` | the context of the job's goroutine: live, expired or canceled |
| `current`, `index` | `Manager.jobs`, `Manager.idempotency` |
| `diskJob`, `diskStatus` | the session's record in the state directory |
| `call`, `out`, `buf` | locals: a call's job pointer, the outcome on its way to `finish`, saveJob's snapshot |
| `turn`, `last`, `finished` | OpenCode: the running turn of a session, its latest assistant message, the prompts whose turns really finished |
| `answered` | for a property: the jobs whose prompt came back with a response |
| `down`, `restarts` | the root context is canceled; restarts so far |

**Actions.** `Submit` is the section of SubmitJob under `Manager.mu`; the save and
the `go` statement follow as `Snapshot`, `Rename` and `AfterSave`. `CancelBegin`,
`CancelAborts` and `CancelMarks` are Cancel before, during and after the abort.
`CheckReads`, `ReconcileLooksUp` and `ReconcileMarks` are doCheck and Reconcile.
`WaitBegin`, `WaitReturns` and `WaitExpires` are Wait. `Deliver`, `PromptReturns`,
`AwaitFinished` and `AwaitStops` are run and awaitOpenCodeFinished;
`TimeoutAborts` and `Finish` end both run and recover; `RecoverWaited`,
`RecoverWaitFails` and `RecoverReads` are recover. `Publish` (signalDone, cancel),
`Snapshot` and `Rename` follow every change of status. `Expire` and
`RecoveryExpires` are time, `TurnWorks`, `TurnFinishes` and `TurnBreaks` OpenCode.
`Shutdown` cancels the root context; `Restart` may come with or without it, at any
point, and loads what is on disk.

**Three things folded into neighbouring steps**, each because nobody else can tell:
taking `job.cancel` in the section that settles a job and calling it afterwards is
one effect, in `Publish`; the deferred cancel of run is in its last step; a poll of
awaitOpenCodeFinished that finds the turn continuing changes nothing.

**OpenCode** is external: a session runs one turn at a time; a prompt starts one
when none is running; a turn may publish messages, finish, break off, or be
stopped by an abort, which is addressed to the session and not to a prompt. A
prompt may be answered at any time once it was delivered: while the turn goes on (the
comment at manager.go:648), before it has published a message, or without one at all
(manager.go:674: "empty messages / no assistant turn"), and then run settles the job as
done. That is why a job that is done need not have a finished turn of its own, and
`DoneHasEvidence` says what is behind it instead: an answer to its prompt, or a finish in
its session. `finished` and `answered` are read by properties only, and a run that
checks none of these looks at states without them (`VIEW WithoutHistory`).

**JobLifecycle** is what a caller may rely on, without goroutines or files: a
session has a slot, a job enters it when no active job is in it, settles once, may
be amended from error to done, and after a restart is tracked as something it was
or could have become, or is forgotten. `ImplementsLifecycle` (`INSTANCE
JobLifecycle WITH epoch <- restarts`) is a property of `JobManager`, checked and
proved.

| Property | What could break it |
| --- | --- |
| `TypeOK` | besides types: a call going through a nil job pointer |
| `IndexMatchesCurrent` | a key left behind, or lost, by a replacement or a restart |
| `ActiveIsTracked` | a second active job admitted, or one lost from the map |
| `NoLostWakeup` | a path that settles a job and does not close `done` |
| `SettledOnDiskIsSettled` | a record ahead of its job: a restart inventing an outcome |
| `DoneHasEvidence` | a job that never reached OpenCode, or whose prompt failed, taken for a finished one |
| `SettledIsFinal` | a late answer, timer or check overwriting an outcome |
| `ImplementsLifecycle` | any of these across a restart |
| `ShutdownFailsNoJob` | prompts cut by a shutdown taken for failures |
| `WaitersReturn`, `GoroutinesEnd` | a waiter or a goroutine that hangs |
| `DeadlineEnforced` | a deadline that passes while nobody looks; stated for a process that was not restarted, see [further disagreements](#further-disagreements) |

## Workspace

**State and code.**

| Variables | Code |
| --- | --- |
| `known`, `records` | `Manager.records` |
| `saved`, `disk` | the files of the state directory |
| `tree` | the directory of a place: none, clean, with uncommitted work; `missing`: deleted, but still a worktree to Git |
| `history` | the branch of a worktree, or the repository of a greenfield directory: none, at its base, or with commits found nowhere else |
| `used` | worktree ids and session ids handed out, which are random and not repeated |
| `call` | the calls in progress: the record a call copied (`rec`), the one it is about to save (`out`), flags |
| `ran` | the number of the latest verification result of a session |
| `discarded`, `strayed` | for the properties: places whose work a cleanup without force removed, and those a failed step or a crash left to nobody |

A place is a slot (worktree and branch, random id), a path (a directory asked for
with `create_directory`) or the source directory itself.

**Actions.** Open is `OpenDirect`, `OpenWorktree`, `AddInterrupted` or
`OpenGreenfield` (prepare), then `SessionOpened` or `SessionRefused` (the opener, an
HTTP call), `RollbackTree` and `RollbackBranch`, or `Bind` and `SaveNew`. Verify is
`VerifyBegin`, then for each check `CheckRuns` (the check, and its result under the
lock) and `SaveCheck`. Inspect is `InspectBegin`, `Stat`, `Discover` (the Git commands of
discoverGreenfieldGit, outside the lock), `RecordGit` (its critical section) and
`SaveGit`, and `Scan` (inspectGit). Between `Discover` and `RecordGit` the record may be
cleaned or verified, and the directory removed or made anew. Cleanup is an Inspect (`CleanupBegin`)
followed by `Decide`, `RemoveTree` and `RemoveBranch` (git worktree remove, git branch
-d or -D) or `CheckEmpty` and `RemoveAll`, and `MarkCleaned` with `SaveMark`. Every save
is one step, after the lock is released; a check that fails to run is a result as well.
A branch that cannot be deleted ends the cleanup and leaves the record as it was.
`Works`, `InitsRepository`, `Commits` and `Vanishes` are the agent, a verification or a
person at work in a directory. `Crash` loses memory and calls and loads the files.
`Faults` names what may fail: `git worktree add` half-way, a removal, a save, a
directory deleted from outside.

**Folded**: writing the temporary file and renaming it is one step, because nobody
reads the temporary file; the failure of a direct session's opener changes nothing;
the Git commands of one inspection are one, since only whether there are changes is
kept, and so are the two of a discovery, since the first one's success says nothing that
the second one's does not.

**WorkspaceLifecycle** is what the manager promises about workspaces, without calls,
files or Git commands: the `state` of a session's workspace (none, open, cleaned), its
`place`, the number of its latest verification result, the `content` of every place
(none, base, ahead: with commits found nowhere else), and who is being `forced`. A
session is bound once; a worktree is one session's; commits in a bound worktree are
dropped with force only, by a cleanup of that session; a worktree called cleaned is
gone; results grow by one while the workspace is open; a restart may bring a workspace
back in an earlier state, but at the same place, with no newer results, and with
nothing changed on disk. `ImplementsWorkspaceLifecycle` (`INSTANCE WorkspaceLifecycle`
with `State`, `Place`, `Results`, `Content`, `ForcedNow` and `crashes`) says that
`Workspace` keeps all of this with its split sections, stale copies and late saves. What
is *not* promised is as much a result: a directory of the client's may be bound twice,
dropped without force, or dropped while it is another session's (`GreenfieldWorkKept`
and `OthersWorkspaceKept` [below](#further-disagreements)), and a result may be lost
when the record is cleaned (`ResultsKept`), which is why nothing is said of the results
of a cleaned workspace.

| Property | What could break it |
| --- | --- |
| `ImplementsWorkspaceLifecycle` | a slot given to a second session, a record saved for a session that is not bound, force taken from another call, a record on disk ahead of memory |
| `NothingStray` | a rollback that is forgotten, a record marked before the removal |
| `CleanedMeansGone` | an error of Git ignored, the mark before the last removal |
| `WorkInWorktreesKept` | a commit made after the inspection, lost with the branch |
| `HistoryComplete` | overlapping calls that store a record they copied earlier |
| `CleanedStays` | the discovery of Git, whose record is cleaned before it gets the lock, bringing it back to life |
| `GreenfieldCleanedInTheEnd` | a record that no cleanup can ever mark after a fault, once its directory is gone for good |

## LocalServer

One executor process is `pc` (main's goroutine, from Create to the exit), `mode`,
`port`, `ready` and `ctx` (the root context); its server process is `server` and the
signals it got, `told`; `done` is where the exit value of the server is: not reaped,
in the channel of one place, in waitForHTTP's hand, or received. `prompt` is a job's
prompt in flight. Several executors share the ports of a machine.

`FindPort`, `StartServer`, `StartFails` are startLocal; `ProbeAnswered`, `ProbeFails`,
`ExitSeen`, `ExitPutBack`, `StartupTimesOut`, `ProbeAgain` are waitForHTTP;
`CreateClient` and `CreateRemote` end Create; `StopSignals`, `StopReceives`, `StopKills`
are stop, called where startup fails or by main's deferred closeClient; `RunReturns`,
`CancelRoot`, `MainReturns` are the end of main in the order of its deferred calls;
`Dies` is os.Exit or a signal, after which the kernel sends the server SIGTERM
(Pdeathsig). `ServerListens`, `ServerCrashes`, `ServerQuits`, `ServerObeys` are the server
and `Reap` the goroutine that waits for it. `SendPrompt`, `PromptAnswered` and
`PromptBroken` are a job, reduced to what run does when its prompt fails.

`ExitStillToCome` says that stop never waits for a value that somebody else took;
`NoServerLeftBehind` that an orderly exit leaves no server; `StopReturns` that stop
comes back from a server that ignores the interrupt. That a server follows an
executor that dies is the kernel's doing (Pdeathsig) and here an assumption.

## Runner

`pc`, `dir`, `lock` (the flock of a directory), the child (`child`, `exit`, `told`, and
`waited` for the channel waitDone), the four causes (`sig`, `timer`, `ctx`, and
`verdict` for timedOut and cancelled), `events` (the kinds of lines in the event log)
and `result` (what was printed). `Lock`, `LockRefused`, `Prepare`, `StartChild`, `Notify`
lead to the select, whose arms are `ChildDone` and `Interrupted`; `GraceOver` and
`ChildStopped` are stopChild; `Report` is ParseEventStream and the choice of the
status; `Release` the deferred calls. `Dies` is SIGKILL: the kernel drops the lock and
sends the child SIGTERM, which the child may ignore. A child writes lines, exits with
any code at any time, and ends on SIGKILL.

`StatusIsCause` relates the printed status to what happened before it: completed is a
child that ended by itself, with success, unasked, and without a first error; the
others name a cause that occurred. `ResultMeansChildEnded` and `OneChildPerDirectory`
are about who may still be at work, `RunEnds` about a child that will not end.


## Handoff

The composition. A call is a handler: execute, fire, check, verify, cleanup, or a
reply. Between any two of its critical sections, HTTP exchanges and git operations
other calls, the job's goroutine and OpenCode may move. The managers appear as
their own modules leave them: a job is a `status` that `JobSettles` settles as
`JobLifecycle` allows, a workspace is its `record` and whether its directory exists
(`dir`). `current` is `Manager.jobs`; `turn`, `last` and `asked` are OpenCode's turn,
its latest message and its pending permission requests; `seen` and `result` are what
a caller was last told.

| Actions | Code |
| --- | --- |
| `ExecuteCreates`, `FireBegins`, `SubmitResolves`, `Submits`, `SubmitRepeats`, `SubmitRefused` | handoff_execute and handoff_fire: createSession, Resolve, SubmitJob with a new job, one it has under the same key, or an error |
| `CheckBegins`, `WaitLooksUp`, `RemoteWaitReturns`, `LocalWaitReturns`, `PollJob`, `PollMessages`, `WaitExpires` | waitForHandoffCheck and Manager.Wait |
| `Tracks`, `ReadsUntracked`, `Reads`, `FetchesPending`, `Reconciles` | doCheck and fetchPending, in the order of checkSession |
| `VerifyBegins`, `VerifyEnds`, `CleanupBegins`, `CleanupRemoves`, `CleanupMarks` | requireInactiveJob and what follows it: the removal, and the mark, which a branch that cannot be deleted prevents |
| `ReplyReads`, `ReplyPosts` | the reply to the first pending request |

| Property | What could break it |
| --- | --- |
| `WaitMeansSettled` | a wait that ends with the local job while the assistant is between two messages |
| `WorkspaceNotBypassed` | a job sent to the caller's directory while its session's own is there: a record marked before the directory is gone, a location resolved too early |
| `CleanupSparesActive`, `VerifyOnCompleted` | a workspace removed, or verified, while a job works in it |
| `CallsReturn` | a polling loop that no deadline ends |
| `TypeOK` (proved) | besides types: a wait, a poll or a reconciliation without a job |

`WorkspaceNotBypassed` holds of any calls that overlap, and is proved so. It is half of
what one would like to say of where a job is sent. The other half, that a workspace a job
is sent to is there (`SentToWhatIsThere`), the code does not give, even to one caller:
a cleanup that has removed the directory and cannot delete the branch leaves a record
that Resolve still takes for a workspace.

`WaitMeansSettled` is checked for one caller, whose jobs and OpenCode move at any time.
Two callers on one session can break it: the check of one amends a failed job to done
between the other's reading of the messages and its Reconcile, which then reports as
running what was waited for. Two callers also break the next two rows, where a
submission comes between requireInactiveJob and what follows it: this is
[the disagreement](#disagreements-between-code-and-documentation) about cleanup.

`HandoffProofs` says what these three need: `OneCallPerSession`, that no two calls
in progress are about one session. It is a hypothesis about the clients, which nothing
in the code enforces; it holds of a client that makes its calls one after the other,
and of any number of such clients with sessions of their own. Under it the three
properties hold for every number of callers, sessions and jobs.

## HandoffArgs

What handoff_execute does with its arguments: `prepareExecute`, `createSession` and
`submitFire`, each with its own checks, the permission modes of permission.go and the
operator's defaults (`options`). A server that the executor started (`local`) has the
operator's mode in its environment too (`localEnvironment`), and `InForce` is what
OpenCode goes by: the rule a session was created with, or else its server's
configuration. `args` is any ordinary call with at most two arguments changed, each to
values at, below and beyond its limits. Model selectors are sequences of runes, with blanks and slashes,
because how they are split is the question; other texts are what TrimSpace and
ToLower leave of them.

`NothingLeftOnBadInput` is the promise in the comment of `preparedExecute`: what a
later step refuses, the first one has refused already (with one exception, below).
`NoUnwantedPermission` relates what is in force to what the call and the operator said:
everything is allowed by the executor's doing only if the call says yolo, or if the
operator does and the call gives no mode, or says inherit to a server that has the
operator's mode; a call that says ask or deny is never overruled. That an explicit inherit
gets the operator's mode on such a server is perhaps not what "leaves permission
decisions to opencode's configuration" (permission.go) makes one expect, and is among the
[further disagreements](#further-disagreements). `SelectorsReadBack` says that a model is found again by the selector
under which it is shown: one of the catalogue, whatever slashes its id has, and that of
the session, which the call may also name in two fields. ParseModelRef splits a
selector at its first slash, so both are said of providers without one.

## CheckShape and Json

`Json` has documents as `encoding/json` decodes them into `any`, and the helpers of
format.go that walk them. Those recurse; here a walk goes down level by level: a step
replaces every value by what is found at it, followed by its children, so that the
order is that of the recursive calls. `Depth`, the number of levels, is 7: the walk of
a transcript, and that of a list of requests, stands still from the fourth on
(`CheckShapeProofs!DocumentWalk`, `OpenCodeProofs!RequestsFound`, for lists of any
length), and so do the walks of the runs here.
`CheckShape` has
OpenCode write a transcript, part by part (`UserSpeaks`, `AssistantBegins`,
`PartAppears`, `PartCompletes`, `AssistantFinishes`), in either of the two shapes that
the code accepts, while a job moves (`JobMoves`) and callers check (`doCheck`).
`MessageDoc` makes the document of a transcript, and `doCheck` sees only that; what is
empty is left out of it (`Given`, `Fields`). Kinds of parts are those of `Parts`: text,
reasoning and tools, with a status or without. A text is a name in the transcript and
is spelled out, in runes that each have a number of bytes, where it is cut.

`shown` is what the check just made returned; any other step resets it, so that the
properties relate a result to the transcript it was made from. `FinalTextIsTheAnswer`:
no partial, intermediate or tool text is shown as the answer. `DoneShownWhenFinished`:
a job that is done locally is not shown as done between two messages of the
assistant. `MarkedWhenShortened`: a cut is at a whole rune, is marked, and the
executor and the runner (`TruncateFinalText`) cut at the same place.
`RecentMessagesShown`: parts are not taken for messages, nor is a message lost.

## OpenCodeClient and the generated API

`Schemas` says what ogen's code does with a document for a type: `Decodes`, `Validates`
and `Encoded`. A type is a schema, which Decode follows, and a rule, which Validate
does; a rule is written with the same constructors and looks only at the fields it
names. Both are met or not at each place of a document by itself (`Fits`), and so a
document is walked with its schema, or its rule, beside it: `Inside` are the values in
a value, each with its type, `Met` all that is met in at most `Depth` levels. Encode
goes the other way, from the values within to the whole (`Rebuilt`). This is how the
generated code nests, without recursion in the model, which is what makes proofs about
it possible. `Identifiers` are, of each prefix, the texts that begin with it; the one
thing assumed of them (`IdentifiersAssumption`) is that the empty text is none.

`ApiTypes` has one schema for each generated type that the client's operations reach
(oas_json_gen.go, oas_schemas_gen.go), `ApiRules` one rule for each generated
validator (oas_validators_gen.go), and `ApiCalls` for each operation its sender and
its response decoder (oas_client_gen.go, oas_parameters_gen.go,
oas_response_decoders_gen.go). `OpenCodeClient` has the sixteen methods of client.go:
`Request` is what a leg of the method asks for, `Outcome` its switch over the types of
answers, `FallBack`, `ContinueWithModels` and `Return` are what comes next.

`Documents`, of a schema and a rule, is what may come where they are expected: any set
of JSON values (`OpenCodeClientAssumption`). In `MCOpenCodeClient` it has a document
with every field, and those that differ from it in one place: a field missing,
unknown, null, of another type, another value of an enumeration, another prefix of an
identifier, a number beyond its bound, an empty list, a list with one more item.
Besides there are statuses that are not described, and bodies that are not JSON. That
module says of each variant whether the description of the API allows it, by what was
changed and without reading `Decodes`, and TLC checks that exactly these are taken
(`AllowedAreTaken`), and that no document is deeper than the walks (`DepthIsEnough`).
Numbers are an integer, a fraction, zero or a negative one. Both sides of
`DescribedAnswerTaken` read the same schemas, so what it compares is not the schemas
with the API: it is each method's switch and what it makes of the value, with the
status.

| Property | What could break it |
| --- | --- |
| `DescribedAnswerTaken` | a type that a decoder returns and a switch forgot; a prompt that OpenCode took reported as failed, or the other way round, over a null or an empty list |
| `MessagesUnchanged` | fields of newer messages dropped on their way to handoff_check |
| `BodyFollowsDescription` | a request that OpenCode would refuse: it is encoded without being validated |
| `RequestsShownOnce` | what a request refers to taken for another request |
| `ShownQuestionCanBeAnswered` | two ways of telling whose question it is that differ |

## Runs

Twelve runs. Every property belongs to a hazard of `PROJECT.json` and has a mutant.

| Run | Instance, states | What it shows, and why the bounds are enough |
| --- | --- | --- |
| `MCJobManager` | one session, two jobs, one key, one concurrent call, one restart, saves that succeed; 1,972,072 states, 2.3 min | Replacement needs two jobs, a stale record a restart between two saves, a lost wakeup one waiter. Symmetric jobs, calls and keys; histories are not told apart; safety and refinement only. |
| `MCJobManagerLive` | one job, two calls, failing saves, deadlines, shutdown and restart; 179,990 states, 70 s | The races of answer, timer, cancellation, check and shutdown over one job, and what must happen in the end. A job's settling concerns no other job, and two calls let a check race a cancellation. |
| `MCWorkspace` | one session, one worktree, two calls, three results, one crash, every fault; 257,706 states, 33 s | Two calls suffice for one to act between another's read and write; a history of two and three results make it overflow; every step of Open, Verify and Cleanup can fail. Safety and the refinement of `WorkspaceLifecycle`. |
| `MCGreenfield` | one session, one path, two calls, one crash; 225,181 states, 39 s | The same for a directory of the client's, with the late discovery of Git, under fairness. |
| `MCLocalServer` | two executors, one port, one prompt each, crashing servers; 83,884 states, 12 s | One port is what two executors compete for. Every order of server exit, probe, stop and death. |
| `MCRunner` | two runners, one directory, two lines of the log; 88,968 states, 15 s | `OneOrQuiet`: either one runner with every cause of its end in every order, or two for one directory that end by themselves or are killed, which is all that the lock is about. Two lines have an error before and after something else. |
| `MCHandoff` | one caller, one session, two jobs, one request, all tools; 810,570 states, 1.9 min | `InOrder`: the second job after the first, in a session that works in the caller's directory or was cleaned; requests in the former and with one job only, since requests, a second job and a workspace that is there do not touch the same state. |
| `MCHandoffArgs` | any two of thirteen arguments changed, every selector of up to four runes, all defaults; 779,040 states, 17 s | A refusal depends on one argument, or on two that exclude one another. |
| `MCCheckShape` | three messages of up to three parts, both shapes; 26,226 states, 15 s | Three messages are a narration, a tool call and an answer, or an answer with a new prompt behind it; two recent messages of three shown are one left out. |
| `MCOpenCodeClient` | sixteen methods, every argument given and not, every answer changed in one place; 41,334 states, 60 s | Types and switches are looked at one field and one status at a time, which is how the code looks at them. |
| `MCStaleFinish` | expected violation | see below |
| `MCCleanupRace` | expected violation | see below |

Deadlock is not checked where jobs, sessions, executors or calls are bounded, or end:
a behaviour of the instance may run out of things to do. That nothing hangs is said
by the liveness properties.

## Fairness

Weak fairness, unless said otherwise, of:

* `JobManager`: the goroutine of each call and each job; a request whose context ended
  being cut (`RequestCut`); time (`Expire`, `RecoveryExpires`). OpenCode need not
  answer, finish a turn or heed an abort.
* `Workspace`: the steps of a call once begun. Strong fairness of beginning a cleanup
  with force: `Calls` stands for the calls of a client that are in progress at a
  time, and the client that wants its workspace cleaned asks again. Without that
  assumption `GreenfieldCleanedInTheEnd` would be about a caller who never calls.
* `LocalServer`: the goroutine in stop and its five seconds; the goroutine that reaps
  the server; SIGTERM and SIGKILL. The server need not heed the interrupt.
* `Runner`: the runner, the goroutine in Wait, an armed timer, SIGKILL. The child need
  not end by itself nor heed SIGTERM, and no signal need come.
* `Handoff`: handlers are scheduled and their contexts expire. OpenCode and the job
  manager need not move.

## Disagreements between code and documentation

Two runs expect TLC to refute what the documentation says.

* `MCStaleFinish`, `ReconciledMeansFinished`. doCheck reads the session's messages
  (tools.go:742) before Reconcile looks its job up (tools.go:759): a job submitted in
  between, or one whose turn has not published a message, is marked done from the
  finish of the turn before it, and its prompt is cut. The comment at
  manager.go:571 says that Reconcile marks a job done "when the opencode message stream
  proves that the session completed".
* `MCCleanupRace`, `CleanupSparesActive`. The handler asks requireInactiveJob once and
  then calls Cleanup, which knows nothing of jobs, and SubmitJob does not look at
  workspaces: a job accepted in between is active while its worktree is removed.
  README.md:267: "Cleanup refuses to run while a tracked job is active".

### Further disagreements

Stated in the modules and refuted by TLC on small instances, and so part of no
passing run. To see one, give its module the constants named here and the property.

| Property (module) | What the code does | What is said | Instance |
| --- | --- | --- | --- |
| `KeyAcceptedOnce` (JobManager) | manager.go:414 deletes the key of a job that is replaced: a request repeated after another job of the session ran starts a second job | README.md:294: "Retrying the same request with the same key returns the existing job" | as MCStaleFinish, three jobs |
| `ActiveIsRecovered` (JobManager) | manager.go:351 renames outside every lock: a job settled and replaced meanwhile overwrites the record of its successor, which a restart then forgets | README.md:290: jobs "active during an executor restart are recovered as unknown" | as MCJobManager |
| `DeadlineEnforced`, without its `restarts = 0` (JobManager) | manager.go:264: recover gives up at the first failed wait; nothing looks at the deadline again | README.md:292: "Deadlines trigger an OpenCode abort attempt and a terminal `timed_out` state" | as MCJobManagerLive |
| `CleanupRepeats` (Workspace) | workspace.go:510: if `git branch -d` refuses after the worktree is gone, the record stays uncleaned and every later cleanup fails at `git worktree remove` | tools.go:130: "Idempotent." | as MCWorkspace |
| `ResultsKept` (Workspace) | workspace.go:552: markCleaned stores the record Inspect copied; a result recorded meanwhile is gone | tools.go:123: "record pass/fail" | as MCWorkspace |
| `DurableWhenQuiet` (Workspace) | workspace.go:458: saves follow after the lock is released, in any order; the file may end with the older record | README.md:43: "durable job and workspace state" | as MCWorkspace |
| `GreenfieldWorkKept` (Workspace) | workspace.go:535: the directory is found empty and removed with whatever came in between | tools.go:130: "force=true discards changes/commits" | as MCGreenfield |
| `OthersWorkspaceKept` (Workspace) | workspace.go:621: a second cleanup, past its checks, removes the directory that another session has been given | README.md:32: "protects active or modified workspaces" | as MCGreenfield, two sessions |
| `OwnServer` (LocalServer) | main.go:376: any answer on the port is taken for the own server's | main.go:291: "opencode will fail to start with a clear error" | as MCLocalServer |
| `ShutdownPreservesPrompts` (LocalServer) | main.go:92: the server is stopped before the root context is canceled; prompts that break are settled as errors | manager.go:628: "Preserve running state so the next executor instance can recover it" | one executor |
| `ErrorsAreReported` (Runner) | parse.go:63: the scanner ends at a line of more than 10 MiB and its error is not looked at: later errors are lost and the run is reported completed | parse.go:55: "Malformed lines are ignored" | one runner |
| `VerifyOnCompleted` (Handoff) | tools.go:942: one look at the job, then checks for up to an hour | tools.go:123: "in a completed session workspace" | two callers, one job |
| `WaitMeansSettled`, with two callers (Handoff) | tools.go:759: the messages are read before the status; between them another check amends error to done, and done with a continuing assistant is reported as running | tools.go:697: "we keep polling OpenCode until the latest assistant turn is terminal" | two callers, one job |
| `ReplyAnswersSeen` (Handoff) | tools.go:1049: the reply goes to the first request pending when it is handled | tools.go:137: "See handoff_check for pending permissions" | two callers, two requests |
| `SentToWhatIsThere` (Handoff) | workspace.go:509: a cleanup that removed the worktree and cannot delete the branch leaves the record as it was, and Resolve (workspace.go:234) looks at the record only: the next job is sent to a directory that is gone | README.md:190: "Create a model session and bind its workspace" | as MCHandoff |
| `InheritIsNobodysMode` (HandoffArgs) | main.go:398: a server the executor starts has the operator's mode in its environment, and a session created with an explicit inherit has no rule of its own | permission.go:12: "leaves permission decisions to opencode's configuration" | as MCHandoffArgs |
| `NothingLeftOnBadInput`, without its exception (HandoffArgs) | manager.go:382: the length of the idempotency key is looked at by SubmitJob only | tools.go:517: "no leftover workspace/session on bad input" | as MCHandoffArgs |
| `FinalTextFits` (CheckShape) | format.go:433: a text that is cut gets "..." behind its maxFinalChars runes | format.go:86: "maxFinalChars bounds final_text" | as MCCheckShape |
| `QuestionIsShown` (OpenCodeClient) | format.go:308: the text of a question is in fields that the summary does not look at | tools.go:143: "See handoff_check for pending questions" | as MCOpenCodeClient |
| `ReplyTaken` (OpenCodeClient) | client.go:652: the reply is sent as it is; the API knows once, always and reject | tools.go:1034: "for example once, always, reject, or deny" | as MCOpenCodeClient |
| `WorkspaceScoped` (OpenCodeClient) | client.go:364: Sessions sends the directory only | tools.go:60: sessions "visible in a directory/workspace" | as MCOpenCodeClient |

## Proofs

For every value of the constants, checked by TLAPS to the last leaf. The assumptions
are those the modules name: values like `NoJob` are no members of the sets they stand
beside (`DistinctAssumption`, `ServerAssumption`, `RunnerAssumption`,
`HandoffAssumption`), the sets of places are disjoint (`PlacesAssumption`), bounds are
numbers (`BoundsAssumption`, `WorkspaceBounds`), OpenCode writes parts of three kinds
(`CheckShapeAssumption`), documents are JSON (`OpenCodeClientAssumption`) and
identifiers are not empty (`IdentifiersAssumption`).

| Theorem | Property | The argument |
| --- | --- | --- |
| `JobManagerProofs!TypeCorrect`, `IndexAgrees`, `ActiveTracked` | `TypeOK`, `IndexMatchesCurrent`, `ActiveIsTracked` | `TypeInv` and `MapInv`: a job in the maps belongs to the session, and every entry of the index is the key of the current job; a job that is not the current one is settled |
| `SettledStays`, `ShutdownPreserves` | `SettledIsFinal`, `ShutdownFailsNoJob` | action properties from `TypeInv`; the latter with `DownInv`: once the root context is canceled every live goroutine's context is |
| `NobodyForgotten` | `NoLostWakeup` | `WakeInv`: with `SubmitOwns`, a submission is the only one about to start its job's goroutine, so that nobody moves the goroutine that owes a signal |
| `RecordsBehind` | `SettledOnDiskIsSettled` | `DiskInv`: neither a record nor a snapshot on its way to disk is ahead of its job |
| `DoneIsEarned` | `DoneHasEvidence` | `EvidenceInv`: whoever carries the outcome done has an answer to the job's prompt or a finished turn of its session behind it, and whoever read a finish has the latter |
| `Implements` | `ImplementsLifecycle` | every step is a step of `JobLifecycle` or a stutter (`AbstractStep`), from the invariants above; a restart needs `DiskInv` |
| `WorkspaceProofs!TypeCorrect`, `CleanedForGood` | `TypeOK`, `CleanedStays` | `TypeInv`: types, and what a call at each point holds (`CallsOK`); `OwnInv`: a session is bound once, by one Open, and so no Open replaces a record; every other step leaves a cleaned one so |
| `CleanedIsGone` | `CleanedMeansGone` | `GoneInv`: a record on its way to being marked has lost its tree and its branch, and slots are not handed out twice |
| `EverythingOwned` | `NothingStray` | `StrayInv`, with the three others: a place that exists is held by a record that is not cleaned or by an Open, and who lets go of it has removed it or given it up |
| `WorkKept` | `WorkInWorktreesKept` | the order of removal: tree only if clean, branch only if merged, unless forced |
| `HistoryKept` | `HistoryComplete` | `HistoryInv`: every record and every copy holds a run of consecutive results, and the one in memory ends at the latest |
| `OpenCodeProofs!TypeCorrect`, `ExitComes`, `NoServerOutlives` | `TypeOK`, `ExitStillToCome`, `NoServerLeftBehind` | `ExitInv`: where the one exit value is at each point of main |
| `RunnerProofs!TypeCorrect`, `LockExcludes`, `NoChildLeftBehind`, `StatusTellsCause` | `TypeOK`, `OneChildPerDirectory`, `ResultMeansChildEnded`, `StatusIsCause` | `RunInv` (who is past Lock holds it, or was killed), `VerdictInv` and `StatusInv` (what timedOut and cancelled are at each point) |
| `WorkspaceProofs!Implements` | `ImplementsWorkspaceLifecycle` | every step is a step of `WorkspaceLifecycle` or a stutter (`NextImplements`), from the invariants above and three more, below |
| `HandoffProofs!TypeCorrect` | `TypeOK` | `TypeInv` with `Tracked`: a session once tracked stays so, and the points of a call that use its job are reached only when tracked |
| `PromptsPlaced` | `WorkspaceNotBypassed` | `SpaceInv`, below |
| `WaitSettles`, `JobsLeftAlone` | `WaitMeansSettled`, `CleanupSparesActive` with `VerifyOnCompleted` | under `[]OneCallPerSession`, from `KnowsInv`, below |
| `HandoffArgsProofs!TypeCorrect`, `NothingLeft`, `NothingUnwanted` | `TypeOK`, `NothingLeftOnBadInput`, `NoUnwantedPermission` | `ArgsInv`: whoever got past a step passed its checks, and a session has the rule of the mode that was chosen; `PrepareOK` implies the later checks but the one of the key |
| `SelectorsRead` | `SelectorsReadBack` | for texts of any length: trimming is a part of the text, is the text again when done twice, and leaves no blank at the ends; the first slash of a selector is the one its two parts were joined with |
| `CheckShapeProofs!AnswerOnly`, `CutIsMarked`, `DoneAtTheEnd`, `RecentOnly` | `FinalTextIsTheAnswer`, `MarkedWhenShortened`, `DoneShownWhenFinished`, `RecentMessagesShown` | `TypeInv` and `ShownInv`, below |
| `OpenCodeProofs!AnswersTaken`, `BodiesFollow`, `MessagesWhole`, `RequestsOnce`, `QuestionsAnswerable` | `DescribedAnswerTaken`, `BodyFollowsDescription`, `MessagesUnchanged`, `RequestsShownOnce`, `ShownQuestionCanBeAnswered` | `LegInv` (which legs belong to which method), and below |

**Workspace implements WorkspaceLifecycle.** `LifeInv` joins the invariants of
`WorkspaceProofs` named above with three more. `CopiesInv`: a copy of a record, in a call or on
disk, is a past state of the session's record: same place, results no newer, cleaned
only if the record is; this is what makes a late save harmless and a restart honest.
`SlotsOnce`: a worktree belongs to one Open in progress or to one known session,
never to both. `UnusedBare`: a slot not handed out is not on disk, so that `Make` finds
it empty. The steps of a call are then sorted by what the abstract state can see:
most are stutters (`LaterQuiet`), creating a place is Make, `Bind` is Bind, the rollback
and the removals are Drop, `CheckRuns` is Verify, `MarkCleaned` is Clean, beginning or
ending a forced cleanup is Force, `Crash` is Restart, which is where `CopiesInv` of the
files is used.

**Handoff, calls that may overlap.** `SpaceInv` is about directories: one that is there
belongs to a record that is not cleaned, since it is removed before the record is marked
and is never made again for a session that is known; and so a call whose location was
resolved to the caller's directory may rely on there being no other, whatever comes
before it submits (`Placed`).

**Handoff, calls that do not overlap.** `KnowsInv` says of every call in progress
that what it read is still so, at each of its points (`Knows`): an inactive job is
inactive, the job waited for is the tracked one and settled, the answer read is the
latest. Its other parts are about what the job manager
and OpenCode do by themselves meanwhile: jobs are in one slot (`Slots`), turns and
messages belong to jobs that were sent (`Turns`). The proof that a step of one call leaves what another knows
(`OthersAct`) is the only place where the hypothesis is used.

**Results of checks.** For transcripts of any length, messages of any number of
parts, any limit, texts of any length and runes of any number of bytes; the one
assumption, `CheckShapeAssumption`, says what OpenCode writes: a part with a type is a
text, a thought or a tool, one without is a tool by its name or is a bare text.
`ShownInv` says that a result not yet overtaken by another step is
`shapeHandoffCheckResult` of the transcript as it is, and is done only if no message of
the assistant is left open. It is inductive because every step but a check resets
`shown`; the work is in what it implies (`WhatIsShown`), about documents:

1. `DocumentWalk` computes the levels of the walk, one after the other: the list, the
   messages, a message with its list of parts, a message with its parts. What
   `collectObjects` finds is each message followed by its parts, which have identifiers too.
2. `LatestRead` and `SpeakingRead` read that list back: parts have no role and no
   finish, and so the last assistant object is the last assistant message, and the
   objects with a role are the messages in order, in both shapes.
3. An answer part of the document is an `Answer` of the transcript, and the last of
   those is the last of these.
4. `BytesEnough`: a text has at least as many bytes as runes, and so a text longer
   than the limit in runes is never kept whole because of its bytes.

**Answers and requests of the client.** For any arguments, any default directory and
any documents. `LevelsExist` and `EncodedLevels` give the levels of `Met` and of
`Encoded`, which are functions defined by recursion; the rest reads them level by level.

1. `AnswersTaken`: of every operation exactly the success statuses are decoded to the
   type its method expects (`SuccessesNamed`), and every other type has a case, so that
   an answer that is `Described` succeeds if its status does (`TypedLegs`,
   `DescribedTaken`; `BareTaken` for the untyped ones).
2. `BodiesFollow`: `Sound` says that a set of values, each with its type, has the body
   in it, is closed under `Inside`, and fits; a body is put together from sound parts
   (`SoundFields`, `SoundObject`, `SoundArr`), and what is sound is taken.
3. `MessagesWhole`: every type met in a list of messages, or in the answer to a prompt,
   keeps what it does not know (`MessageTypes`, `PromptTypes`) and none is met from the
   fifth level on; so each level of Encode gives back the values themselves (`KeptWhole`).
4. `RequestsOnce`, `QuestionsAnswerable`: the invariant is `RequestsListed`, that what
   the two methods return is a list of requests, each with an id and with a session that
   is not the empty text, which is what Decode and Validate are for (`SessionsNamed`,
   `ListReturned`). The walk of such a list meets each request, its list of questions,
   and the questions, none of which has an id: what is found is the list itself
   (`RequestsFound`). Its members for a session are counted once by the summary and once
   by SessionQuestionRequests, which test different fields (`SummariesCounted`).

Induction over numbers, where an argument needs it, is done on sets of numbers: the
least place of a slash and the first rune that is no blank with the lemma
`LeastNatural`; what a flattened sequence and a sum of bytes are, which are functions
defined by recursion, with `EachNatural`, from the theorem that < is well-founded on Nat.

The type invariants are proved, and so no run repeats them. Every other safety
property of a passing run is proved as well. Only model-checked: all liveness
properties (beyond the prover): `WaitersReturn`, `GoroutinesEnd`, `DeadlineEnforced`,
`GreenfieldCleanedInTheEnd`, `StopReturns`, `RunEnds`, `CallsReturn`; and that `Depth`
levels reach the end of every type of the API, as far as `DepthIsEnough` has documents
of it.

## Not modelled

* `internal/mcputil`, the registration of tools and the two constant lists of the
  toolset, flags, environment variables but OPENCODE_PERMISSION, and logging: no state, or wiring that runs once.
* Of the generated API the server half (router, handlers, request decoders, response
  encoders), which the program does not use; the operations V2HealthGet,
  V2SessionMessages and V2SessionPrompt, which nobody calls; telemetry and options.
* Of the client the transports that add credentials and log, and how lists are sorted.
* Of the results the byte limit of previews, which may cut a rune in two, and
  extractMessageID.
* LoadConfig and BuildOpenCodeArgs of the runner (flags to strings), and what other
  systems than Linux have for the lock, kill and Pdeathsig.
* What request hashes, locations and timestamps contain; validation of paths; the
  contents of reports and diffs; files in the state directories that are unreadable or
  somebody else's; two executors that share a state directory.
* The handlers that only read: health, agents, models, sessions, workspace, diff, review.
  What they return is `OpenCodeClient`'s and `Workspace`'s.
* Process groups: the runner's child is one process. A helper of its group that
  outlives it is not seen by the code and not in the model.
