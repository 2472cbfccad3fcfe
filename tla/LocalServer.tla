----------------------------- MODULE LocalServer -----------------------------
(***************************************************************************)
(* An executor process and the OpenCode server it runs                     *)
(* (cmd/codex-opencode-executor/main.go): createLocal, startLocal,         *)
(* waitForHTTP and stop, around the one-place channel done, main's         *)
(* deferred calls, and the prompts in flight when they run.                *)
(*                                                                         *)
(* Several executors may start on one machine.  A step is what one         *)
(* goroutine or one server process does between two points where another   *)
(* can intervene.  Left out: flags and environment, logging, the checks of *)
(* the server's URL.  main cancels the root context only when everything   *)
(* else is over, so that neither the ctx.Done() of waitForHTTP nor the     *)
(* kill of exec.CommandContext can come.                                   *)
(***************************************************************************)
EXTENDS Naturals

CONSTANTS
    Execs,       \* executor processes
    Ports,       \* TCP ports the kernel hands out
    NoPort,
    MaxPrompts,  \* bound on the prompts of an executor
    Crashes      \* whether a server may end by itself

ASSUME ServerAssumption ==
    /\ NoPort \notin Ports
    /\ MaxPrompts \in Nat
    /\ Crashes \in BOOLEAN

VARIABLES
    pc,       \* where main's goroutine is
    mode,     \* Create's choice: local or remote
    port,     \* the port an executor picked for its server
    server,   \* the server process: none, starting, listening or ended
    told,     \* the signals a server has got: "int", "term", "kill"
    done,     \* the exit value of the server: not reaped yet, in the channel,
              \* in waitForHTTP's hand, or received for good
    ready,    \* createLocal or createRemote has returned a client
    ctx,      \* the root context is live
    prompt,   \* a job's prompt: none, inflight, answered, failed, preserved
    prompts   \* prompts sent so far

vars == <<pc, mode, port, server, told, done, ready, ctx, prompt, prompts>>
procVars == <<server, told>>
jobVars == <<ctx, prompt, prompts>>

\* Create: an empty mode means local unless there is a URL.
ModeOf(given, hasURL) ==
    IF given # "" THEN given ELSE IF hasURL THEN "remote" ELSE "local"
Modes == {ModeOf(given, hasURL) : given \in {"", "local", "remote"}, hasURL \in BOOLEAN}

Running == {"starting", "listening"}
Gone    == {"exited", "dead"}       \* the executor process is no more

Init ==
    /\ pc = [e \in Execs |-> "create"]
    /\ mode \in [Execs -> Modes]
    /\ port   = [e \in Execs |-> NoPort]
    /\ server = [e \in Execs |-> "none"]
    /\ told   = [e \in Execs |-> {}]
    /\ done   = [e \in Execs |-> "none"]
    /\ ready  = [e \in Execs |-> FALSE]
    /\ ctx    = [e \in Execs |-> TRUE]
    /\ prompt = [e \in Execs |-> "none"]
    /\ prompts = [e \in Execs |-> 0]

Goto(e, from, to) ==
    /\ pc[e] = from
    /\ pc' = [pc EXCEPT ![e] = to]

Listener(p) == {e \in Execs : server[e] = "listening" /\ port[e] = p}

-----------------------------------------------------------------------------
(* startLocal *)

\* Remote mode starts nothing; its server is somebody else's.
CreateRemote(e) ==
    /\ mode[e] = "remote"
    /\ Goto(e, "create", "serving")
    /\ ready' = [ready EXCEPT ![e] = TRUE]
    /\ UNCHANGED <<mode, port, procVars, done, jobVars>>

\* Listen on port 0, note the port, close.
FindPort(e) ==
    /\ mode[e] = "local"
    /\ Goto(e, "create", "start")
    /\ \E p \in Ports : Listener(p) = {} /\ port' = [port EXCEPT ![e] = p]
    /\ UNCHANGED <<mode, procVars, done, ready, jobVars>>

StartServer(e) ==
    /\ Goto(e, "start", "probe")
    /\ server' = [server EXCEPT ![e] = "starting"]
    /\ done' = [done EXCEPT ![e] = "awaited"]
    /\ UNCHANGED <<mode, port, told, ready, jobVars>>

\* No such program: main exits with nothing to clean up.
StartFails(e) ==
    /\ Goto(e, "start", "exited")
    /\ UNCHANGED <<mode, port, procVars, done, ready, jobVars>>

\* waitForHTTP: any answer on the port will do.
ProbeAnswered(e) ==
    /\ Listener(port[e]) # {}
    /\ Goto(e, "probe", "client")
    /\ UNCHANGED <<mode, port, procVars, done, ready, jobVars>>

ProbeFails(e) ==
    /\ Listener(port[e]) = {}
    /\ Goto(e, "probe", "select")
    /\ UNCHANGED <<mode, port, procVars, done, ready, jobVars>>

\* Mutant: the exit value is not put back.
ExitSeenAndKept(e) ==
    /\ done[e] = "channel"
    /\ Goto(e, "select", "stop")
    /\ done' = [done EXCEPT ![e] = "received"]
    /\ UNCHANGED <<mode, port, procVars, ready, jobVars>>

\* The select of waitForHTTP: the server has exited, and its exit value goes
\* back into the channel for stop; ...
ExitSeen(e) ==
    /\ done[e] = "channel"
    /\ Goto(e, "select", "putback")
    /\ done' = [done EXCEPT ![e] = "hand"]
    /\ UNCHANGED <<mode, port, procVars, ready, jobVars>>

ExitPutBack(e) ==
    /\ done[e] = "hand"
    /\ Goto(e, "putback", "stop")
    /\ done' = [done EXCEPT ![e] = "channel"]
    /\ UNCHANGED <<mode, port, procVars, ready, jobVars>>

\* ... the startup timeout passes; or it is time to try again.
StartupTimesOut(e) ==
    /\ Goto(e, "select", "stop")
    /\ UNCHANGED <<mode, port, procVars, done, ready, jobVars>>

ProbeAgain(e) ==
    /\ Goto(e, "select", "probe")
    /\ UNCHANGED <<mode, port, procVars, done, ready, jobVars>>

\* createLocal: NewClient succeeds, or fails and the deferred cleanup runs.
CreateClient(e) ==
    /\ \/ Goto(e, "client", "serving") /\ ready' = [ready EXCEPT ![e] = TRUE]
       \/ Goto(e, "client", "stop") /\ ready' = ready
    /\ UNCHANGED <<mode, port, procVars, done, jobVars>>

-----------------------------------------------------------------------------
(* The server process and the goroutine that waits for it *)

\* A port in use makes the server exit.
ServerListens(e) ==
    /\ server[e] = "starting"
    /\ server' = [server EXCEPT ![e] = IF Listener(port[e]) = {} THEN "listening" ELSE "ended"]
    /\ UNCHANGED <<pc, mode, port, told, done, ready, jobVars>>

ServerCrashes(e) ==
    /\ Crashes
    /\ server[e] \in Running
    /\ server' = [server EXCEPT ![e] = "ended"]
    /\ UNCHANGED <<pc, mode, port, told, done, ready, jobVars>>

ServerQuits(e) ==
    /\ server[e] \in Running /\ "int" \in told[e]
    /\ server' = [server EXCEPT ![e] = "ended"]
    /\ UNCHANGED <<pc, mode, port, told, done, ready, jobVars>>

ServerObeys(e) ==
    /\ server[e] \in Running /\ told[e] \cap {"term", "kill"} # {}
    /\ server' = [server EXCEPT ![e] = "ended"]
    /\ UNCHANGED <<pc, mode, port, told, done, ready, jobVars>>

\* cmd.Wait returns, and the value enters the channel, which has room for it.
Reap(e) ==
    /\ pc[e] \notin Gone
    /\ server[e] = "ended" /\ done[e] = "awaited"
    /\ done' = [done EXCEPT ![e] = "channel"]
    /\ UNCHANGED <<pc, mode, port, procVars, ready, jobVars>>

-----------------------------------------------------------------------------
(* stop, called where startup fails and by main's deferred closeClient *)

Signal(e, s) ==
    told' = [told EXCEPT ![e] = IF server[e] \in Running THEN @ \cup {s} ELSE @]

\* Interrupt; a process that is over cannot be signaled, nor killed.
StopSignals(e) ==
    /\ Goto(e, "stop", "wait5s")
    /\ Signal(e, "int")
    /\ UNCHANGED <<mode, port, server, done, ready, jobVars>>

\* After stop, startup's failure is reported and main exits; otherwise main's
\* next deferred call is due.
AfterStop(e) == IF ready[e] THEN "cancel" ELSE "exited"

StopReceives(e) ==
    /\ done[e] = "channel"
    /\ Goto(e, "wait5s", AfterStop(e)) \/ Goto(e, "drain", AfterStop(e))
    /\ done' = [done EXCEPT ![e] = "received"]
    /\ UNCHANGED <<mode, port, procVars, ready, jobVars>>

\* Mutant: the server is not killed.
StopGivesUpWaiting(e) ==
    /\ Goto(e, "wait5s", "drain")
    /\ UNCHANGED <<mode, port, procVars, done, ready, jobVars>>
\* Mutant: nobody waits for the killed server.
StopKillsAndReturns(e) ==
    /\ Goto(e, "wait5s", AfterStop(e))
    /\ Signal(e, "kill")
    /\ UNCHANGED <<mode, port, server, done, ready, jobVars>>

StopKills(e) ==
    /\ Goto(e, "wait5s", "drain")
    /\ Signal(e, "kill")
    /\ UNCHANGED <<mode, port, server, done, ready, jobVars>>

-----------------------------------------------------------------------------
(* main and the jobs *)

Reachable(e) == mode[e] = "local" => Listener(port[e]) # {}

SendPrompt(e) ==
    /\ pc[e] = "serving" /\ ctx[e]
    /\ prompt[e] # "inflight" /\ prompts[e] < MaxPrompts
    /\ prompt' = [prompt EXCEPT ![e] = "inflight"]
    /\ prompts' = [prompts EXCEPT ![e] = @ + 1]
    /\ UNCHANGED <<pc, mode, port, procVars, done, ready, ctx>>

PromptAnswered(e) ==
    /\ pc[e] \notin Gone
    /\ prompt[e] = "inflight" /\ Reachable(e)
    /\ prompt' = [prompt EXCEPT ![e] = "answered"]
    /\ UNCHANGED <<pc, mode, port, procVars, done, ready, ctx, prompts>>

\* The connection breaks: run settles the job as failed, unless the root
\* context is over.
PromptBroken(e) ==
    /\ pc[e] \notin Gone
    /\ prompt[e] = "inflight" /\ (~ctx[e] \/ ~Reachable(e) \/ mode[e] = "remote")
    /\ prompt' = [prompt EXCEPT ![e] = IF ctx[e] THEN "failed" ELSE "preserved"]
    /\ UNCHANGED <<pc, mode, port, procVars, done, ready, ctx, prompts>>

\* s.Run returns without an error: the deferred calls, last one first.  In
\* remote mode closeClient does nothing.
RunReturns(e) ==
    /\ Goto(e, "serving", IF mode[e] = "local" THEN "stop" ELSE "cancel")
    /\ UNCHANGED <<mode, port, procVars, done, ready, jobVars>>

CancelRoot(e) ==
    /\ Goto(e, "cancel", "leave")
    /\ ctx' = [ctx EXCEPT ![e] = FALSE]
    /\ UNCHANGED <<mode, port, procVars, done, ready, prompt, prompts>>

MainReturns(e) ==
    /\ Goto(e, "leave", "exited")
    /\ UNCHANGED <<mode, port, procVars, done, ready, jobVars>>

\* os.Exit(1) after an error of s.Run, or a signal: no deferred call runs, and
\* the kernel sends the server SIGTERM (Pdeathsig, Linux).
Dies(e) ==
    /\ pc[e] \notin Gone
    /\ pc' = [pc EXCEPT ![e] = "dead"]
    /\ Signal(e, "term")
    /\ UNCHANGED <<mode, port, server, done, ready, jobVars>>

-----------------------------------------------------------------------------
StartUp(e) ==
    \/ CreateRemote(e) \/ FindPort(e) \/ StartServer(e) \/ StartFails(e)
    \/ ProbeAnswered(e) \/ ProbeFails(e) \/ ExitSeen(e) \/ ExitPutBack(e)
    \/ StartupTimesOut(e) \/ ProbeAgain(e) \/ CreateClient(e)
Stop(e) == StopSignals(e) \/ StopReceives(e) \/ StopKills(e)

Next ==
    \E e \in Execs :
        \/ StartUp(e) \/ Stop(e) \/ RunReturns(e) \/ CancelRoot(e) \/ MainReturns(e) \/ Dies(e)
        \/ ServerListens(e) \/ ServerCrashes(e) \/ ServerQuits(e) \/ ServerObeys(e) \/ Reap(e)
        \/ SendPrompt(e) \/ PromptAnswered(e) \/ PromptBroken(e)

Spec == Init /\ [][Next]_vars

\* Goroutines are scheduled, time passes, and a server that gets SIGTERM or
\* SIGKILL ends; one that is interrupted need not.
FairSpec ==
    /\ Spec
    /\ \A e \in Execs : WF_vars(Stop(e)) /\ WF_vars(Reap(e)) /\ WF_vars(ServerObeys(e))

-----------------------------------------------------------------------------
(* Properties *)

TypeOK ==
    /\ pc \in [Execs -> {"create", "start", "probe", "select", "putback", "client", "serving",
                         "stop", "wait5s", "drain", "cancel", "leave"} \cup Gone]
    /\ mode \in [Execs -> {"local", "remote"}]
    /\ port \in [Execs -> Ports \cup {NoPort}]
    /\ server \in [Execs -> {"none", "ended"} \cup Running]
    /\ told \in [Execs -> SUBSET {"int", "term", "kill"}]
    /\ done \in [Execs -> {"none", "awaited", "channel", "hand", "received"}]
    /\ ready \in [Execs -> BOOLEAN]
    /\ ctx \in [Execs -> BOOLEAN]
    /\ prompt \in [Execs -> {"none", "inflight", "answered", "failed", "preserved"}]
    /\ prompts \in [Execs -> Nat]

\* waitForHTTP and stop share the one exit value: whoever waits on done in
\* stop still has it to come, and a value on its way back always has room.
ExitStillToCome ==
    \A e \in Execs :
        /\ pc[e] \in {"stop", "wait5s", "drain"} => done[e] \in {"awaited", "channel"}
        /\ pc[e] = "putback" => done[e] = "hand"

\* An executor that exits in order leaves no server behind, and so does one
\* that never got that far.
NoServerLeftBehind ==
    \A e \in Execs : pc[e] = "exited" => server[e] \in {"none", "ended"}

\* stop returns, although the server may ignore the interrupt.
StopReturns ==
    \A e \in Execs : pc[e] = "stop" ~> pc[e] \in Gone \cup {"cancel"}

\* startLocal: "opencode will fail to start with a clear error" when the port
\* has been taken: no executor works with another one's server.
OwnServer ==
    \A e \in Execs : pc[e] = "serving" /\ mode[e] = "local" => Listener(port[e]) \subseteq {e}

\* run: "The manager is shutting down.  Preserve running state so the next
\* executor instance can recover it": while main winds up after s.Run, no
\* prompt in flight is settled as failed because main stopped the server.
ShutdownPreservesPrompts ==
    [][\A e \in Execs :
         pc[e] \in {"wait5s", "drain", "cancel"} /\ "int" \in told[e] /\ prompt[e] = "inflight"
         => prompt'[e] # "failed"]_vars
=============================================================================
