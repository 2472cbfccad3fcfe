---------------------------- MODULE HandoffArgs ----------------------------
(***************************************************************************)
(* The arguments of handoff_execute and the defaults of the executor:      *)
(* prepareExecute, then createSession and submitFire with their own        *)
(* checks (tools.go, execution.go, permission.go, SubmitJob).  OpenCode    *)
(* and the file system refuse nothing here; what happens when they do is   *)
(* in Workspace and JobManager.                                            *)
(***************************************************************************)
EXTENDS Integers, Sequences, FiniteSetsExt

CONSTANT Values       \* of every argument, those that callers give

Fields == {"prompt", "async", "wait", "finalChars", "profile", "model", "pair", "permission",
           "isolation", "createDirectory", "key", "timeout", "agent"}

\* Texts are what TrimSpace and ToLower leave of them, but for model, which is
\* a selector, and pair, which stands for provider_id and model_id; these are
\* given rune by rune.
NoModel  == [provider |-> <<>>, model |-> <<>>]
Omitted  == -1000
Ordinary == [prompt |-> "task", async |-> FALSE, wait |-> Omitted, finalChars |-> 0, profile |-> "",
             model |-> <<>>, pair |-> NoModel, permission |-> "", isolation |-> "", createDirectory |-> FALSE,
             key |-> "", timeout |-> 0, agent |-> ""]

IsText(v) == v \in Seq({v[i] : i \in DOMAIN v})

ASSUME HandoffArgsAssumption ==
    /\ DOMAIN Values = Fields
    /\ \A v \in Values["model"] : IsText(v)
    /\ \A v \in Values["pair"] :
          v = [provider |-> v.provider, model |-> v.model] /\ IsText(v.provider) /\ IsText(v.model)

VARIABLES
    args,
    options,      \* ExecutorOptions
    managed,      \* there is a workspace manager
    local,        \* the executor has started the OpenCode server itself
    pc,
    prepared,     \* preparedExecute
    session,      \* the request that created the session, or NoSession
    job           \* what was submitted, or NoJob

vars == <<args, options, managed, local, pc, prepared, session, job>>

NotPrepared == [wait |-> 0, finalChars |-> 0, suffix |-> "none"]
NoSession   == [model |-> NoModel, agent |-> "none", action |-> "none"]
NoJob       == [timeout |-> 0, agent |-> "none"]
Refused     == "refused"
Default     == [provider |-> <<"d">>, model |-> <<"e">>]     \* the operator's
BadModel    == [provider |-> <<"error">>, model |-> <<>>]

Options == [model : {NoModel, Default}, agent : {"", "coder"},
            permission : {"", "inherit", "ask", "deny", "yolo"}]

\* The ordinary call with up to two arguments changed.
Init ==
    /\ \E x, y \in Fields : \E u \in Values[x], v \in Values[y] :
          args = [[Ordinary EXCEPT ![x] = u] EXCEPT ![y] = v]
    /\ options \in Options
    /\ managed \in BOOLEAN /\ local \in BOOLEAN
    /\ pc = "called"
    /\ prepared = NotPrepared /\ session = NoSession /\ job = NoJob

-----------------------------------------------------------------------------
(* permission.go, execution.go *)

ParsePermissionMode(value) ==
    CASE value \in {"", "inherit"} -> "inherit"
      [] value \in {"ask", "deny"} -> value
      [] value \in {"yolo", "allow"} -> "yolo"
      [] OTHER -> Refused

\* The rule sent to OpenCode, for every permission and pattern.
action(mode) == IF mode = "yolo" THEN "allow" ELSE IF mode \in {"ask", "deny"} THEN mode ELSE "none"

\* Mutant: an explicit inherit is taken for no mode.
PermissionUnlessInherit ==
    IF args.permission \in {"", "inherit"} THEN ParsePermissionMode(options.permission)
    ELSE ParsePermissionMode(args.permission)
permissionFor ==
    IF args.permission = "" THEN ParsePermissionMode(options.permission)
    ELSE ParsePermissionMode(args.permission)

\* OPENCODE_PERMISSION, in the environment of a server the executor starts; any
\* other keeps its own configuration.
localEnvironment == IF local THEN action(ParsePermissionMode(options.permission)) ELSE "none"

\* OpenCode: the rule of the session before the server's configuration, which
\* "none" leaves to it.
InForce == IF session.action # "none" THEN session.action ELSE localEnvironment

TrimSpace(s) ==
    LET ends == {i \in DOMAIN s : s[i] # " "} IN
    IF ends = {} THEN <<>> ELSE SubSeq(s, Min(ends), Max(ends))

Slashes(s) == {i \in DOMAIN s : s[i] = "/"}

\* Both parts of a model reference are needed.
ModelRef(p, m) == IF p = <<>> \/ m = <<>> THEN BadModel ELSE [provider |-> p, model |-> m]

\* Mutant: the last slash separates.
ParseAtLastSlash(value) ==
    LET s == TrimSpace(value) IN
    CASE s = <<>> -> NoModel
      [] s # <<>> /\ Slashes(s) = {} -> BadModel
      [] OTHER -> LET cut == Max(Slashes(s)) IN
                  ModelRef(TrimSpace(SubSeq(s, 1, cut - 1)), TrimSpace(SubSeq(s, cut + 1, Len(s))))
\* The first slash separates; a model id may hold more of them.
ParseModelRef(value) ==
    LET s == TrimSpace(value) IN
    CASE s = <<>> -> NoModel
      [] s # <<>> /\ Slashes(s) = {} -> BadModel
      [] OTHER -> LET cut == Min(Slashes(s)) IN
                  ModelRef(TrimSpace(SubSeq(s, 1, cut - 1)), TrimSpace(SubSeq(s, cut + 1, Len(s))))

\* ModelRef.String
Selector(m) == IF m.provider = <<>> \/ m.model = <<>> THEN <<>> ELSE m.provider \o <<"/">> \o m.model

Named == TrimSpace(args.model) # <<>>
Pair  == [provider |-> TrimSpace(args.pair.provider), model |-> TrimSpace(args.pair.model)]

modelFor ==
    CASE Named /\ Pair # NoModel -> BadModel
      [] Named /\ Pair = NoModel -> ParseModelRef(args.model)
      [] ~Named /\ Pair # NoModel -> ModelRef(Pair.provider, Pair.model)
      [] OTHER -> options.model

AgentFor(agent) == IF agent = "" THEN options.agent ELSE agent

sessionRequest == [model |-> modelFor, agent |-> AgentFor(args.agent), action |-> action(permissionFor)]
SessionRequestOK == modelFor # BadModel /\ permissionFor # Refused

-----------------------------------------------------------------------------
(* The checks of tools.go *)

defaultFinalTextChars == 1200
maxFinalTextChars     == 4000

boundedLimit(value, default, maximum) ==
    IF value < 0 \/ value > maximum THEN Refused ELSE IF value = 0 THEN default ELSE value
WithinLimit(value, maximum) == value \in 0 .. maximum
FinalCharsOK == WithinLimit(args.finalChars, maxFinalTextChars)

Async == args.async
resolveExecuteWaitSeconds ==
    IF Async THEN 0 ELSE IF args.wait = Omitted THEN 300 ELSE args.wait
WaitOK == Async \/ args.wait = Omitted \/ args.wait \in 0 .. 300

applyExecuteProfile == IF args.profile = "" THEN "implementation" ELSE args.profile
ProfileOK == applyExecuteProfile \in {"none", "implementation", "diagnosis", "review"}

ParseModeOK == args.isolation \in {"", "auto", "worktree", "none"}

PromptOK    == args.prompt # ""
DirectoryOK == args.createDirectory => managed

submitOptionsOK == WithinLimit(args.timeout, 86400)

\* Mutant: the options of the job are left to submitFire.
PreparedWithoutOptions ==
    /\ PromptOK /\ WaitOK /\ FinalCharsOK /\ ProfileOK
    /\ DirectoryOK /\ SessionRequestOK /\ ParseModeOK
PrepareOK ==
    /\ PromptOK /\ WaitOK /\ FinalCharsOK /\ ProfileOK
    /\ DirectoryOK /\ SessionRequestOK /\ ParseModeOK /\ submitOptionsOK

CreateOK == SessionRequestOK /\ ParseModeOK /\ DirectoryOK

\* SubmitJob's own: at most maxIdempotencyKeyLength bytes.
KeyOK    == args.key # "too long"
SubmitOK == PromptOK /\ submitOptionsOK /\ KeyOK

-----------------------------------------------------------------------------
(* handoff_execute *)

Fails == pc' = "failed" /\ UNCHANGED <<args, options, managed, local, prepared, session, job>>

prepareExecute ==
    /\ pc = "called"
    /\ \/ ~PrepareOK /\ Fails
       \/ /\ PrepareOK
          /\ pc' = "prepared"
          /\ prepared' = [wait |-> resolveExecuteWaitSeconds,
                          finalChars |-> boundedLimit(args.finalChars, defaultFinalTextChars, maxFinalTextChars),
                          suffix |-> applyExecuteProfile]
          /\ UNCHANGED <<args, options, managed, local, session, job>>

createSession ==
    /\ pc = "prepared"
    /\ \/ ~CreateOK /\ Fails
       \/ /\ CreateOK
          /\ pc' = "created"
          /\ session' = sessionRequest
          /\ UNCHANGED <<args, options, managed, local, prepared, job>>

\* The prompt goes to the agent of the session, unless the call names one.
submitOptions ==
    [timeout |-> args.timeout,
     agent |-> AgentFor(IF args.agent = "" THEN session.agent ELSE args.agent)]
submitFire ==
    /\ pc = "created"
    /\ \/ ~SubmitOK /\ Fails
       \/ /\ SubmitOK
          /\ pc' = "submitted"
          /\ job' = submitOptions
          /\ UNCHANGED <<args, options, managed, local, prepared, session>>

Next == prepareExecute \/ createSession \/ submitFire

Spec == Init /\ [][Next]_vars

-----------------------------------------------------------------------------
(* Properties *)

\* Limits that the arguments kept, defaults put in: no wait of more than the
\* call may take, and no session for a model nobody could read.
TypeOK ==
    /\ DOMAIN args = Fields
    /\ pc \in {"called", "prepared", "created", "submitted", "failed"}
    /\ prepared.wait \in 0 .. 300 /\ prepared.finalChars \in 0 .. maxFinalTextChars
    /\ session.action \in {"none", "ask", "deny", "allow"}
    /\ session.model # BadModel

\* preparedExecute: "createSession is never called with invalid arguments (no
\* leftover workspace/session on bad input)": a call that fails on its
\* arguments has created nothing, wherever the check is that it fails, but
\* for the length of the idempotency key, which SubmitJob alone looks at.
NothingLeftOnBadInput == pc = "failed" /\ KeyOK => session = NoSession

\* OpenCode acts without asking by the executor's doing only when this call says
\* yolo, or when the operator does and the call either gives no mode or says
\* inherit to a server the operator's mode was given to; a call that says ask
\* or deny has its way whatever the operator says.
NoUnwantedPermission ==
    session # NoSession =>
        /\ InForce = "allow" <=>
             \/ args.permission \in {"yolo", "allow"}
             \/ options.permission = "yolo" /\ args.permission = ""
             \/ options.permission = "yolo" /\ args.permission = "inherit" /\ local
        /\ args.permission \in {"ask", "deny"} => InForce = args.permission

\* What one would like to add, PermissionModeInherit being what "leaves
\* permission decisions to opencode's configuration": a call that says inherit
\* is not under the operator's mode.  It is on a server the executor started.
InheritIsNobodysMode ==
    session # NoSession /\ args.permission = "inherit" => InForce = "none"

\* A model of the catalogue is found again by its canonical selector ("Exact
\* model selector: provider_id/model_id"), whatever slashes its id has, and the
\* model of a session, however it was named, is written so that it reads the
\* same, but for a provider_id that has a slash itself.
SelectorsReadBack ==
    LET text == args.model IN
    /\ \A i \in Slashes(text) :
         LET m == [provider |-> SubSeq(text, 1, i - 1), model |-> SubSeq(text, i + 1, Len(text))] IN
         /\ Slashes(m.provider) = {} /\ m.provider # <<>> /\ m.model # <<>>
         /\ TrimSpace(m.provider) = m.provider /\ TrimSpace(m.model) = m.model
         => ParseModelRef(Selector(m)) = m
    /\ session # NoSession /\ Slashes(session.model.provider) = {}
         => ParseModelRef(Selector(session.model)) = session.model
=============================================================================
