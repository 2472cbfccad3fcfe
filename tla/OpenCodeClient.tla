--------------------------- MODULE OpenCodeClient ---------------------------
(***************************************************************************)
(* client.go: one call of one method of Client, the requests it makes and  *)
(* what it makes of OpenCode's answers, with the generated API below it    *)
(* (ApiCalls) and the summary of pending requests above it (Json).  An     *)
(* answer need not be one that the API describes: OpenCode is another      *)
(* program, of another version.                                            *)
(***************************************************************************)
EXTENDS ApiCalls, FiniteSets

CONSTANTS
    Defaults,           \* the configured default directory, "" for none
    Inputs,             \* of a method: the arguments it is called with
    Documents(_, _)     \* what may come where a type, with its rule, is expected

Methods == {"Health", "Agents", "ProvidersAndModels", "Sessions", "CreateSession", "Prompt",
            "Abort", "Messages", "Context", "Permissions", "PermissionReply", "Questions",
            "QuestionReply", "SessionPermissionRequests", "SessionQuestionRequests", "Wait"}

Ordinary == [directory |-> "", workspace |-> "", session |-> "ses", request |-> "per",
             parentID |-> "", model |-> "", agent |-> "", action |-> "none",
             reply |-> "once", message |-> "", reject |-> FALSE, answers |-> <<>>]

\* A document is JSON.  The tools take a mode of permissions for an action.
ASSUME OpenCodeClientAssumption ==
    /\ DOMAIN Inputs = Methods
    /\ \A m \in Methods : \A a \in Inputs[m] :
            DOMAIN a = DOMAIN Ordinary /\ a.action \in {"none", "ask", "deny", "allow"}
    /\ \A t \in AnswerTypes : \A d \in Documents(t.schema, t.rule) :
            \A m \in Met(t.schema, d) : IsValue(m[2])

VARIABLES
    method,
    args,
    default,
    leg,         \* what is under way, or "done"
    sent,        \* the requests so far, each with the status it was answered
    answer,      \* to the last of them
    outcome

clientVars == <<method, args, default, leg, sent, answer, outcome>>

None        == [kind |-> "none", value |-> JNull]
Ok(value)   == [kind |-> "ok", value |-> value]
Error       == [kind |-> "error", value |-> JNull]
Unexpected  == [kind |-> "unexpected type", value |-> JNull]

NoAnswer == [status |-> 0, media |-> "none", doc |-> Broken, allowed |-> FALSE]

-----------------------------------------------------------------------------
(* The request of each leg, and the types that its switch has a case for   *)

dir      == IF args.directory = "" THEN default ELSE args.directory
Location == [directory |-> dir, workspace |-> args.workspace]
Nowhere  == [directory |-> "", workspace |-> ""]

Typed(call, where, body, ok, errors) ==
    [raw |-> FALSE, call |-> call, where |-> where, body |-> body, ok |-> ok, errors |-> errors]
Bare(path, where) ==
    [raw |-> TRUE, call |-> [path |-> path, body |-> NoBody], where |-> where,
     body |-> JNull, ok |-> "", errors |-> {}]

InvalidOrUnauthorized == {"InvalidRequestError", "UnauthorizedError"}

Agents == Typed(sendV2AgentList, Location, JNull, "V2AgentListOK", InvalidOrUnauthorized)

currentProvidersAndModels == Bare("/provider", Location)

apiProviders ==
    Typed(sendV2ProviderList, Location, JNull, "V2ProviderListOK",
          InvalidOrUnauthorized \cup {"ServiceUnavailableError"})

apiModels ==
    Typed(sendV2ModelList, Location, JNull, "V2ModelListOK",
          InvalidOrUnauthorized \cup {"ServiceUnavailableError"})

Sessions ==
    Typed(sendV2SessionList, [directory |-> dir, workspace |-> ""], JNull, "SessionsResponse",
          {"UnauthorizedError", "V2SessionListBadRequestApplicationJSON"})

Rule(permission) ==
    JObj([permission |-> JStr("*"), pattern |-> JStr("*"), action |-> JStr(permission)])

\* Mutant: the model is sent as the tools name it.
ModelAsNamed ==
    IF args.model = "" THEN JNull
    ELSE JObj([providerID |-> JStr("provider"), modelID |-> JStr(args.model)])
ModelOfSession ==
    IF args.model = "" THEN JNull
    ELSE JObj([providerID |-> JStr("provider"), id |-> JStr(args.model)])

CreateSession ==
    Typed(sendSessionCreate, Location,
          Fields([title |-> JStr("text"), parentID |-> Given(args.parentID), agent |-> Given(args.agent),
                  workspaceID |-> Given(args.workspace), model |-> ModelOfSession,
                  permission |-> IF args.action = "none" THEN JNull ELSE JArr(<<Rule(args.action)>>)]),
          "Session", {"SessionCreateBadRequestApplicationJSON"})

Prompt ==
    Typed(sendSessionMessage, [directory |-> dir, workspace |-> ""],
          Fields([parts |-> JArr(<<JObj([type |-> JStr("text"), text |-> JStr("task")])>>),
                  agent |-> Given(args.agent)]),
          "SessionMessageOK",
          {"UnauthorizedError", "ConflictError", "SessionMessageBadRequestApplicationJSON",
           "SessionMessageNotFoundApplicationJSON"})

Abort == Bare("/session/{sessionID}/abort", Location)

Messages ==
    Typed(sendSessionMessages, Nowhere, JNull, "SessionMessagesOKApplicationJSON",
          {"UnauthorizedError", "SessionMessagesBadRequestApplicationJSON",
           "SessionMessagesNotFoundApplicationJSON"})

Context ==
    Typed(sendV2SessionContext, Nowhere, JNull, "V2SessionContextOK",
          InvalidOrUnauthorized \cup {"UnknownError1", "V2SessionContextNotFoundApplicationJSON"})

Permissions ==
    Typed(sendV2PermissionRequestList, Location, JNull, "V2PermissionRequestListOK",
          InvalidOrUnauthorized)

PermissionReply ==
    Typed(sendV2SessionPermissionReply, Nowhere,
          Fields([reply |-> JStr(args.reply), message |-> Given(args.message)]),
          "V2SessionPermissionReplyNoContent",
          InvalidOrUnauthorized \cup {"V2SessionPermissionReplyNotFoundApplicationJSON"})

Questions ==
    Typed(sendV2QuestionRequestList, Location, JNull, "V2QuestionRequestListOK",
          InvalidOrUnauthorized)

\* The labels selected for each question; no answers are an empty list.
Labels(answers) == JArr([i \in DOMAIN answers |-> JArr([j \in DOMAIN answers[i] |-> JStr(answers[i][j])])])

QuestionReply ==
    IF args.reject
    THEN Typed(sendV2SessionQuestionReject, Nowhere, JNull, "V2SessionQuestionRejectNoContent",
               InvalidOrUnauthorized \cup {"V2SessionQuestionRejectNotFoundApplicationJSON"})
    ELSE Typed(sendV2SessionQuestionReply, Nowhere, JObj([answers |-> Labels(args.answers)]),
               "V2SessionQuestionReplyNoContent",
               InvalidOrUnauthorized \cup {"V2SessionQuestionReplyNotFoundApplicationJSON"})

SessionPermissionRequests ==
    Typed(sendV2SessionPermissionList, Nowhere, JNull, "V2SessionPermissionListOK",
          InvalidOrUnauthorized \cup {"V2SessionPermissionListNotFoundApplicationJSON"})

SessionQuestionRequests ==
    Typed(sendV2QuestionRequestList, Location, JNull, "V2QuestionRequestListOK",
          InvalidOrUnauthorized)

Wait ==
    Typed(sendV2SessionWait, Nowhere, JNull, "V2SessionWaitNoContent",
          InvalidOrUnauthorized \cup {"ServiceUnavailableError", "V2SessionWaitNotFoundApplicationJSON"})

Request ==
    CASE leg = "Health"             -> Bare("/global/health", Nowhere)
      [] leg = "api health"         -> Bare("/api/health", Nowhere)
      [] leg = "Agents"             -> Agents
      [] leg = "ProvidersAndModels" -> currentProvidersAndModels
      [] leg = "api providers"      -> apiProviders
      [] leg = "api models"         -> apiModels
      [] leg = "Sessions"           -> Sessions
      [] leg = "CreateSession"      -> CreateSession
      [] leg = "Prompt"             -> Prompt
      [] leg = "Abort"              -> Abort
      [] leg = "Messages"           -> Messages
      [] leg = "Context"            -> Context
      [] leg = "Permissions"        -> Permissions
      [] leg = "PermissionReply"    -> PermissionReply
      [] leg = "Questions"          -> Questions
      [] leg = "QuestionReply"      -> QuestionReply
      [] leg = "Wait"               -> Wait
      [] leg = "SessionPermissionRequests" -> SessionPermissionRequests
      [] leg = "SessionQuestionRequests"   -> SessionQuestionRequests

-----------------------------------------------------------------------------
(* Answers *)

Answer(status, media, doc, allowed) ==
    [status |-> status, media |-> media, doc |-> doc, allowed |-> allowed]

\* What encoding/json takes for currentProviderList.
LenientList(s) == Nullable(Arr(Nullable(s)))
currentProviderList ==
    LET model    == Object("skip", NoFields, [id |-> Nullable(Str), name |-> Nullable(Str)])
        provider == Object("skip", NoFields, [id |-> Nullable(Str), name |-> Nullable(Str),
                                              models |-> Nullable(Dict(Nullable(model)))])
    IN  Nullable(Object("skip", NoFields, [all |-> LenientList(provider)]))

False == [k |-> "bool", v |-> "false"]
Empty == [k |-> "empty", v |-> ""]

BareAnswers ==
    {Answer(200, "json", Broken, FALSE), Answer(200, "json", JNull, FALSE)} \cup
    CASE leg = "Abort" -> {Answer(200, "json", d, TRUE) : d \in {True, False, Empty}}
      [] leg = "ProvidersAndModels" ->
            {Answer(200, "json", d, Decodes(currentProviderList, d)) :
                d \in Documents(currentProviderList, Anything)}
      [] OTHER -> {Answer(200, "json", JObj(NoFields), TRUE)}

Described(t, d) == Decodes(t.schema, d) /\ Validates(t.rule, d)

TypedAnswers(t, status) ==
    IF t.media = "none" THEN {Answer(status, "none", Empty, TRUE)}
    ELSE {Answer(status, "json", d, Described(t, d)) : d \in Documents(t.schema, t.rule)}
         \cup {Answer(status, "json", Broken, FALSE), Answer(status, "text", Broken, FALSE)}

Offered(r) ==
    LET listed == IF r.raw THEN {200} ELSE DOMAIN r.call.decode
    IN  {NoAnswer}
        \cup (IF r.raw THEN BareAnswers
              ELSE UNION {TypedAnswers(r.call.decode[st], st) : st \in listed})
        \cup {Answer(st, "text", Broken, FALSE) : st \in {404, 500, 503} \ listed}

Success(status) == status \in 200 .. 299

Missing(a) == a.status = 404 /\ leg \in {"Health", "ProvidersAndModels"}

\* Mutant: an answer without a body has to name its type as well.
TypeIfJson(r, a) ==
    IF a.status \notin DOMAIN r.call.decode \/ a.media # "json" THEN ""
    ELSE LET t == r.call.decode[a.status] IN IF Described(t, a.doc) THEN t.type ELSE ""

\* The type that a typed answer is decoded to, "" if it is not.
TypeOf(r, a) ==
    IF a.status \notin DOMAIN r.call.decode THEN ""
    ELSE LET t == r.call.decode[a.status] IN
         IF t.media = "none" \/ (a.media = "json" /\ Described(t, a.doc)) THEN t.type ELSE ""

\* Without types: a boolean for abort, any JSON for health.
BareOK(a) ==
    /\ Success(a.status)
    /\ CASE leg = "Abort" -> a.doc.k \in {"bool", "empty", "null"}
         [] leg = "ProvidersAndModels" -> Decodes(currentProviderList, a.doc)
         [] OTHER -> a.doc.k # "broken"

Aborted(d) == IF d \in {True, Empty} THEN True ELSE False

-----------------------------------------------------------------------------
(* Results *)

\* Mutant: the requests name their session as the summaries do.
OfSessionSnake(list, session) ==
    LET Its(q) == stringField(q, "session_id") = session IN Those(list.a, Its)
OfSession(list, session) ==
    LET Its(q) == \/ stringField(q, "sessionID") = session
                  \/ stringField(q, "session_id") = session
    IN  Those(list.a, Its)

Or(s, other) == IF s = "" THEN other ELSE s

\* What the object has under key; nothing if it is null or missing.
Under(d, key) == IF NotNil(d, key) THEN d.f[key] ELSE JNull
Items(d)      == IF d.k = "arr" THEN {d.a[i] : i \in DOMAIN d.a} ELSE {}

newModelSummary(provider, id, name) == [provider |-> provider, id |-> id, name |-> name]

modelsOfProviders(d) ==
    UNION {LET models == Under(p, "models") IN
           IF models.k # "obj" THEN {}
           ELSE {LET id == Or(stringField(models.f[key], "id"), key)
                 IN  newModelSummary(stringField(p, "id"), id, Or(stringField(models.f[key], "name"), id)) :
                     key \in DOMAIN models.f} : p \in Items(Under(d, "all"))}

modelsOfList(d) ==
    {newModelSummary(stringField(m, "providerID"), stringField(m, "id"), stringField(m, "name")) :
        m \in Items(Under(d, "data"))}

Value(r, a) ==
    LET e == IF r.raw \/ TypeOf(r, a) = "" THEN a.doc ELSE Encoded(r.call.decode[a.status].schema, a.doc) IN
    CASE leg = "Abort" -> Aborted(a.doc)
      [] leg = "ProvidersAndModels" -> modelsOfProviders(a.doc)
      [] leg = "api models" -> modelsOfList(e)
      [] leg \in {"Agents", "Sessions", "Context", "Permissions", "Questions", "SessionPermissionRequests"} ->
            Under(e, "data")
      [] leg = "SessionQuestionRequests" -> JArr(OfSession(Under(e, "data"), args.session))
      [] leg \in {"PermissionReply", "QuestionReply"} -> JObj(NoFields)
      [] leg = "Wait" -> JNull
      [] OTHER -> e

Outcome(r, a) ==
    LET type == TypeOf(r, a) IN
    IF r.raw THEN IF BareOK(a) THEN Ok(Value(r, a)) ELSE Error
    ELSE IF type = r.ok THEN Ok(Value(r, a))
    ELSE IF type \in r.errors \cup {""} THEN Error ELSE Unexpected

-----------------------------------------------------------------------------
(* The call *)

ClientInit ==
    /\ method \in Methods /\ args \in Inputs[method] /\ default \in Defaults
    /\ leg = "called" /\ sent = <<>> /\ answer = NoAnswer /\ outcome = None

NeedsSession == {"Prompt", "Abort", "Messages", "Context", "PermissionReply", "QuestionReply",
                 "SessionPermissionRequests", "Wait"}
Complete ==
    /\ method \in NeedsSession => args.session # ""
    /\ method \in {"PermissionReply", "QuestionReply"} => args.request # ""

Call ==
    /\ leg = "called"
    /\ \/ Complete /\ leg' = method /\ UNCHANGED outcome
       \/ ~Complete /\ leg' = "done" /\ outcome' = Error
    /\ UNCHANGED <<method, args, default, sent, answer>>

\* What of the location the operation has parameters for.
Asked(r, status) ==
    LET query == IF r.raw THEN {"directory", "workspace"} ELSE r.call.query
        Of(part) == IF {part, "location"} \cap query = {} THEN "" ELSE r.where[part]
    IN  [path |-> r.call.path, directory |-> Of("directory"), workspace |-> Of("workspace"),
         status |-> status]

Answered(a) ==
    /\ sent' = Append(sent, Asked(Request, a.status))
    /\ answer' = a
    /\ UNCHANGED <<method, args, default>>

InProgress == leg \notin {"called", "done"}

\* The route is not there: ask for the one of the other API.
FallBack(a) ==
    /\ Missing(a)
    /\ leg' = IF leg = "Health" THEN "api health" ELSE "api providers"
    /\ UNCHANGED outcome

ContinueWithModels(a) ==
    /\ leg = "api providers" /\ Outcome(Request, a).kind = "ok"
    /\ leg' = "api models"
    /\ UNCHANGED outcome

Return(a) ==
    /\ ~Missing(a)
    /\ leg = "api providers" => Outcome(Request, a).kind # "ok"
    /\ leg' = "done"
    /\ outcome' = Outcome(Request, a)

ClientNext ==
    \/ Call
    \/ /\ InProgress
       /\ \E a \in Offered(Request) : Answered(a) /\ (FallBack(a) \/ ContinueWithModels(a) \/ Return(a))

ClientSpec == ClientInit /\ [][ClientNext]_clientVars

-----------------------------------------------------------------------------
(* Properties *)

\* An answer within the API, whichever optional fields, empty lists and
\* nulls it has, makes the call succeed if and only if its status says so:
\* what OpenCode did is not reported as failed, nor the other way round.
DescribedAnswerTaken ==
    leg = "done" /\ answer.allowed => (outcome.kind = "ok" <=> Success(answer.status))

\* handoff_check looks for the answer in fields of messages that the
\* generated types do not know: none is lost on the way.
MessagesUnchanged ==
    method \in {"Messages", "Prompt"} /\ outcome.kind = "ok" => outcome.value = answer.doc

\* What a caller passes on is what it got from OpenCode.
InTermsOfTheAPI ==
    /\ args.parentID \in Identifiers["ses"] \cup {""}
    /\ args.workspace \in Identifiers["wrk"] \cup {""}
    /\ args.reply \in {"once", "always", "reject"}

\* Client encodes a body without validating it: it is one that the
\* description of the API allows, if what the caller passed on is.
BodyFollowsDescription ==
    InProgress /\ InTermsOfTheAPI => Described(Request.call.body, Request.body)

\* The summaries of handoff_check are one for each pending request of the
\* session, although they are found by looking for anything with an id.
RequestsShownOnce ==
    method \in {"Permissions", "Questions"} /\ outcome.kind = "ok" =>
        \A session \in Identifiers["ses"] :
            Len(summarizeRequests(outcome.value, "kind", session))
                = Cardinality({i \in DOMAIN outcome.value.a :
                                 outcome.value.a[i].f["sessionID"].v = session})

\* A question that handoff_check shows for a session is one that
\* handoff_question_reply finds for it.
ShownQuestionCanBeAnswered ==
    method = "Questions" /\ outcome.kind = "ok" =>
        \A session \in Identifiers["ses"] :
            Len(summarizeRequests(outcome.value, "question", session))
                = Len(OfSession(outcome.value, session))

\* The description of handoff_permission_reply: "for example once, always,
\* reject, or deny": each of these is an answer that OpenCode takes.
ReplyTaken ==
    InProgress /\ method = "PermissionReply" /\ args.reply \in {"once", "always", "reject", "deny"} =>
        Described(Request.call.body, Request.body)

\* handoff_question_reply: "See handoff_check for pending questions.": its
\* summary of a question says something about it.
QuestionIsShown ==
    method = "Questions" /\ outcome.kind = "ok" =>
        \A i \in DOMAIN summarizeRequests(outcome.value, "question", "") :
            LET shown == summarizeRequests(outcome.value, "question", "")[i]
            IN  shown.title # "" \/ shown.text # <<>>

\* handoff_sessions: "List opencode sessions visible in a directory/workspace.":
\* it asks for those of the workspace it is given.
WorkspaceScoped ==
    method = "Sessions" => \A i \in DOMAIN sent : sent[i].workspace = args.workspace
=============================================================================
