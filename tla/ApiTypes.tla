------------------------------ MODULE ApiTypes ------------------------------
(***************************************************************************)
(* The types of OpenCode's API that the client sends or is answered with,  *)
(* as oas_json_gen.go decodes and encodes them.  An OptX is an optional    *)
(* field of X; null is allowed where the type is nullable.                 *)
(***************************************************************************)
EXTENDS Schemas

OptNilString == Nullable(Str)
SessionMetadata == Skipping
SessionModel == Strict([id |-> Str, providerID |-> Str], [variant |-> OptNilString])
OptNilSessionModel == Nullable(SessionModel)
PermissionAction == Str

PermissionRule ==
    Strict([action |-> PermissionAction, pattern |-> Str, permission |-> Str],
           NoFields)

PermissionRuleset == Arr(PermissionRule)
SessionRevert == Strict([messageID |-> Str], [diff |-> Str, partID |-> Str, snapshot |-> Str])
SessionShare == Strict([url |-> Str], NoFields)
SnapshotFileDiffStatus == Str

SnapshotFileDiff ==
    Strict([additions |-> Num, deletions |-> Num],
           [file |-> Str, patch |-> Str, status |-> SnapshotFileDiffStatus])

SessionSummary ==
    Strict([additions |-> Num, deletions |-> Num, files |-> Num],
           [diffs |-> Arr(SnapshotFileDiff)])

OptNilFloat64 == Nullable(Num)

SessionTime ==
    Strict([created |-> Integer, updated |-> Integer],
           [archived |-> OptNilFloat64, compacting |-> Integer])

SessionTokensCache == Strict([read |-> Num, write |-> Num], NoFields)
NilFloat64 == Nullable(Num)

SessionTokens ==
    Strict([cache |-> SessionTokensCache, input |-> NilFloat64, output |-> Num, reasoning |-> Num],
           NoFields)

Session ==
    Strict([directory |-> Str, id |-> Str, projectID |-> Str, slug |-> Str, time |-> SessionTime,
            title |-> Str, version |-> Str],
           [agent |-> OptNilString, cost |-> Num, metadata |-> SessionMetadata,
            model |-> OptNilSessionModel, parentID |-> Str, path |-> Str,
            permission |-> PermissionRuleset, revert |-> SessionRevert, share |-> SessionShare,
            summary |-> SessionSummary, tokens |-> SessionTokens, workspaceID |-> OptNilString])

SessionCreateBadRequestApplicationJSON == Raw
SessionCreateReqMetadata == Skipping
SessionCreateReqModel == Strict([id |-> Str, providerID |-> Str], [variant |-> OptNilString])
OptNilSessionCreateReqModel == Nullable(SessionCreateReqModel)

SessionCreateReq ==
    Strict(NoFields,
           [agent |-> OptNilString, metadata |-> SessionCreateReqMetadata,
            model |-> OptNilSessionCreateReqModel, parentID |-> Str,
            permission |-> PermissionRuleset, title |-> Str, workspaceID |-> OptNilString])

SessionMessageOKInfo == Keeping([id |-> Str, role |-> Str], NoFields)
SessionMessageOK == Keeping([info |-> SessionMessageOKInfo], NoFields)
SessionMessageBadRequestApplicationJSON == Raw
UnauthorizedErrorTag == Str
UnauthorizedError == Strict([_tag |-> UnauthorizedErrorTag, message |-> Str], NoFields)
SessionMessageNotFoundApplicationJSON == Raw
ConflictErrorTag == Str
ConflictError == Strict([_tag |-> ConflictErrorTag, message |-> Str], [resource |-> Str])
SessionMessageReqPartsItem == Keeping([type |-> Str], [text |-> Str, name |-> Str, id |-> Str])

SessionMessageReq ==
    Strict([parts |-> Arr(SessionMessageReqPartsItem)],
           [agent |-> Str, messageID |-> Str])

SessionMessagesOKItemInfo == Keeping([id |-> Str, role |-> Str], NoFields)
SessionMessagesOKItemPartsItem == Dict(Raw)

SessionMessagesOKItem ==
    Keeping([info |-> SessionMessagesOKItemInfo, parts |-> Arr(SessionMessagesOKItemPartsItem)],
            NoFields)

SessionMessagesOKApplicationJSON == Arr(SessionMessagesOKItem)
SessionMessagesBadRequestApplicationJSON == Raw
SessionMessagesNotFoundApplicationJSON == Raw
AgentV2InfoMode == Str
AgentV2InfoModel == Strict([id |-> Str, providerID |-> Str], [variant |-> OptNilString])
OptNilAgentV2InfoModel == Nullable(AgentV2InfoModel)
PermissionV2Effect == Str

PermissionV2Rule ==
    Strict([action |-> Str, effect |-> PermissionV2Effect, resource |-> Str],
           NoFields)

PermissionV2Ruleset == Arr(PermissionV2Rule)
AgentV2InfoRequestBody == Skipping
AgentV2InfoRequestHeaders == Dict(Str)

AgentV2InfoRequest ==
    Strict([body |-> AgentV2InfoRequestBody, headers |-> AgentV2InfoRequestHeaders],
           NoFields)

AgentV2Info ==
    Strict([hidden |-> Bool, id |-> Str, mode |-> AgentV2InfoMode,
            permissions |-> PermissionV2Ruleset, request |-> AgentV2InfoRequest],
           [color |-> Raw, description |-> Str, model |-> OptNilAgentV2InfoModel, steps |-> Integer,
            system |-> Str])

LocationInfoProject == Strict([directory |-> Str, id |-> Str], NoFields)

LocationInfo ==
    Strict([directory |-> Str, project |-> LocationInfoProject],
           [workspaceID |-> OptNilString])

V2AgentListOK == Strict([data |-> Arr(AgentV2Info), location |-> LocationInfo], NoFields)
InvalidRequestErrorTag == Str

InvalidRequestError ==
    Strict([_tag |-> InvalidRequestErrorTag, message |-> Str],
           [field |-> Str, kind |-> Str])

ModelV2InfoCapabilities ==
    Strict([input |-> Nullable(Arr(Str)), output |-> Arr(Str), tools |-> Bool],
           NoFields)

ModelV2InfoCostItemCache == Strict([read |-> Num, write |-> Num], NoFields)
ModelV2InfoCostItemTierType == Str

ModelV2InfoCostItemTier ==
    Strict([size |-> Integer, type |-> ModelV2InfoCostItemTierType],
           NoFields)

ModelV2InfoCostItem ==
    Strict([cache |-> ModelV2InfoCostItemCache, input |-> NilFloat64, output |-> Num],
           [tier |-> ModelV2InfoCostItemTier])

OptNilInt == Nullable(Integer)
ModelV2InfoLimit == Strict([context |-> Integer, output |-> Integer], [input |-> OptNilInt])
ModelV2InfoRequestBody == Skipping

ModelV2InfoRequestGeneration ==
    Strict(NoFields,
           [frequencyPenalty |-> Raw, maxTokens |-> Raw, presencePenalty |-> Raw, seed |-> Raw,
            stop |-> Arr(Str), temperature |-> Raw, topK |-> Raw, topP |-> Raw])

ModelV2InfoRequestHeaders == Dict(Str)
ModelV2InfoRequestOptions == Skipping

ModelV2InfoRequest ==
    Strict([body |-> ModelV2InfoRequestBody, headers |-> ModelV2InfoRequestHeaders],
           [generation |-> ModelV2InfoRequestGeneration, options |-> ModelV2InfoRequestOptions,
            variant |-> OptNilString])

ModelV2InfoStatus == Str
ModelV2InfoTime == Strict([released |-> Raw], NoFields)
ModelV2InfoVariantsItemBody == Skipping

ModelV2InfoVariantsItemGeneration ==
    Strict(NoFields,
           [frequencyPenalty |-> Raw, maxTokens |-> Raw, presencePenalty |-> Raw, seed |-> Raw,
            stop |-> Arr(Str), temperature |-> Raw, topK |-> Raw, topP |-> Raw])

ModelV2InfoVariantsItemHeaders == Dict(Str)
ModelV2InfoVariantsItemOptions == Skipping

ModelV2InfoVariantsItem ==
    Strict([body |-> ModelV2InfoVariantsItemBody, headers |-> ModelV2InfoVariantsItemHeaders,
            id |-> Str],
           [generation |-> ModelV2InfoVariantsItemGeneration,
            options |-> ModelV2InfoVariantsItemOptions])

ModelV2Info ==
    Strict([api |-> Raw, capabilities |-> ModelV2InfoCapabilities,
            cost |-> Arr(ModelV2InfoCostItem), enabled |-> Bool, id |-> Str,
            limit |-> ModelV2InfoLimit, name |-> Str, providerID |-> Str,
            request |-> ModelV2InfoRequest, status |-> ModelV2InfoStatus, time |-> ModelV2InfoTime,
            variants |-> Arr(ModelV2InfoVariantsItem)],
           [family |-> OptNilString])

V2ModelListOK == Strict([data |-> Arr(ModelV2Info), location |-> LocationInfo], NoFields)
ServiceUnavailableErrorTag == Str

ServiceUnavailableError ==
    Strict([_tag |-> ServiceUnavailableErrorTag, message |-> Str],
           [service |-> Str])

PermissionV2RequestMetadata == Skipping
PermissionV2SourceType == Str

PermissionV2Source ==
    Strict([callID |-> Str, messageID |-> Str, type |-> PermissionV2SourceType],
           NoFields)

PermissionV2Request ==
    Strict([action |-> Str, id |-> Str, resources |-> Arr(Str), sessionID |-> Str],
           [metadata |-> PermissionV2RequestMetadata, save |-> Arr(Str),
            source |-> PermissionV2Source])

V2PermissionRequestListOK ==
    Strict([data |-> Arr(PermissionV2Request), location |-> LocationInfo],
           NoFields)

ProviderV2InfoRequestBody == Skipping
ProviderV2InfoRequestHeaders == Dict(Str)

ProviderV2InfoRequest ==
    Strict([body |-> ProviderV2InfoRequestBody, headers |-> ProviderV2InfoRequestHeaders],
           NoFields)

ProviderV2Info ==
    Strict([api |-> Raw, enabled |-> Raw, env |-> Arr(Str), id |-> Str, name |-> Str,
            request |-> ProviderV2InfoRequest],
           NoFields)

V2ProviderListOK == Strict([data |-> Arr(ProviderV2Info), location |-> LocationInfo], NoFields)
QuestionV2Option == Strict([description |-> Str, label |-> Str], NoFields)

QuestionV2Info ==
    Strict([header |-> Str, options |-> Arr(QuestionV2Option), question |-> Str],
           [custom |-> Bool, multiple |-> Bool])

QuestionV2Tool == Strict([callID |-> Str, messageID |-> Str], NoFields)

QuestionV2Request ==
    Strict([id |-> Str, questions |-> Arr(QuestionV2Info), sessionID |-> Str],
           [tool |-> QuestionV2Tool])

V2QuestionRequestListOK ==
    Strict([data |-> Arr(QuestionV2Request), location |-> LocationInfo],
           NoFields)

SessionMessage == Raw
V2SessionContextOK == Strict([data |-> Arr(SessionMessage)], NoFields)
V2SessionContextNotFoundApplicationJSON == Raw
UnknownError1Tag == Str
UnknownError1 == Strict([_tag |-> UnknownError1Tag, message |-> Str], [ref |-> Str])
SessionsResponseCursor == Strict(NoFields, [next |-> Str, previous |-> Str])
LocationRef == Strict([directory |-> Str], [workspaceID |-> OptNilString])
SessionV2InfoModel == Strict([id |-> Str, providerID |-> Str], [variant |-> OptNilString])
OptNilSessionV2InfoModel == Nullable(SessionV2InfoModel)

SessionV2InfoTime ==
    Strict([created |-> NilFloat64, updated |-> NilFloat64],
           [archived |-> OptNilFloat64])

SessionV2InfoTokensCache == Strict([read |-> Num, write |-> Num], NoFields)

SessionV2InfoTokens ==
    Strict([cache |-> SessionV2InfoTokensCache, input |-> NilFloat64, output |-> Num,
            reasoning |-> Num],
           NoFields)

SessionV2Info ==
    Strict([cost |-> Num, id |-> Str, location |-> LocationRef, projectID |-> Str,
            time |-> SessionV2InfoTime, title |-> Str, tokens |-> SessionV2InfoTokens],
           [agent |-> OptNilString, model |-> OptNilSessionV2InfoModel, parentID |-> Str,
            subpath |-> OptNilString])

SessionsResponse ==
    Strict([cursor |-> SessionsResponseCursor, data |-> Arr(SessionV2Info)],
           NoFields)

V2SessionListBadRequestApplicationJSON == Raw
V2SessionPermissionListOK == Strict([data |-> Arr(PermissionV2Request)], NoFields)
V2SessionPermissionListNotFoundApplicationJSON == Raw
V2SessionPermissionReplyNotFoundApplicationJSON == Raw
PermissionV2Reply == Str
V2SessionPermissionReplyReq == Strict([reply |-> PermissionV2Reply], [message |-> Str])
V2SessionQuestionRejectNotFoundApplicationJSON == Raw
V2SessionQuestionReplyNotFoundApplicationJSON == Raw
QuestionV2Answer == Arr(Str)
QuestionV2Reply == Strict([answers |-> Arr(QuestionV2Answer)], NoFields)
V2SessionWaitNotFoundApplicationJSON == Raw
=============================================================================
