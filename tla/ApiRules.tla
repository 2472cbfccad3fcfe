------------------------------ MODULE ApiRules ------------------------------
(***************************************************************************)
(* What oas_validators_gen.go checks in a decoded value: values of         *)
(* enumerations, prefixes of identifiers, bounds of integers.  A type      *)
(* without a rule is not validated.                                        *)
(***************************************************************************)
EXTENDS ApiTypes

ValidatePermissionAction == OneOf({"allow", "deny", "ask"})
ValidatePermissionRule == Rules([action |-> ValidatePermissionAction])
ValidatePermissionRuleset == Each(ValidatePermissionRule)
ValidateSessionRevert == Rules([messageID |-> Prefix("msg"), partID |-> Prefix("prt")])
ValidateSnapshotFileDiffStatus == OneOf({"added", "deleted", "modified"})

ValidateSnapshotFileDiff ==
    Rules([additions |-> Finite, deletions |-> Finite, status |-> ValidateSnapshotFileDiffStatus])

ValidateSessionSummary ==
    Rules([additions |-> Finite, deletions |-> Finite, diffs |-> Each(ValidateSnapshotFileDiff),
           files |-> Finite])

ValidateSessionTime ==
    Rules([archived |-> Finite, compacting |-> NotNegative, created |-> NotNegative,
           updated |-> NotNegative])

ValidateSessionTokensCache == Rules([read |-> Finite, write |-> Finite])

ValidateSessionTokens ==
    Rules([cache |-> ValidateSessionTokensCache, input |-> Finite, output |-> Finite,
           reasoning |-> Finite])

ValidateSession ==
    Rules([cost |-> Finite, id |-> Prefix("ses"), parentID |-> Prefix("ses"),
           permission |-> ValidatePermissionRuleset, revert |-> ValidateSessionRevert,
           summary |-> ValidateSessionSummary, time |-> ValidateSessionTime,
           tokens |-> ValidateSessionTokens, workspaceID |-> Prefix("wrk")])

ValidateSessionCreateReq ==
    Rules([parentID |-> Prefix("ses"), permission |-> ValidatePermissionRuleset,
           workspaceID |-> Prefix("wrk")])

ValidateUnauthorizedErrorTag == OneOf({"UnauthorizedError"})
ValidateUnauthorizedError == Rules([_tag |-> ValidateUnauthorizedErrorTag])
ValidateConflictErrorTag == OneOf({"ConflictError"})
ValidateConflictError == Rules([_tag |-> ValidateConflictErrorTag])
ValidateSessionMessageReq == Rules([parts |-> NonNil])
ValidateSessionMessagesOKItem == Rules([parts |-> NonNil])
ValidateSessionMessagesOKApplicationJSON == Each(ValidateSessionMessagesOKItem)
ValidateAgentV2InfoMode == OneOf({"subagent", "primary", "all"})
ValidatePermissionV2Effect == OneOf({"allow", "deny", "ask"})
ValidatePermissionV2Rule == Rules([effect |-> ValidatePermissionV2Effect])
ValidatePermissionV2Ruleset == Each(ValidatePermissionV2Rule)

ValidateAgentV2Info ==
    Rules([mode |-> ValidateAgentV2InfoMode, permissions |-> ValidatePermissionV2Ruleset,
           steps |-> Positive])

ValidateLocationInfo == Rules([workspaceID |-> Prefix("wrk")])

ValidateV2AgentListOK ==
    Rules([data |-> Each(ValidateAgentV2Info), location |-> ValidateLocationInfo])

ValidateInvalidRequestErrorTag == OneOf({"InvalidRequestError"})
ValidateInvalidRequestError == Rules([_tag |-> ValidateInvalidRequestErrorTag])
ValidateModelV2InfoCapabilities == Rules([output |-> NonNil])
ValidateModelV2InfoCostItemCache == Rules([read |-> Finite, write |-> Finite])
ValidateModelV2InfoCostItemTierType == OneOf({"context"})
ValidateModelV2InfoCostItemTier == Rules([type |-> ValidateModelV2InfoCostItemTierType])

ValidateModelV2InfoCostItem ==
    Rules([cache |-> ValidateModelV2InfoCostItemCache, input |-> Finite, output |-> Finite,
           tier |-> ValidateModelV2InfoCostItemTier])

ValidateModelV2InfoStatus == OneOf({"alpha", "beta", "deprecated", "active"})

ValidateModelV2Info ==
    Rules([capabilities |-> ValidateModelV2InfoCapabilities,
           cost |-> Each(ValidateModelV2InfoCostItem), status |-> ValidateModelV2InfoStatus,
           variants |-> NonNil])

ValidateV2ModelListOK ==
    Rules([data |-> Each(ValidateModelV2Info), location |-> ValidateLocationInfo])

ValidateServiceUnavailableErrorTag == OneOf({"ServiceUnavailableError"})
ValidateServiceUnavailableError == Rules([_tag |-> ValidateServiceUnavailableErrorTag])
ValidatePermissionV2SourceType == OneOf({"tool"})
ValidatePermissionV2Source == Rules([type |-> ValidatePermissionV2SourceType])

ValidatePermissionV2Request ==
    Rules([id |-> Prefix("per"), resources |-> NonNil, sessionID |-> Prefix("ses"),
           source |-> ValidatePermissionV2Source])

ValidateV2PermissionRequestListOK ==
    Rules([data |-> Each(ValidatePermissionV2Request), location |-> ValidateLocationInfo])

ValidateProviderV2Info == Rules([env |-> NonNil])

ValidateV2ProviderListOK ==
    Rules([data |-> Each(ValidateProviderV2Info), location |-> ValidateLocationInfo])

ValidateQuestionV2Info == Rules([options |-> NonNil])

ValidateQuestionV2Request ==
    Rules([id |-> Prefix("que"), questions |-> Each(ValidateQuestionV2Info),
           sessionID |-> Prefix("ses")])

ValidateV2QuestionRequestListOK ==
    Rules([data |-> Each(ValidateQuestionV2Request), location |-> ValidateLocationInfo])

ValidateV2SessionContextOK == Rules([data |-> NonNil])
ValidateUnknownError1Tag == OneOf({"UnknownError"})
ValidateUnknownError1 == Rules([_tag |-> ValidateUnknownError1Tag])
ValidateLocationRef == Rules([workspaceID |-> Prefix("wrk")])
ValidateSessionV2InfoTime == Rules([archived |-> Finite, created |-> Finite, updated |-> Finite])
ValidateSessionV2InfoTokensCache == Rules([read |-> Finite, write |-> Finite])

ValidateSessionV2InfoTokens ==
    Rules([cache |-> ValidateSessionV2InfoTokensCache, input |-> Finite, output |-> Finite,
           reasoning |-> Finite])

ValidateSessionV2Info ==
    Rules([cost |-> Finite, id |-> Prefix("ses"), location |-> ValidateLocationRef,
           parentID |-> Prefix("ses"), time |-> ValidateSessionV2InfoTime,
           tokens |-> ValidateSessionV2InfoTokens])

ValidateSessionsResponse == Rules([data |-> Each(ValidateSessionV2Info)])
ValidateV2SessionPermissionListOK == Rules([data |-> Each(ValidatePermissionV2Request)])
ValidatePermissionV2Reply == OneOf({"once", "always", "reject"})
ValidateV2SessionPermissionReplyReq == Rules([reply |-> ValidatePermissionV2Reply])
ValidateQuestionV2Answer == NonNil
ValidateQuestionV2Reply == Rules([answers |-> Each(ValidateQuestionV2Answer)])
=============================================================================
