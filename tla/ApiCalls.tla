------------------------------ MODULE ApiCalls ------------------------------
(***************************************************************************)
(* The operations of OpenCode's API that the client calls: sendX of        *)
(* oas_client_gen.go, with what goes into path, query and body, and        *)
(* decodeXResponse of oas_response_decoders_gen.go, with the type that     *)
(* each status is decoded to.                                              *)
(***************************************************************************)
EXTENDS ApiRules

\* A body is decoded, and validated if its type has a rule; or there is none.
Checked(type, schema, rule) == [type |-> type, media |-> "json", schema |-> schema, rule |-> rule]
Decoded(type, schema)       == Checked(type, schema, Anything)
NoContent(type)             == [type |-> type, media |-> "none", schema |-> Raw, rule |-> Anything]
NoBody                      == [schema |-> Raw, rule |-> Anything]

decodeSessionCreate == [status \in {200, 400} |->
    CASE status = 200 -> Checked("Session", Session, ValidateSession)
      [] status = 400 -> Decoded("SessionCreateBadRequestApplicationJSON", SessionCreateBadRequestApplicationJSON)]

sendSessionCreate ==
    [method |-> "POST", path |-> "/session", ids |-> {},
     query |-> {"directory", "workspace"},
     body |-> [schema |-> SessionCreateReq, rule |-> ValidateSessionCreateReq], decode |-> decodeSessionCreate]

decodeSessionMessage == [status \in {200, 400, 401, 404, 409} |->
    CASE status = 200 -> Decoded("SessionMessageOK", SessionMessageOK)
      [] status = 400 -> Decoded("SessionMessageBadRequestApplicationJSON", SessionMessageBadRequestApplicationJSON)
      [] status = 401 -> Checked("UnauthorizedError", UnauthorizedError, ValidateUnauthorizedError)
      [] status = 404 -> Decoded("SessionMessageNotFoundApplicationJSON", SessionMessageNotFoundApplicationJSON)
      [] status = 409 -> Checked("ConflictError", ConflictError, ValidateConflictError)]

sendSessionMessage ==
    [method |-> "POST", path |-> "/session/{sessionID}/message", ids |-> {"sessionID"},
     query |-> {"directory"},
     body |-> [schema |-> SessionMessageReq, rule |-> ValidateSessionMessageReq], decode |-> decodeSessionMessage]

decodeSessionMessages == [status \in {200, 400, 401, 404} |->
    CASE status = 200 -> Checked("SessionMessagesOKApplicationJSON", SessionMessagesOKApplicationJSON, ValidateSessionMessagesOKApplicationJSON)
      [] status = 400 -> Decoded("SessionMessagesBadRequestApplicationJSON", SessionMessagesBadRequestApplicationJSON)
      [] status = 401 -> Checked("UnauthorizedError", UnauthorizedError, ValidateUnauthorizedError)
      [] status = 404 -> Decoded("SessionMessagesNotFoundApplicationJSON", SessionMessagesNotFoundApplicationJSON)]

sendSessionMessages ==
    [method |-> "GET", path |-> "/session/{sessionID}/message", ids |-> {"sessionID"},
     query |-> {"directory", "before", "limit"},
     body |-> NoBody, decode |-> decodeSessionMessages]

decodeV2AgentList == [status \in {200, 400, 401} |->
    CASE status = 200 -> Checked("V2AgentListOK", V2AgentListOK, ValidateV2AgentListOK)
      [] status = 400 -> Checked("InvalidRequestError", InvalidRequestError, ValidateInvalidRequestError)
      [] status = 401 -> Checked("UnauthorizedError", UnauthorizedError, ValidateUnauthorizedError)]

sendV2AgentList ==
    [method |-> "GET", path |-> "/api/agent", ids |-> {},
     query |-> {"location"},
     body |-> NoBody, decode |-> decodeV2AgentList]

decodeV2ModelList == [status \in {200, 400, 401, 503} |->
    CASE status = 200 -> Checked("V2ModelListOK", V2ModelListOK, ValidateV2ModelListOK)
      [] status = 400 -> Checked("InvalidRequestError", InvalidRequestError, ValidateInvalidRequestError)
      [] status = 401 -> Checked("UnauthorizedError", UnauthorizedError, ValidateUnauthorizedError)
      [] status = 503 -> Checked("ServiceUnavailableError", ServiceUnavailableError, ValidateServiceUnavailableError)]

sendV2ModelList ==
    [method |-> "GET", path |-> "/api/model", ids |-> {},
     query |-> {"location"},
     body |-> NoBody, decode |-> decodeV2ModelList]

decodeV2PermissionRequestList == [status \in {200, 400, 401} |->
    CASE status = 200 -> Checked("V2PermissionRequestListOK", V2PermissionRequestListOK, ValidateV2PermissionRequestListOK)
      [] status = 400 -> Checked("InvalidRequestError", InvalidRequestError, ValidateInvalidRequestError)
      [] status = 401 -> Checked("UnauthorizedError", UnauthorizedError, ValidateUnauthorizedError)]

sendV2PermissionRequestList ==
    [method |-> "GET", path |-> "/api/permission/request", ids |-> {},
     query |-> {"location"},
     body |-> NoBody, decode |-> decodeV2PermissionRequestList]

decodeV2ProviderList == [status \in {200, 400, 401, 503} |->
    CASE status = 200 -> Checked("V2ProviderListOK", V2ProviderListOK, ValidateV2ProviderListOK)
      [] status = 400 -> Checked("InvalidRequestError", InvalidRequestError, ValidateInvalidRequestError)
      [] status = 401 -> Checked("UnauthorizedError", UnauthorizedError, ValidateUnauthorizedError)
      [] status = 503 -> Checked("ServiceUnavailableError", ServiceUnavailableError, ValidateServiceUnavailableError)]

sendV2ProviderList ==
    [method |-> "GET", path |-> "/api/provider", ids |-> {},
     query |-> {"location"},
     body |-> NoBody, decode |-> decodeV2ProviderList]

decodeV2QuestionRequestList == [status \in {200, 400, 401} |->
    CASE status = 200 -> Checked("V2QuestionRequestListOK", V2QuestionRequestListOK, ValidateV2QuestionRequestListOK)
      [] status = 400 -> Checked("InvalidRequestError", InvalidRequestError, ValidateInvalidRequestError)
      [] status = 401 -> Checked("UnauthorizedError", UnauthorizedError, ValidateUnauthorizedError)]

sendV2QuestionRequestList ==
    [method |-> "GET", path |-> "/api/question/request", ids |-> {},
     query |-> {"location"},
     body |-> NoBody, decode |-> decodeV2QuestionRequestList]

decodeV2SessionContext == [status \in {200, 400, 401, 404, 500} |->
    CASE status = 200 -> Checked("V2SessionContextOK", V2SessionContextOK, ValidateV2SessionContextOK)
      [] status = 400 -> Checked("InvalidRequestError", InvalidRequestError, ValidateInvalidRequestError)
      [] status = 401 -> Checked("UnauthorizedError", UnauthorizedError, ValidateUnauthorizedError)
      [] status = 404 -> Decoded("V2SessionContextNotFoundApplicationJSON", V2SessionContextNotFoundApplicationJSON)
      [] status = 500 -> Checked("UnknownError1", UnknownError1, ValidateUnknownError1)]

sendV2SessionContext ==
    [method |-> "GET", path |-> "/api/session/{sessionID}/context", ids |-> {"sessionID"},
     query |-> {},
     body |-> NoBody, decode |-> decodeV2SessionContext]

decodeV2SessionList == [status \in {200, 400, 401} |->
    CASE status = 200 -> Checked("SessionsResponse", SessionsResponse, ValidateSessionsResponse)
      [] status = 400 -> Decoded("V2SessionListBadRequestApplicationJSON", V2SessionListBadRequestApplicationJSON)
      [] status = 401 -> Checked("UnauthorizedError", UnauthorizedError, ValidateUnauthorizedError)]

sendV2SessionList ==
    [method |-> "GET", path |-> "/api/session", ids |-> {},
     query |-> {"workspace", "limit", "order", "search", "directory", "project", "subpath", "cursor"},
     body |-> NoBody, decode |-> decodeV2SessionList]

decodeV2SessionPermissionList == [status \in {200, 400, 401, 404} |->
    CASE status = 200 -> Checked("V2SessionPermissionListOK", V2SessionPermissionListOK, ValidateV2SessionPermissionListOK)
      [] status = 400 -> Checked("InvalidRequestError", InvalidRequestError, ValidateInvalidRequestError)
      [] status = 401 -> Checked("UnauthorizedError", UnauthorizedError, ValidateUnauthorizedError)
      [] status = 404 -> Decoded("V2SessionPermissionListNotFoundApplicationJSON", V2SessionPermissionListNotFoundApplicationJSON)]

sendV2SessionPermissionList ==
    [method |-> "GET", path |-> "/api/session/{sessionID}/permission", ids |-> {"sessionID"},
     query |-> {},
     body |-> NoBody, decode |-> decodeV2SessionPermissionList]

decodeV2SessionPermissionReply == [status \in {204, 400, 401, 404} |->
    CASE status = 204 -> NoContent("V2SessionPermissionReplyNoContent")
      [] status = 400 -> Checked("InvalidRequestError", InvalidRequestError, ValidateInvalidRequestError)
      [] status = 401 -> Checked("UnauthorizedError", UnauthorizedError, ValidateUnauthorizedError)
      [] status = 404 -> Decoded("V2SessionPermissionReplyNotFoundApplicationJSON", V2SessionPermissionReplyNotFoundApplicationJSON)]

sendV2SessionPermissionReply ==
    [method |-> "POST", path |-> "/api/session/{sessionID}/permission/{requestID}/reply", ids |-> {"sessionID", "requestID"},
     query |-> {},
     body |-> [schema |-> V2SessionPermissionReplyReq, rule |-> ValidateV2SessionPermissionReplyReq], decode |-> decodeV2SessionPermissionReply]

decodeV2SessionQuestionReject == [status \in {204, 400, 401, 404} |->
    CASE status = 204 -> NoContent("V2SessionQuestionRejectNoContent")
      [] status = 400 -> Checked("InvalidRequestError", InvalidRequestError, ValidateInvalidRequestError)
      [] status = 401 -> Checked("UnauthorizedError", UnauthorizedError, ValidateUnauthorizedError)
      [] status = 404 -> Decoded("V2SessionQuestionRejectNotFoundApplicationJSON", V2SessionQuestionRejectNotFoundApplicationJSON)]

sendV2SessionQuestionReject ==
    [method |-> "POST", path |-> "/api/session/{sessionID}/question/{requestID}/reject", ids |-> {"sessionID", "requestID"},
     query |-> {},
     body |-> NoBody, decode |-> decodeV2SessionQuestionReject]

decodeV2SessionQuestionReply == [status \in {204, 400, 401, 404} |->
    CASE status = 204 -> NoContent("V2SessionQuestionReplyNoContent")
      [] status = 400 -> Checked("InvalidRequestError", InvalidRequestError, ValidateInvalidRequestError)
      [] status = 401 -> Checked("UnauthorizedError", UnauthorizedError, ValidateUnauthorizedError)
      [] status = 404 -> Decoded("V2SessionQuestionReplyNotFoundApplicationJSON", V2SessionQuestionReplyNotFoundApplicationJSON)]

sendV2SessionQuestionReply ==
    [method |-> "POST", path |-> "/api/session/{sessionID}/question/{requestID}/reply", ids |-> {"sessionID", "requestID"},
     query |-> {},
     body |-> [schema |-> QuestionV2Reply, rule |-> ValidateQuestionV2Reply], decode |-> decodeV2SessionQuestionReply]

decodeV2SessionWait == [status \in {204, 400, 401, 404, 503} |->
    CASE status = 204 -> NoContent("V2SessionWaitNoContent")
      [] status = 400 -> Checked("InvalidRequestError", InvalidRequestError, ValidateInvalidRequestError)
      [] status = 401 -> Checked("UnauthorizedError", UnauthorizedError, ValidateUnauthorizedError)
      [] status = 404 -> Decoded("V2SessionWaitNotFoundApplicationJSON", V2SessionWaitNotFoundApplicationJSON)
      [] status = 503 -> Checked("ServiceUnavailableError", ServiceUnavailableError, ValidateServiceUnavailableError)]

sendV2SessionWait ==
    [method |-> "POST", path |-> "/api/session/{sessionID}/wait", ids |-> {"sessionID"},
     query |-> {},
     body |-> NoBody, decode |-> decodeV2SessionWait]

Calls ==
    {sendSessionCreate, sendSessionMessage, sendSessionMessages, sendV2AgentList,
     sendV2ModelList, sendV2PermissionRequestList, sendV2ProviderList,
     sendV2QuestionRequestList, sendV2SessionContext, sendV2SessionList,
     sendV2SessionPermissionList, sendV2SessionPermissionReply,
     sendV2SessionQuestionReject, sendV2SessionQuestionReply, sendV2SessionWait}

AnswerTypes == UNION {{call.decode[status] : status \in DOMAIN call.decode} : call \in Calls}
=============================================================================
