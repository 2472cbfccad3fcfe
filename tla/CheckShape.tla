----------------------------- MODULE CheckShape -----------------------------
(***************************************************************************)
(* What handoff_check shows of a session: format.go and doCheck.  OpenCode *)
(* writes the transcript, part by part, while callers check it; a job of   *)
(* the session may be tracked.  A text is a name in the transcript and is  *)
(* spelled out where it is cut: a rune is a letter and its number of bytes.*)
(***************************************************************************)
EXTENDS Json

CONSTANTS
    PartKinds,     \* what an assistant writes: type, text, status and tool, "" for none
    Finishes,      \* the finish reasons OpenCode gives
    Shapes,        \* of {"WithParts", "flat"}: info and parts, or fields and content
    Verbose,       \* the values of the argument the callers use
    Recent,        \* how many messages a verbose check shows (6)
    Limits,        \* of the final text, those that callers give
    Spelling,      \* the runes of every text
    MaxMessages, MaxParts    \* bounds on a transcript

Runes == STRING \X (Nat \ {0})
Tools == {p.tool : p \in PartKinds} \cup {""}

\* OpenCode types its texts and its tools, or tells tools by their names.
Parts ==
    {p \in [type : {"text", "reasoning", "tool", ""}, text : DOMAIN Spelling,
             status : {"", "pending", "running", "completed", "error"}, tool : Tools] :
        /\ p.type = "text" => p.tool = "" /\ p.status \in {"", "running", "completed"}
        /\ p.type = "" => p.tool # "" \/ p.status = ""}

ASSUME CheckShapeAssumption ==
    /\ Shapes \subseteq {"WithParts", "flat"} /\ Verbose \subseteq BOOLEAN
    /\ Recent \in Nat \ {0} /\ Limits \subseteq Nat \ {0}
    /\ {"", "prompt"} \subseteq DOMAIN Spelling /\ Spelling[""] = <<>>
    /\ \A text \in DOMAIN Spelling : Spelling[text] \in Seq(Runes)
    /\ PartKinds \subseteq Parts

VARIABLES
    shape,
    transcript,    \* the messages: role, finish, parts
    job,           \* the status of the tracked job, or untracked
    shown          \* what a check has just returned

vars == <<shape, transcript, job, shown>>

Terminal == {"done", "error", "canceled", "timed_out"}
NoText   == [text |-> <<>>, truncated |-> FALSE]
Nothing  == [status |-> "none", final |-> NoText, limit |-> 0, verbose |-> FALSE, messages |-> <<>>]

Init ==
    /\ shape \in Shapes
    /\ transcript = <<>>
    /\ job \in {"untracked", "running"}
    /\ shown = Nothing

-----------------------------------------------------------------------------
(* The document of a transcript *)

\* The status of a tool is a part of its state.
PartDoc(p) ==
    Fields([id     |-> JStr("prt"), type |-> Given(p.type), text |-> Given(p.text), tool |-> Given(p.tool),
            status |-> IF p.tool = "" THEN Given(p.status) ELSE JNull,
            state  |-> IF p.tool = "" \/ p.status = "" THEN JNull ELSE Fields([status |-> JStr(p.status)])])

PartList(m) == JArr([i \in DOMAIN m.parts |-> PartDoc(m.parts[i])])

MessageDoc(m) ==
    IF shape = "WithParts"
    THEN Fields([info  |-> Fields([id |-> JStr("msg"), role |-> Given(m.role), finish |-> Given(m.finish)]),
                 parts |-> PartList(m)])
    ELSE Fields([id |-> JStr("msg"), role |-> Given(m.role), finish |-> Given(m.finish),
                 content |-> PartList(m)])

Document == JArr([i \in DOMAIN transcript |-> MessageDoc(transcript[i])])

-----------------------------------------------------------------------------
(* format.go *)

\* After ToLower and TrimSpace.
isTerminalFinish(finish) ==
    finish \in {"stop", "end_turn", "end-turn", "length", "max_tokens", "content_filter",
                "content-filter", "error", "refusal", "refuse", "cancelled", "canceled"}

messageFinished(m) == isTerminalFinish(messageFinish(m))

\* The last assistant message, as a sequence of at most one.
LatestAssistant(raw) ==
    LET all == collectObjects(raw)
        assistant == {i \in DOMAIN all : messageRole(all[i]) = "assistant"}
    IN  IF assistant = {} THEN <<>> ELSE <<all[Max(assistant)]>>

Objects(s)  == FlattenSeq([i \in DOMAIN s |-> IF s[i].k = "obj" THEN <<s[i]>> ELSE <<>>])
Speaking(s) == FlattenSeq([i \in DOMAIN s |-> IF messageRole(s[i]) # "" THEN <<s[i]>> ELSE <<>>])

\* The objects of parts, or else of content.
assistantPartValues(m) ==
    LET Of(key) == IF Has(m, key) /\ m.f[key].k = "arr" THEN Objects(m.f[key].a) ELSE <<>>
    IN  IF Of("parts") # <<>> THEN Of("parts") ELSE Of("content")

isAnswerPartType(typ) == typ \in {"text", "output_text", "answer"}

partStatus(part) ==
    IF stringField(part, "status") # "" THEN stringField(part, "status")
    ELSE IF Has(part, "state") THEN stringField(part.f["state"], "status") ELSE ""

isTerminalPartStatus(status) ==
    status \in {"completed", "complete", "done", "finished", "success", "succeeded"}

isAnswerPart(part) ==
    IF stringField(part, "type") = ""
    THEN /\ stringField(part, "tool") = ""
         /\ \A key \in {"state", "input", "output"} : ~NotNil(part, key)
    ELSE /\ isAnswerPartType(stringField(part, "type"))
         /\ partStatus(part) # "" => isTerminalPartStatus(partStatus(part))

\* The last text of the answer parts; of a message without parts its own text.
assistantAnswerText(m) ==
    LET parts   == assistantPartValues(m)
        answers == {i \in DOMAIN parts : isAnswerPart(parts[i]) /\ stringField(parts[i], "text") # ""}
    IN  IF parts = <<>>
        THEN IF stringField(m, "type") = "" \/ isAnswerPartType(stringField(m, "type"))
             THEN stringField(m, "text") ELSE ""
        ELSE IF answers = {} THEN "" ELSE stringField(parts[Max(answers)], "text")

\* Mutant: whatever the assistant has written so far.
UnfinishedAnswerText(raw) ==
    LET latest == LatestAssistant(raw) IN
    IF latest = <<>> THEN "" ELSE assistantAnswerText(Head(latest))
\* requireFinished is always true.
finalAssistantAnswerText(raw) ==
    LET latest == LatestAssistant(raw) IN
    IF latest = <<>> \/ ~messageFinished(Head(latest)) THEN "" ELSE assistantAnswerText(Head(latest))

isSessionFinishedJSON(raw) ==
    LET latest == LatestAssistant(raw) IN latest # <<>> /\ messageFinished(Head(latest))

openCodeAssistantContinuing(raw) ==
    LET latest == LatestAssistant(raw) IN latest # <<>> /\ ~messageFinished(Head(latest))

\* Mutant: every object counts, the parts too.
AllObjects(raw) ==
    LET items == collectObjects(raw) IN
    [i \in DOMAIN items |-> [id |-> messageID(items[i]), role |-> messageRole(items[i]), text |-> collectText(items[i])]]
summarizeMessages(raw) ==
    LET all  == Speaking(collectObjects(raw))
        last == SubSeq(all, 1 + (IF Len(all) > Recent THEN Len(all) - Recent ELSE 0), Len(all))
    IN  [i \in DOMAIN last |->
            [id |-> messageID(last[i]), role |-> messageRole(last[i]), text |-> collectText(last[i])]]

Bytes(s) ==
    LET sum[i \in 0 .. Len(s)] == IF i = 0 THEN 0 ELSE sum[i - 1] + s[i][2]
    IN  sum[Len(s)]
Dots     == <<<<".", 1>>, <<".", 1>>, <<".", 1>>>>

\* Mutant: only the bytes are counted.
CutByBytes(s, limit) ==
    IF Bytes(s) <= limit THEN [text |-> s, truncated |-> FALSE]
    ELSE [text |-> SubSeq(s, 1, IF limit < Len(s) THEN limit ELSE Len(s)) \o Dots, truncated |-> TRUE]
truncateTextMarked(s, limit) ==
    IF Bytes(s) <= limit \/ Len(s) <= limit THEN [text |-> s, truncated |-> FALSE]
    ELSE [text |-> SubSeq(s, 1, limit) \o Dots, truncated |-> TRUE]

\* The runner's (parse.go), for the same answer; its limit is positive here.
TruncateFinalText(s, limit) ==
    IF Len(s) <= limit THEN [text |-> s, truncated |-> FALSE]
    ELSE [text |-> SubSeq(s, 1, limit), truncated |-> TRUE]

\* The default case of the switch never meets a status it does not name.
shapeHandoffCheckResult(status, raw, verbose, limit) ==
    [status   |-> status, verbose |-> verbose, limit |-> limit,
     messages |-> IF verbose THEN summarizeMessages(raw) ELSE <<>>,
     final    |-> IF status \in {"running", "unknown"} THEN NoText
                  ELSE truncateTextMarked(Spelling[finalAssistantAnswerText(raw)], limit)]

-----------------------------------------------------------------------------
(* doCheck *)

sessionStatus(isFinished) == IF isFinished THEN "done" ELSE "running"

\* Manager.Reconcile
Reconciled(isFinished) ==
    IF job = "untracked" \/ ~isFinished \/ job \in {"canceled", "timed_out"} THEN job ELSE "done"

\* Mutant: the job is believed.
StatusOfJob(raw) ==
    IF job = "untracked" THEN sessionStatus(isSessionFinishedJSON(raw))
    ELSE Reconciled(isSessionFinishedJSON(raw))
CheckStatus(raw) ==
    IF job = "untracked" THEN sessionStatus(isSessionFinishedJSON(raw))
    ELSE LET status == Reconciled(isSessionFinishedJSON(raw)) IN
         IF status = "done" /\ openCodeAssistantContinuing(raw) THEN "running" ELSE status

doCheck(verbose, limit) ==
    /\ LET raw == Document IN
         /\ job' = Reconciled(isSessionFinishedJSON(raw))
         /\ shown' = shapeHandoffCheckResult(CheckStatus(raw), raw, verbose, limit)
    /\ UNCHANGED <<shape, transcript>>

-----------------------------------------------------------------------------
(* The rest of the executor, and OpenCode *)

\* JobLifecycle: an answered prompt, Cancel, the deadline, a restart.
JobMoves ==
    /\ job \in {"running", "unknown"}
    /\ job' \in Terminal \cup {"unknown"}
    /\ shown' = Nothing
    /\ UNCHANGED <<shape, transcript>>

Writing == transcript # <<>> /\ Last(transcript).role = "assistant" /\ Last(transcript).finish = ""

Latest == Len(transcript)

UserSpeaks ==
    /\ ~Writing
    /\ Latest < MaxMessages
    /\ transcript' = Append(transcript, [role |-> "user", finish |-> "",
          parts |-> <<[type |-> "text", text |-> "prompt", status |-> "", tool |-> ""]>>])
    /\ shown' = Nothing
    /\ UNCHANGED <<shape, job>>

AssistantBegins ==
    /\ transcript # <<>> /\ ~Writing
    /\ Latest < MaxMessages
    /\ transcript' = Append(transcript, [role |-> "assistant", finish |-> "", parts |-> <<>>])
    /\ shown' = Nothing
    /\ UNCHANGED <<shape, job>>

PartAppears(p) ==
    /\ Writing
    /\ FoldSeq(LAMBDA m, n : Len(m.parts) + n, 0, transcript) < MaxParts
    /\ transcript' = [transcript EXCEPT ![Latest].parts = Append(@, p)]
    /\ shown' = Nothing
    /\ UNCHANGED <<shape, job>>

PartCompletes(i) ==
    /\ Writing /\ Last(transcript).parts[i].status = "running"
    /\ transcript' = [transcript EXCEPT ![Latest].parts[i].status = "completed"]
    /\ shown' = Nothing
    /\ UNCHANGED <<shape, job>>

\* A part that never completed stays as it is.
AssistantFinishes(finish) ==
    /\ Writing
    /\ transcript' = [transcript EXCEPT ![Latest].finish = finish]
    /\ shown' = Nothing
    /\ UNCHANGED <<shape, job>>

Next ==
    \/ \E verbose \in Verbose, limit \in Limits : doCheck(verbose, limit)
    \/ JobMoves
    \/ UserSpeaks \/ AssistantBegins
    \/ \E p \in PartKinds : PartAppears(p)
    \/ Writing /\ \E i \in DOMAIN Last(transcript).parts : PartCompletes(i)
    \/ \E finish \in Finishes : AssistantFinishes(finish)

Spec == Init /\ [][Next]_vars

-----------------------------------------------------------------------------
(* Properties *)

\* The latest assistant message is over, with no more to come.
TurnFinished(n) ==
    /\ transcript[n].role = "assistant" /\ transcript[n].finish \notin {"", "tool-calls", "unknown"}
    /\ \A k \in n + 1 .. Latest : transcript[k].role = "user"

\* A text the assistant gave as an answer: not a thought, not what a tool
\* wrote, not a text still being written.
Answer(p) ==
    p.text # "" /\ p.tool = "" /\ p.type \in {"text", ""} /\ p.status # "running"

\* shapeHandoffCheckResult: polls "cannot leak partial assistant content": a
\* final text is shown with a settled status only, and is the last answer of
\* the latest assistant message, which is finished.
FinalTextIsTheAnswer ==
    shown.final.text # <<>> =>
        /\ shown.status \in Terminal
        /\ \E n \in DOMAIN transcript :
            LET parts == transcript[n].parts IN
            /\ TurnFinished(n)
            /\ \E i \in DOMAIN parts :
                /\ Answer(parts[i])
                /\ \A k \in i + 1 .. Len(parts) : ~Answer(parts[k])
                /\ shown.final.text[1] = Spelling[parts[i].text][1]

\* The final text is marked as truncated exactly when something of the answer
\* is missing, and what is left are its first runes, whole: the executor and
\* the runner cut an answer at the same place.
MarkedWhenShortened ==
    shown.final.text # <<>> =>
        LET answer == Spelling[finalAssistantAnswerText(Document)]
            cut    == TruncateFinalText(answer, shown.limit)
        IN  /\ shown.final.truncated <=> Len(answer) > shown.limit
            /\ shown.final.text = IF shown.final.truncated THEN cut.text \o Dots ELSE answer
            /\ shown.final.truncated = cut.truncated

\* handoff_check never says that a session is done while its assistant is
\* between two messages (doCheck: "Local JobDone from Prompt return must not
\* stop Codex while tool-calls continue"), whatever was settled locally.
DoneShownWhenFinished ==
    shown.status = "done" /\ (\E n \in DOMAIN transcript : transcript[n].role = "assistant")
        => \E n \in DOMAIN transcript : TurnFinished(n)

\* A verbose check shows the most recent messages, each once and in order: the
\* parts, which have identifiers too, are not messages.
RecentMessagesShown ==
    LET n == Len(shown.messages) IN
    shown.verbose =>
        /\ n = IF Latest < Recent THEN Latest ELSE Recent
        /\ \A i \in 1 .. n : /\ shown.messages[i].id = "msg"
                             /\ shown.messages[i].role = transcript[Latest - n + i].role

\* shapeHandoffCheckResult: "maxFinalChars bounds final_text".
FinalTextFits == Len(shown.final.text) <= shown.limit
=============================================================================
