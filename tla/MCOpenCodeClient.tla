-------------------------- MODULE MCOpenCodeClient --------------------------
(***************************************************************************)
(* The documents of a type: one that has every field, and those that       *)
(* differ from it in one place.                                            *)
(***************************************************************************)
EXTENDS OpenCodeClient, TLC

Another(prefix) == prefix \o "2"
MCIdentifiers == [p \in IdPrefixes |-> {p, Another(p)}]

RuleOf(r, n) == IF r.t = "obj" /\ n \in Known(r) THEN NonNull(Field(r, n)) ELSE Anything
ElementOf(r) == IF r.t = "arr" THEN NonNull(r.of) ELSE Anything

RECURSIVE Sample(_, _)
Sample(s, r) ==
    CASE s.t = "str" ->
            JStr(CASE r.t = "oneOf" -> CHOOSE x \in r.values : TRUE
                   [] r.t = "prefix" -> r.prefix
                   [] OTHER -> "text")
      [] s.t \in {"num", "int"} -> JNum("int")
      [] s.t = "bool" -> True
      [] s.t = "raw"  -> JStr("raw")
      [] s.t = "arr"  -> JArr(<<Sample(s.of, ElementOf(r))>>)
      [] s.t = "dict" -> JObj([key |-> Sample(s.of, Anything)])
      [] s.t = "nullable" -> Sample(s.of, r)
      [] s.t = "obj" -> JObj([n \in Known(s) |-> Sample(Field(s, n), RuleOf(r, n))])

\* Each with whether the description of the API allows it.
Variant(d, allowed) == [doc |-> d, allowed |-> allowed]

RECURSIVE Variants(_, _)
Variants(s, r) ==
    LET all   == Sample(s, r)
        Own   == CASE s.t = "str" /\ r.t = "oneOf" ->
                        {Variant(JStr(x), TRUE) : x \in r.values} \cup {Variant(JStr("other"), FALSE)}
                   [] s.t = "str" /\ r.t = "prefix" ->
                        {Variant(JStr(Another(r.prefix)), TRUE), Variant(JStr("other"), FALSE)}
                   [] s.t \in {"num", "int"} ->
                        {Variant(JNum("frac"), s.t = "num"),
                         Variant(JNum("zero"), r.t # "positive"),
                         Variant(JNum("neg"), r.t \notin {"positive", "notNegative"})}
                   [] s.t = "arr" ->
                        {Variant(JArr(<<>>), TRUE)} \cup
                        {Variant(JArr(all.a \o <<v.doc>>), v.allowed) : v \in Variants(s.of, ElementOf(r))}
                   [] s.t = "dict" ->
                        {Variant(JObj(NoFields), TRUE)} \cup
                        {Variant(JObj([key |-> v.doc]), v.allowed) : v \in Variants(s.of, Anything)}
                   [] s.t = "nullable" -> Variants(s.of, r)
                   [] s.t = "obj" ->
                        {Variant(JObj(all.f @@ [added |-> JStr("text")]), s.rest # "refuse")} \cup
                        {Variant(JObj([m \in Known(s) \ {n} |-> all.f[m]]), n \in DOMAIN s.opt) : n \in Known(s)} \cup
                        UNION {{Variant(JObj([all.f EXCEPT ![n] = v.doc]), v.allowed) :
                                    v \in Variants(Field(s, n), RuleOf(r, n))} : n \in Known(s)}
                   [] OTHER -> {}
        null  == {v \in Own : v.doc.k # "null"} \cup {Variant(JNull, s.t \in {"nullable", "raw"})}
        wrong == IF s.t \in {"raw", "nullable"} THEN {}
                 ELSE {Variant(IF s.t = "bool" THEN JStr("text") ELSE True, FALSE)}
    IN  {Variant(all, TRUE)} \cup null \cup wrong

VariantsOf(schema, rule) == Variants(schema, NonNull(rule))

MCDocuments(schema, rule) == {v.doc : v \in VariantsOf(schema, rule)}

\* Decode and Validate take exactly those that the description allows.
ASSUME AllowedAreTaken ==
    \A t \in AnswerTypes : \A v \in VariantsOf(t.schema, t.rule) : v.allowed <=> Described(t, v.doc)

\* No document has a value that the walks do not reach.
ASSUME DepthIsEnough ==
    \A t \in AnswerTypes : \A d \in MCDocuments(t.schema, t.rule) :
        LET level[n \in 0 .. Depth] == IF n = 0 THEN {<<t.schema, d>>} ELSE Below(level[n - 1])
        IN  Below(level[Depth]) = {}

Anywhere == {[Ordinary EXCEPT !.directory = d, !.workspace = w] : d \in {"", "own"}, w \in {"", "wrk"}}
\* Every argument that a method reads, given and not.
MCInputs ==
    [m \in Methods |->
        Anywhere \cup {[Ordinary EXCEPT !.session = ""]}
        \cup CASE m = "CreateSession" ->
                    {[Ordinary EXCEPT !.parentID = p, !.model = x, !.agent = g, !.action = c] :
                        p \in {"", "ses", "other"}, x \in {"", "model"}, g \in {"", "agent"},
                        c \in {"none", "ask", "deny", "allow"}}
               [] m = "Prompt" -> {[Ordinary EXCEPT !.agent = "agent"]}
               [] m = "PermissionReply" ->
                    {[Ordinary EXCEPT !.reply = y, !.message = n] :
                        y \in {"once", "always", "reject", "deny"}, n \in {"", "message"}}
                    \cup {[Ordinary EXCEPT !.request = ""]}
               [] m = "QuestionReply" ->
                    {[Ordinary EXCEPT !.request = q, !.reject = j, !.answers = n] :
                        q \in {"", "que"}, j \in BOOLEAN, n \in {<<>>, <<<<>>, <<"yes", "no">>>>}}
               [] OTHER -> {}]
=============================================================================
