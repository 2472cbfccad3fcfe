-------------------------------- MODULE Json --------------------------------
(***************************************************************************)
(* JSON documents as encoding/json unmarshals them into any, and the       *)
(* helpers of format.go that walk them.  A number or a string is one of a  *)
(* few values; keys of an object are not repeated.                         *)
(***************************************************************************)
EXTENDS Naturals, Sequences, SequencesExt

JNull   == [k |-> "null", v |-> ""]
JStr(s) == [k |-> "str", v |-> s]
JNum(n) == [k |-> "num", v |-> n]      \* "int" or "frac"
JBool   == [k |-> "bool", v |-> ""]
JArr(s) == [k |-> "arr", a |-> s]
JObj(f) == [k |-> "obj", f |-> f]

NoFields == [x \in {} |-> JNull]

Given(text) == IF text = "" THEN JNull ELSE JStr(text)
\* What is null is left out.
Fields(r)   == JObj([x \in {y \in DOMAIN r : r[y].k # "null"} |-> r[x]])

\* A value as such, whatever is in it: an array is a sequence, an object has fields.
IsValue(v) ==
    /\ v.k = "arr" => v = JArr(v.a) /\ v.a \in Seq({v.a[i] : i \in DOMAIN v.a})
    /\ v.k = "obj" => v = JObj([x \in DOMAIN v.f |-> v.f[x]])

Has(m, key) == m.k = "obj" /\ key \in DOMAIN m.f

\* m[key] != nil
NotNil(m, key) == Has(m, key) /\ m.f[key].k # "null"

stringField(m, key) == IF Has(m, key) /\ m.f[key].k = "str" THEN m.f[key].v ELSE ""

firstStringField(m, keys) ==
    LET given == {i \in DOMAIN keys : stringField(m, keys[i]) # ""}
    IN  IF given = {} THEN "" ELSE stringField(m, keys[Min(given)])

\* The field of m, or that of m.info.
OwnOrInfo(m, key) ==
    IF stringField(m, key) # "" THEN stringField(m, key)
    ELSE IF Has(m, "info") THEN stringField(m.f["info"], key) ELSE ""

messageID(m)     == OwnOrInfo(m, "id")
messageRole(m)   == OwnOrInfo(m, "role")
messageFinish(m) == OwnOrInfo(m, "finish")

-----------------------------------------------------------------------------
(* A walk replaces every value it meets by what is found at it and, behind   *)
(* that, its children: level by level, and in the order of the calls in the  *)
(* code, which go down to the end.                                           *)

Depth == 7      \* a bound: no document here is deeper

Visit(v) == [found |-> FALSE, value |-> v]
Found(v) == [found |-> TRUE, value |-> v]

\* The children of m under keys, in that order.
Children(m, keys) ==
    FlattenSeq([i \in DOMAIN keys |-> IF Has(m, keys[i]) THEN <<Visit(m.f[keys[i]])>> ELSE <<>>])
Elements(v) == [i \in DOMAIN v.a |-> Visit(v.a[i])]

IdentityKeys == {"id", "role", "requestID", "messageID", "request_id", "message_id"}
ObjectKeys   == <<"data", "items", "messages", "requests", "permissions", "questions", "content", "parts">>
TextKeys     == <<"content", "parts", "message", "messages", "data", "tool_result", "tool_use", "input", "output">>

Identified(m) == (\E key \in IdentityKeys : NotNil(m, key)) \/ messageRole(m) # ""

ObjectsAt(v, keys) ==
    CASE v.k = "obj" -> (IF Identified(v) THEN <<Found(v)>> ELSE <<>>) \o Children(v, keys)
      [] v.k = "arr" -> Elements(v)
      [] OTHER       -> <<>>
TextsAt(v) ==
    CASE v.k = "obj" -> (IF stringField(v, "text") # "" THEN <<Found(stringField(v, "text"))>> ELSE <<>>)
                        \o Children(v, TextKeys)
      [] v.k = "arr" -> Elements(v)
      [] OTHER       -> <<>>

ObjectsBelow(s, keys) ==
    FlattenSeq([i \in DOMAIN s |-> IF s[i].found THEN <<s[i]>> ELSE ObjectsAt(s[i].value, keys)])
TextsBelow(s) == FlattenSeq([i \in DOMAIN s |-> IF s[i].found THEN <<s[i]>> ELSE TextsAt(s[i].value)])

AllFound(s) == [i \in DOMAIN s |-> s[i].value]

\* The objects that have an identity or a role, at v and under these keys.
ObjectsUnder(keys, v) ==
    LET level[n \in 0 .. Depth] == IF n = 0 THEN <<Visit(v)>> ELSE ObjectsBelow(level[n - 1], keys)
    IN  AllFound(level[Depth])

\* Mutant: what a request refers to is looked into as well.
collectAllObjects(v) == ObjectsUnder(<<"data", "source", "tool">>, v)
collectObjects(v)    == ObjectsUnder(ObjectKeys, v)

collectText(v) ==
    LET level[n \in 0 .. Depth] == IF n = 0 THEN <<Visit(v)>> ELSE TextsBelow(level[n - 1])
    IN  AllFound(level[Depth])

Those(s, Test(_)) == FlattenSeq([i \in DOMAIN s |-> IF Test(s[i]) THEN <<s[i]>> ELSE <<>>])

\* Of the requests of all sessions those of one; a request that names none is
\* taken for it.  The preview is a part of the text.
RequestSession(m)      == firstStringField(m, <<"sessionID", "session_id">>)
RequestOf(m, session)  == session = "" \/ RequestSession(m) \in {"", session}
summarizeRequests(v, kind, sessionID) ==
    LET Ours(m) == RequestOf(m, sessionID)
        ours    == Those(collectObjects(v), Ours)
    IN  [i \in DOMAIN ours |->
            [kind  |-> kind,
             title |-> firstStringField(ours[i], <<"title", "tool", "type", "action">>),
             text  |-> collectText(ours[i])]]
=============================================================================
