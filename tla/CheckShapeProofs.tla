-------------------------- MODULE CheckShapeProofs --------------------------
(* Theorems about CheckShape, for transcripts of any length, texts of any   *)
(* length, and every limit: what a check shows is what was written.         *)
EXTENDS CheckShape, JsonProofs

-----------------------------------------------------------------------------
(* The document of a transcript, field by field *)

Messages == [role : {"user", "assistant"}, finish : Finishes \cup {""}, parts : Seq(Parts)]

\* What the code reads of a message.
LEMMA MessageFields ==
  ASSUME NEW m \in Messages, shape \in {"WithParts", "flat"}
  PROVE  LET M == MessageDoc(m) IN
         /\ M.k = "obj" /\ Identified(M)
         /\ messageRole(M) = m.role /\ messageFinish(M) = m.finish /\ messageID(M) = "msg"
         /\ stringField(M, "type") = "" /\ stringField(M, "text") = ""
         /\ \A key \in {"data", "items", "messages", "requests", "permissions", "questions"} : ~ Has(M, key)
         /\ Has(M, "content") <=> shape = "flat"
         /\ Has(M, "parts") <=> shape = "WithParts"
         /\ Has(M, "content") => M.f["content"] = PartList(m)
         /\ Has(M, "parts") => M.f["parts"] = PartList(m)
<1> DEFINE M == MessageDoc(m)
           info == [id |-> JStr("msg"), role |-> Given(m.role), finish |-> Given(m.finish)]
           with == [info |-> Fields(info), parts |-> PartList(m)]
           flat == [id |-> JStr("msg"), role |-> Given(m.role), finish |-> Given(m.finish), content |-> PartList(m)]
<1>1. m.role # "" /\ PartList(m).k = "arr"
  BY DEF Messages, PartList, JArr
<1>2. CASE shape = "WithParts"
  <2>1. M = Fields(with)
    BY <1>2 DEF MessageDoc
  <2>2. DOMAIN with = {"info", "parts"} /\ with["info"] = Fields(info) /\ with["parts"] = PartList(m)
    OBVIOUS
  <2>3. DOMAIN info = {"id", "role", "finish"} /\ info["id"] = JStr("msg") /\ info["role"] = Given(m.role)
        /\ info["finish"] = Given(m.finish)
    OBVIOUS
  <2> HIDE DEF with, info, M
  <2>4. Fields(info).k = "obj" /\ M.k = "obj"
    BY <2>1, FieldsGiven
  <2>5. stringField(Fields(info), "id") = "msg"
    BY <2>3, TextField
  <2>6. stringField(Fields(info), "role") = m.role /\ stringField(Fields(info), "finish") = m.finish
    BY <2>3, GivenField
  <2>7. Has(M, "info") /\ M.f["info"] = Fields(info) /\ Has(M, "parts") /\ M.f["parts"] = PartList(m)
    <3>1. with["info"].k = "obj" /\ with["parts"].k = "arr"
      BY <1>1, <2>2, <2>4
    <3>2. Has(M, "info") /\ M.f["info"] = with["info"]
      BY <2>1, <2>2, <3>1, ValueField
    <3>3. Has(M, "parts") /\ M.f["parts"] = with["parts"]
      BY <2>1, <2>2, <3>1, ValueField
    <3> QED
      BY <2>2, <3>2, <3>3
  <2>8. \A key : key \notin {"info", "parts"} => ~ Has(M, key) /\ stringField(M, key) = ""
    BY <2>1, <2>2, OtherField
  <2>9. messageRole(M) = m.role /\ messageFinish(M) = m.finish /\ messageID(M) = "msg"
    BY <2>5, <2>6, <2>7, <2>8 DEF messageRole, messageFinish, messageID, OwnOrInfo
  <2>10. Identified(M)
    BY <1>1, <2>9 DEF Identified
  <2> QED
    BY <1>2, <2>4, <2>7, <2>8, <2>9, <2>10 DEF M
<1>3. CASE shape = "flat"
  <2>1. M = Fields(flat)
    BY <1>3 DEF MessageDoc
  <2>2. DOMAIN flat = {"id", "role", "finish", "content"} /\ flat["id"] = JStr("msg")
        /\ flat["role"] = Given(m.role) /\ flat["finish"] = Given(m.finish) /\ flat["content"] = PartList(m)
    OBVIOUS
  <2> HIDE DEF flat, M
  <2>4. M.k = "obj"
    BY <2>1, FieldsGiven
  <2>5. stringField(M, "id") = "msg"
    BY <2>1, <2>2, TextField
  <2>6. stringField(M, "role") = m.role /\ stringField(M, "finish") = m.finish
    BY <2>1, <2>2, GivenField
  <2>7. Has(M, "content") /\ M.f["content"] = PartList(m)
    <3>1. flat["content"].k = "arr"
      BY <1>1, <2>2
    <3>2. Has(M, "content") /\ M.f["content"] = flat["content"]
      BY <2>1, <2>2, <3>1, ValueField
    <3> QED
      BY <2>2, <3>2
  <2>8. \A key : key \notin {"id", "role", "finish", "content"} => ~ Has(M, key) /\ stringField(M, key) = ""
    BY <2>1, <2>2, OtherField
  <2>9. messageRole(M) = m.role /\ messageFinish(M) = m.finish /\ messageID(M) = "msg"
    BY <1>1, <2>5, <2>6, <2>8 DEF messageRole, messageFinish, messageID, OwnOrInfo
  <2>10. Identified(M)
    BY <1>1, <2>9 DEF Identified
  <2> QED
    BY <1>3, <2>4, <2>7, <2>8, <2>9, <2>10 DEF M
<1> QED
  BY <1>2, <1>3

\* What it reads of a part.
LEMMA PartFields ==
  ASSUME NEW p \in Parts
  PROVE  LET P == PartDoc(p) IN
         /\ P.k = "obj" /\ Identified(P) /\ messageRole(P) = ""
         /\ stringField(P, "type") = p.type /\ stringField(P, "text") = p.text /\ stringField(P, "tool") = p.tool
         /\ partStatus(P) = p.status
         /\ NotNil(P, "state") <=> p.tool # "" /\ p.status # ""
         /\ \A key : key \notin {"id", "type", "text", "tool", "status", "state"} => ~ Has(P, key)
<1> DEFINE P == PartDoc(p)
           st == [status |-> JStr(p.status)]
           r == [id |-> JStr("prt"), type |-> Given(p.type), text |-> Given(p.text), tool |-> Given(p.tool),
                 status |-> IF p.tool = "" THEN Given(p.status) ELSE JNull,
                 state |-> IF p.tool = "" \/ p.status = "" THEN JNull ELSE Fields(st)]
<1>1. P = Fields(r)
  BY DEF PartDoc
<1>2. /\ DOMAIN r = {"id", "type", "text", "tool", "status", "state"} /\ r["id"] = JStr("prt")
      /\ r["type"] = Given(p.type) /\ r["text"] = Given(p.text) /\ r["tool"] = Given(p.tool)
      /\ r["status"] = IF p.tool = "" THEN Given(p.status) ELSE JNull
      /\ r["state"] = IF p.tool = "" \/ p.status = "" THEN JNull ELSE Fields(st)
  OBVIOUS
<1>3. DOMAIN st = {"status"} /\ st["status"] = JStr(p.status)
  OBVIOUS
<1> HIDE DEF r, st, P
<1>4. JNull.k = "null" /\ Given("") = JNull
  BY DEF JNull, Given
<1>5. P.k = "obj"
  BY <1>1, FieldsGiven
<1>6. NotNil(P, "id")
  <2>1. Has(P, "id")
    BY <1>1, <1>2, TextField
  <2> QED
    BY <1>1, <2>1, FieldsGiven
<1>7. /\ stringField(P, "type") = p.type /\ stringField(P, "text") = p.text /\ stringField(P, "tool") = p.tool
  BY <1>1, <1>2, GivenField
<1>8. \A key : key \notin {"id", "type", "text", "tool", "status", "state"} => ~ Has(P, key) /\ stringField(P, key) = ""
  BY <1>1, <1>2, OtherField
<1>9. NotNil(P, "state") <=> p.tool # "" /\ p.status # ""
  <2>1. Fields(st).k = "obj"
    BY FieldsGiven
  <2>2. NotNil(P, "state") <=> r["state"].k # "null"
    BY <1>1, <1>2, FieldsGiven, ZenonT(40)
  <2> QED
    BY <1>2, <1>4, <2>1, <2>2
<1>10. partStatus(P) = p.status
  <2>1. CASE p.tool = "" \/ p.status = ""
    <3>1. ~ Has(P, "state")
      BY <1>1, <1>5, <1>9, <2>1, FieldsGiven
    <3>2. r["status"] = Given(p.status)
      BY <1>2, <1>4, <2>1
    <3>3. stringField(P, "status") = p.status
      BY <1>1, <1>2, <3>2, GivenField
    <3> QED
      BY <3>1, <3>3 DEF partStatus
  <2>2. CASE p.tool # "" /\ p.status # ""
    <3>1. r["state"] = Fields(st) /\ Fields(st).k = "obj"
      BY <1>2, <2>2, FieldsGiven
    <3>6. "state" \in DOMAIN r /\ r["state"].k = "obj"
      BY <1>2, <3>1
    <3>2. Has(P, "state") /\ P.f["state"] = Fields(st)
      BY <1>1, <3>1, <3>6, ValueField
    <3>3. r["status"] = Given("")
      BY <1>2, <1>4, <2>2
    <3>4. stringField(P, "status") = ""
      BY <1>1, <1>2, <3>3, GivenField
    <3>5. stringField(Fields(st), "status") = p.status
      BY <1>3, TextField
    <3> QED
      BY <3>2, <3>4, <3>5 DEF partStatus
  <2> QED
    BY <2>1, <2>2
<1>11. Identified(P) /\ messageRole(P) = ""
  BY <1>6, <1>8 DEF Identified, IdentityKeys, messageRole, OwnOrInfo
<1> QED
  BY <1>5, <1>7, <1>8, <1>9, <1>10, <1>11 DEF P

LEMMA AnswerRead ==
  ASSUME NEW p \in Parts
  PROVE  isAnswerPart(PartDoc(p)) /\ stringField(PartDoc(p), "text") # "" <=> Answer(p)
<1> DEFINE P == PartDoc(p)
<1>1. /\ stringField(P, "type") = p.type /\ stringField(P, "text") = p.text /\ stringField(P, "tool") = p.tool
      /\ partStatus(P) = p.status
      /\ NotNil(P, "state") <=> p.tool # "" /\ p.status # ""
      /\ ~ Has(P, "input") /\ ~ Has(P, "output")
  BY PartFields
<1>2. ~ NotNil(P, "input") /\ ~ NotNil(P, "output")
  BY <1>1 DEF NotNil
<1>3. /\ p.type \in {"text", "reasoning", "tool", ""}
      /\ p.type = "text" => p.tool = "" /\ p.status \in {"", "running", "completed"}
      /\ p.type = "" => p.tool # "" \/ p.status = ""
  BY DEF Parts
<1> HIDE DEF P
<1>4. isAnswerPart(P) /\ stringField(P, "text") # "" <=> Answer(p)
  <2>1. CASE p.type = ""
    <3>1. isAnswerPart(P) <=> p.tool = ""
      BY <1>1, <1>2, <2>1 DEF isAnswerPart
    <3> QED
      BY <1>1, <1>3, <2>1, <3>1 DEF Answer
  <2>2. CASE p.type # ""
    <3>1. isAnswerPart(P) <=> p.type = "text" /\ (p.status # "" => p.status = "completed")
      BY <1>1, <1>3, <2>2 DEF isAnswerPart, isAnswerPartType, isTerminalPartStatus
    <3> QED
      BY <1>1, <1>3, <2>2, <3>1 DEF Answer
  <2> QED
    BY <2>1, <2>2
<1> QED
  BY <1>4 DEF P

-----------------------------------------------------------------------------
(* The walk over the document, level by level *)

\* What the walk meets below the document itself.
Items == {Visit(MessageDoc(m)) : m \in Messages} \cup {Found(MessageDoc(m)) : m \in Messages}
         \cup {Visit(PartList(m)) : m \in Messages}
         \cup {Visit(PartDoc(p)) : p \in Parts} \cup {Found(PartDoc(p)) : p \in Parts}

Walk == [x \in Items |-> ItemAt(x)]

LEMMA Two ==
  ASSUME NEW a, NEW b
  PROVE  <<a>> \o <<b>> = <<a, b>>
<1> DEFINE S == {a, b}
           s == <<a>>
           t == <<b>>
<1>1. s \in Seq(S) /\ t \in Seq(S) /\ Len(s) = 1 /\ Len(t) = 1 /\ s[1] = a /\ t[1] = b
  OBVIOUS
<1> DEFINE w == <<a, b>>
<1>2. w \in [1 .. 2 -> S] /\ w[1] = a /\ w[2] = b
  OBVIOUS
<1> HIDE DEF S, s, t, w
<1>3. /\ s \o t \in [1 .. Len(s) + Len(t) -> S]
      /\ \A i \in 1 .. Len(s) : (s \o t)[i] = s[i]
      /\ \A i \in 1 .. Len(t) : (s \o t)[Len(s) + i] = t[i]
  BY <1>1, JoinedParts
<1>4. s \o t \in [1 .. 2 -> S] /\ (s \o t)[1] = a /\ (s \o t)[2] = b
  <2>1. 1 \in 1 .. Len(s) /\ 1 \in 1 .. Len(t) /\ Len(s) + 1 = 2 /\ Len(s) + Len(t) = 2
    BY <1>1
  <2>2. (s \o t)[1] = a /\ (s \o t)[Len(s) + 1] = b
    BY <1>1, <1>3, <2>1, Zenon
  <2> QED
    BY <1>3, <2>1, <2>2, Zenon
<1>5. \A i \in 1 .. 2 : i = 1 \/ i = 2
  OBVIOUS
<1>6. s \o t = w
  <2> DEFINE u == s \o t
  <2>1. u \in [1 .. 2 -> S] /\ u[1] = a /\ u[2] = b
    BY <1>4
  <2> HIDE DEF u
  <2>2. u = w
    BY <1>2, <1>5, <2>1
  <2> QED
    BY <2>2 DEF u
<1> QED
  BY <1>6 DEF s, t, w

LEMMA MessageAt ==
  ASSUME NEW m \in Messages, shape \in {"WithParts", "flat"}
  PROVE  ItemAt(Visit(MessageDoc(m))) = <<Found(MessageDoc(m)), Visit(PartList(m))>>
<1> DEFINE M == MessageDoc(m)
           c == [i \in DOMAIN ObjectKeys |-> IF Has(M, ObjectKeys[i]) THEN <<Visit(M.f[ObjectKeys[i]])>> ELSE <<>>]
           k == IF shape = "flat" THEN 7 ELSE 8
<1>1. /\ M.k = "obj" /\ Identified(M)
      /\ \A key \in {"data", "items", "messages", "requests", "permissions", "questions"} : ~ Has(M, key)
      /\ Has(M, "content") <=> shape = "flat"
      /\ Has(M, "parts") <=> shape = "WithParts"
      /\ Has(M, "content") => M.f["content"] = PartList(m)
      /\ Has(M, "parts") => M.f["parts"] = PartList(m)
  BY MessageFields
<1>2. /\ DOMAIN ObjectKeys = 1 .. 8 /\ ObjectKeys[7] = "content" /\ ObjectKeys[8] = "parts"
      /\ \A i \in 1 .. 6 : ObjectKeys[i] \in {"data", "items", "messages", "requests", "permissions", "questions"}
  BY DEF ObjectKeys
<1> HIDE DEF M
<1>3. k \in 1 .. 8 /\ c[k] = <<Visit(PartList(m))>> /\ \A i \in 1 .. 8 : i # k => c[i] = <<>>
  <2>1. \A i \in 1 .. 8 : c[i] = IF Has(M, ObjectKeys[i]) THEN <<Visit(M.f[ObjectKeys[i]])>> ELSE <<>>
    BY <1>2
  <2>2. \A i \in 1 .. 8 : i \in 1 .. 6 \/ i = 7 \/ i = 8
    OBVIOUS
  <2>3. CASE shape = "flat"
    BY <1>1, <1>2, <2>1, <2>2, <2>3
  <2>4. CASE shape = "WithParts"
    BY <1>1, <1>2, <2>1, <2>2, <2>4
  <2> QED
    BY <2>3, <2>4
<1> DEFINE v == Visit(PartList(m))
<1>4. c \in [1 .. 8 -> Seq({v})]
  <2>1. DOMAIN c = 1 .. 8 /\ c = [i \in 1 .. 8 |-> c[i]]
    BY <1>2
  <2>2. \A i \in 1 .. 8 : c[i] \in Seq({v})
    <3>1. \A i \in 1 .. 8 : c[i] = <<v>> \/ c[i] = <<>>
      BY <1>3
    <3> HIDE DEF c, v
    <3>2. <<v>> \in Seq({v}) /\ <<>> \in Seq({v})
      OBVIOUS
    <3> QED
      BY <3>1, <3>2
  <2> HIDE DEF c
  <2> QED
    BY <2>1, <2>2
<1>5. Children(M, ObjectKeys) = FlattenSeq(c)
  BY DEF Children
<1>6. FlattenSeq(c) = <<v>>
  <2>1. c[k] = <<v>> /\ k \in 1 .. 8 /\ \A i \in 1 .. 8 : i # k => c[i] = <<>>
    BY <1>3
  <2> HIDE DEF c, k, v
  <2>3. PICK S : c \in [1 .. 8 -> Seq(S)]
    BY <1>4
  <2>2. FlattenSeq(c) = c[k]
    <3>1. 8 \in Nat
      OBVIOUS
    <3> QED
      BY <2>1, <2>3, <3>1, FlattenSole, ZenonT(30)
  <2> QED
    BY <2>1, <2>2
<1>7. ObjectsAt(M, ObjectKeys) = <<Found(M), v>>
  <2>1. ObjectsAt(M, ObjectKeys) = <<Found(M)>> \o <<v>>
    BY <1>1, <1>5, <1>6 DEF ObjectsAt
  <2> HIDE DEF v
  <2> QED
    BY <2>1, Two
<1>8. ItemAt(Visit(M)) = ObjectsAt(M, ObjectKeys)
  BY Marks DEF ItemAt
<1> QED
  BY <1>7, <1>8 DEF M

LEMMA PartAt ==
  ASSUME NEW p \in Parts
  PROVE  ItemAt(Visit(PartDoc(p))) = <<Found(PartDoc(p))>>
<1> DEFINE P == PartDoc(p)
           c == [i \in DOMAIN ObjectKeys |-> IF Has(P, ObjectKeys[i]) THEN <<Visit(P.f[ObjectKeys[i]])>> ELSE <<>>]
<1>1. /\ P.k = "obj" /\ Identified(P)
      /\ \A key : key \notin {"id", "type", "text", "tool", "status", "state"} => ~ Has(P, key)
  BY PartFields
<1>2. DOMAIN ObjectKeys = 1 .. 8 /\ \A i \in 1 .. 8 : ~ Has(P, ObjectKeys[i])
  <2>1. DOMAIN ObjectKeys = 1 .. 8 /\ \A i \in 1 .. 8 : ObjectKeys[i] \notin {"id", "type", "text", "tool", "status", "state"}
    BY DEF ObjectKeys
  <2> QED
    BY <1>1, <2>1
<1>3. c \in [1 .. 8 -> Seq({})] /\ \A i \in 1 .. 8 : c[i] = <<>>
  <2>1. c = [i \in 1 .. 8 |-> <<>>]
    BY <1>2
  <2> HIDE DEF c
  <2> QED
    BY <2>1
<1>4. Children(P, ObjectKeys) = FlattenSeq(c)
  BY DEF Children
<1> HIDE DEF P, c
<1>5. FlattenSeq(c) = <<>>
  BY <1>3, FlattenNone
<1>6. ObjectsAt(P, ObjectKeys) = <<Found(P)>> \o <<>>
  BY <1>1, <1>4, <1>5 DEF ObjectsAt
<1>7. ItemAt(Visit(P)) = ObjectsAt(P, ObjectKeys)
  BY Marks DEF ItemAt
<1> QED
  BY <1>6, <1>7 DEF P

LEMMA PartsAt ==
  ASSUME NEW m \in Messages
  PROVE  /\ PartList(m).k = "arr"
         /\ DOMAIN PartList(m).a = 1 .. Len(m.parts) /\ Len(m.parts) \in Nat /\ m.parts \in Seq(Parts)
         /\ \A i \in 1 .. Len(m.parts) : PartList(m).a[i] = PartDoc(m.parts[i]) /\ m.parts[i] \in Parts
         /\ ItemAt(Visit(PartList(m))) = [i \in 1 .. Len(m.parts) |-> Visit(PartDoc(m.parts[i]))]
<1>1. m.parts \in Seq(Parts)
  BY DEF Messages
<1>2. PartList(m).k = "arr" /\ PartList(m).a = [i \in DOMAIN m.parts |-> PartDoc(m.parts[i])]
  BY DEF PartList, JArr
<1>3. Len(m.parts) \in Nat /\ DOMAIN m.parts = 1 .. Len(m.parts) /\ \A i \in 1 .. Len(m.parts) : m.parts[i] \in Parts
  BY <1>1
<1>4. Elements(PartList(m)) = [i \in 1 .. Len(m.parts) |-> Visit(PartDoc(m.parts[i]))]
  BY <1>2, <1>3 DEF Elements
<1>5. ItemAt(Visit(PartList(m))) = Elements(PartList(m))
  BY <1>2, Marks DEF ItemAt, ObjectsAt
<1> QED
  BY <1>1, <1>2, <1>3, <1>4, <1>5

LEMMA ItemKinds ==
  /\ \A m \in Messages : /\ Visit(MessageDoc(m)) \in Items /\ Found(MessageDoc(m)) \in Items
                         /\ Visit(PartList(m)) \in Items
  /\ \A p \in Parts : Visit(PartDoc(p)) \in Items /\ Found(PartDoc(p)) \in Items
  /\ \A x \in Items : \/ \E m \in Messages : x = Visit(MessageDoc(m)) \/ x = Found(MessageDoc(m)) \/ x = Visit(PartList(m))
                      \/ \E p \in Parts : x = Visit(PartDoc(p)) \/ x = Found(PartDoc(p))
  BY DEF Items

\* The parts of m, still to be visited, and found.
PartsVisited(m) == [i \in 1 .. Len(m.parts) |-> Visit(PartDoc(m.parts[i]))]
PartsFound(m)   == [i \in 1 .. Len(m.parts) |-> Found(PartDoc(m.parts[i]))]

LEMMA PartItems ==
  ASSUME NEW m \in Messages
  PROVE  PartsVisited(m) \in Seq(Items) /\ PartsFound(m) \in Seq(Items)
<1>1. Len(m.parts) \in Nat /\ \A i \in 1 .. Len(m.parts) : m.parts[i] \in Parts
  BY PartsAt
<1>2. \A i \in 1 .. Len(m.parts) : Visit(PartDoc(m.parts[i])) \in Items /\ Found(PartDoc(m.parts[i])) \in Items
  BY <1>1, ItemKinds
<1> QED
  BY <1>1, <1>2 DEF PartsVisited, PartsFound

LEMMA WalkTyped ==
  ASSUME shape \in {"WithParts", "flat"}
  PROVE  Walk \in [Items -> Seq(Items)] /\ (\A x \in Items : Walk[x] = ItemAt(x)) /\ Walks(Walk, Items)
<1>1. ASSUME NEW x \in Items PROVE ItemAt(x) \in Seq(Items)
  <2>1. CASE x.found
    <3>1. ItemAt(x) = <<x>>
      BY <2>1 DEF ItemAt
    <3> QED
      BY <3>1
  <2>2. CASE \E m \in Messages : x = Visit(MessageDoc(m))
    <3>1. PICK m \in Messages : x = Visit(MessageDoc(m))
      BY <2>2
    <3>2. ItemAt(x) = <<Found(MessageDoc(m)), Visit(PartList(m))>>
      BY <3>1, MessageAt
    <3>3. Found(MessageDoc(m)) \in Items /\ Visit(PartList(m)) \in Items
      BY ItemKinds
    <3> QED
      BY <3>2, <3>3
  <2>3. CASE \E m \in Messages : x = Visit(PartList(m))
    <3>1. PICK m \in Messages : x = Visit(PartList(m))
      BY <2>3
    <3>2. ItemAt(x) = PartsVisited(m)
      BY <3>1, PartsAt DEF PartsVisited
    <3> QED
      BY <3>2, PartItems
  <2>4. CASE \E p \in Parts : x = Visit(PartDoc(p))
    <3>1. PICK p \in Parts : x = Visit(PartDoc(p))
      BY <2>4
    <3>2. ItemAt(x) = <<Found(PartDoc(p))>> /\ Found(PartDoc(p)) \in Items
      BY <3>1, PartAt, ItemKinds
    <3> QED
      BY <3>2
  <2>5. \A v : Found(v).found = TRUE
    BY Marks
  <2> QED
    BY <2>1, <2>2, <2>3, <2>4, <2>5, ItemKinds
<1> QED
  BY <1>1 DEF Walk, Walks

\* What is found of a message: itself and its parts.
Block(m) == <<Found(MessageDoc(m))>> \o PartsFound(m)

LEMMA BlockWalk ==
  ASSUME NEW m \in Messages, shape \in {"WithParts", "flat"}
  PROVE  LET M == MessageDoc(m) IN
         /\ MapJoin(Walk, <<Visit(M)>>) = <<Found(M), Visit(PartList(m))>>
         /\ MapJoin(Walk, <<Found(M), Visit(PartList(m))>>) = <<Found(M)>> \o PartsVisited(m)
         /\ MapJoin(Walk, <<Found(M)>> \o PartsVisited(m)) = Block(m)
         /\ MapJoin(Walk, Block(m)) = Block(m)
         /\ <<Visit(M)>> \in Seq(Items) /\ <<Found(M), Visit(PartList(m))>> \in Seq(Items)
         /\ <<Found(M)>> \o PartsVisited(m) \in Seq(Items) /\ Block(m) \in Seq(Items)
<1> DEFINE M == MessageDoc(m)
           a == Visit(M)
           b == Found(M)
           c == Visit(PartList(m))
           u == PartsVisited(m)
           w == PartsFound(m)
<1>1. a \in Items /\ b \in Items /\ c \in Items /\ u \in Seq(Items) /\ w \in Seq(Items)
  BY ItemKinds, PartItems
<1>2. Walk \in [Items -> Seq(Items)] /\ \A x \in Items : Walk[x] = ItemAt(x)
  BY WalkTyped
<1>3. Walk[a] = <<b, c>> /\ Walk[b] = <<b>> /\ Walk[c] = u
  <2>1. ItemAt(a) = <<b, c>>
    BY MessageAt
  <2>2. ItemAt(b) = <<b>>
    BY Marks DEF ItemAt
  <2>3. ItemAt(c) = u
    BY PartsAt DEF PartsVisited
  <2> HIDE DEF a, b, c, u
  <2> QED
    BY <1>1, <1>2, <2>1, <2>2, <2>3
<1>4. MapJoin(Walk, u) = w
  <2> DEFINE g == [i \in DOMAIN u |-> Walk[u[i]]]
             h == [i \in DOMAIN w |-> <<w[i]>>]
  <2>1. Len(m.parts) \in Nat /\ \A i \in 1 .. Len(m.parts) : m.parts[i] \in Parts
    BY PartsAt
  <2>2. DOMAIN u = 1 .. Len(m.parts) /\ DOMAIN w = 1 .. Len(m.parts)
    BY DEF PartsVisited, PartsFound
  <2>3. \A i \in 1 .. Len(m.parts) : Walk[u[i]] = <<w[i]>>
    <3>1. \A p \in Parts : Walk[Visit(PartDoc(p))] = <<Found(PartDoc(p))>>
      BY <1>2, PartAt, ItemKinds
    <3> QED
      BY <2>1, <3>1 DEF PartsVisited, PartsFound
  <2>4. g = h
    BY <2>2, <2>3
  <2>5. FlattenSeq(h) = w
    BY <1>1, FlattenSingles
  <2>6. MapJoin(Walk, u) = FlattenSeq(g)
    BY DEF MapJoin
  <2> QED
    BY <2>4, <2>5, <2>6, Zenon
<1> HIDE DEF a, b, c, u, w
<1>5. <<a>> \in Seq(Items) /\ <<b>> \in Seq(Items) /\ <<c>> \in Seq(Items) /\ <<b, c>> \in Seq(Items)
      /\ <<b>> \o u \in Seq(Items) /\ <<b>> \o w \in Seq(Items)
  BY <1>1
<1>6. MapJoin(Walk, <<a>>) = <<b, c>> /\ MapJoin(Walk, <<b>>) = <<b>> /\ MapJoin(Walk, <<c>>) = u
  BY <1>1, <1>2, <1>3, MapOne, ZenonT(40)
<1>7. MapJoin(Walk, <<b>> \o <<c>>) = <<b>> \o u
  <2> DEFINE r == <<b>>
             s == <<c>>
  <2>1. Walk \in [Items -> Seq(Items)] /\ r \in Seq(Items) /\ s \in Seq(Items)
    BY <1>2, <1>5
  <2> HIDE DEF r, s
  <2>2. MapJoin(Walk, r \o s) = MapJoin(Walk, r) \o MapJoin(Walk, s)
    BY ONLY <2>1, MapConcat
  <2> QED
    BY <1>6, <2>2 DEF r, s
<1>8. MapJoin(Walk, <<b>> \o u) = <<b>> \o w
  <2> DEFINE r == <<b>>
  <2>1. Walk \in [Items -> Seq(Items)] /\ r \in Seq(Items) /\ u \in Seq(Items)
    BY <1>1, <1>2, <1>5
  <2> HIDE DEF r
  <2>2. MapJoin(Walk, r \o u) = MapJoin(Walk, r) \o MapJoin(Walk, u)
    BY ONLY <2>1, MapConcat
  <2> QED
    BY <1>4, <1>6, <2>2 DEF r
<1>9. MapJoin(Walk, <<b>> \o w) = <<b>> \o w
  <2> DEFINE r == <<b>>
  <2>1. Walk \in [Items -> Seq(Items)] /\ r \in Seq(Items) /\ w \in Seq(Items)
    BY <1>1, <1>2, <1>5
  <2>2. MapJoin(Walk, w) = w
    <3>1. \A i \in DOMAIN w : w[i].found = TRUE
      BY Marks DEF w, PartsFound
    <3> QED
      BY <1>1, <3>1, WalkTyped, WalkFound
  <2> HIDE DEF r
  <2>3. MapJoin(Walk, r \o w) = MapJoin(Walk, r) \o MapJoin(Walk, w)
    BY ONLY <2>1, MapConcat
  <2> QED
    BY <1>6, <2>2, <2>3 DEF r
<1>10. <<b>> \o <<c>> = <<b, c>>
  BY Two
<1> QED
  BY <1>5, <1>6, <1>7, <1>8, <1>9, <1>10 DEF a, b, c, u, w, Block

Blocks(t) == [i \in 1 .. Len(t) |-> Block(t[i])]

LEMMA DocumentWalk ==
  ASSUME shape \in {"WithParts", "flat"}, transcript \in Seq(Messages)
  PROVE  /\ collectObjects(Document) = AllFound(FlattenSeq(Blocks(transcript)))
         /\ Blocks(transcript) \in [1 .. Len(transcript) -> Seq(Items)]
<1> DEFINE t == transcript
           n == Len(t)
           M(i) == MessageDoc(t[i])
           l1 == [i \in 1 .. n |-> <<Visit(M(i))>>]
           l2 == [i \in 1 .. n |-> <<Found(M(i)), Visit(PartList(t[i]))>>]
           l3 == [i \in 1 .. n |-> <<Found(M(i))>> \o PartsVisited(t[i])]
           l4 == Blocks(t)
<1>1. n \in Nat /\ DOMAIN t = 1 .. n /\ \A i \in 1 .. n : t[i] \in Messages
  OBVIOUS
<1>2. ASSUME NEW i \in 1 .. n
      PROVE  /\ MapJoin(Walk, l1[i]) = l2[i] /\ MapJoin(Walk, l2[i]) = l3[i]
             /\ MapJoin(Walk, l3[i]) = l4[i] /\ MapJoin(Walk, l4[i]) = l4[i]
             /\ l1[i] \in Seq(Items) /\ l2[i] \in Seq(Items) /\ l3[i] \in Seq(Items) /\ l4[i] \in Seq(Items)
  <2>1. t[i] \in Messages
    BY <1>1
  <2>2. /\ MapJoin(Walk, <<Visit(M(i))>>) = <<Found(M(i)), Visit(PartList(t[i]))>>
        /\ MapJoin(Walk, <<Found(M(i)), Visit(PartList(t[i]))>>) = <<Found(M(i))>> \o PartsVisited(t[i])
        /\ MapJoin(Walk, <<Found(M(i))>> \o PartsVisited(t[i])) = Block(t[i])
        /\ MapJoin(Walk, Block(t[i])) = Block(t[i])
        /\ <<Visit(M(i))>> \in Seq(Items) /\ <<Found(M(i)), Visit(PartList(t[i]))>> \in Seq(Items)
        /\ <<Found(M(i))>> \o PartsVisited(t[i]) \in Seq(Items) /\ Block(t[i]) \in Seq(Items)
    BY <2>1, BlockWalk
  <2>3. /\ l1[i] = <<Visit(M(i))>> /\ l2[i] = <<Found(M(i)), Visit(PartList(t[i]))>>
        /\ l3[i] = <<Found(M(i))>> \o PartsVisited(t[i]) /\ l4[i] = Block(t[i])
    BY DEF Blocks
  <2> HIDE DEF l1, l2, l3, l4, M
  <2> QED
    BY <2>2, <2>3
<1>3. /\ l1 \in [1 .. n -> Seq(Items)] /\ l2 \in [1 .. n -> Seq(Items)]
      /\ l3 \in [1 .. n -> Seq(Items)] /\ l4 \in [1 .. n -> Seq(Items)]
  BY <1>2 DEF Blocks
<1>4. /\ Document.k = "arr" /\ DOMAIN Document.a = 1 .. n
      /\ \A i \in 1 .. n : l1[i] = <<Visit(Document.a[i])>> /\ Visit(Document.a[i]) \in Items
  <2>1. Document.k = "arr" /\ Document.a = [i \in DOMAIN t |-> M(i)]
    BY DEF Document, JArr
  <2>2. \A i \in 1 .. n : Visit(M(i)) \in Items
    BY <1>1, ItemKinds
  <2> QED
    BY <1>1, <2>1, <2>2
<1> HIDE DEF l1, l2, l3, l4, M
<1>5. StepsTo(Walk, n, l1, l2) /\ StepsTo(Walk, n, l2, l3) /\ StepsTo(Walk, n, l3, l4) /\ StepsTo(Walk, n, l4, l4)
  BY <1>2 DEF StepsTo
<1>6. Walks(Walk, Items)
  BY WalkTyped
<1>7. WalksOver(Document, n, Walk, Items, l1, l2, l3, l4)
  BY <1>1, <1>3, <1>4, <1>5, <1>6 DEF WalksOver
<1>8. collectObjects(Document) = AllFound(FlattenSeq(l4))
  BY <1>7, ListWalk
<1> QED
  BY <1>3, <1>8 DEF l4

-----------------------------------------------------------------------------
(* The messages among what the walk finds *)

LEMMA BlockIs ==
  ASSUME NEW m \in Messages, shape \in {"WithParts", "flat"}
  PROVE  /\ Block(m) \in Seq(Items) /\ Len(Block(m)) = 1 + Len(m.parts) /\ Len(m.parts) \in Nat
         /\ Block(m)[1].value = MessageDoc(m) /\ messageRole(Block(m)[1].value) = m.role
         /\ \A j \in 2 .. Len(Block(m)) : messageRole(Block(m)[j].value) = ""
<1> DEFINE b == <<Found(MessageDoc(m))>>
           w == PartsFound(m)
<1>1. /\ Len(m.parts) \in Nat /\ \A i \in 1 .. Len(m.parts) : m.parts[i] \in Parts
  BY PartsAt
<1>2. b \in Seq(Items) /\ w \in Seq(Items) /\ Len(b) = 1 /\ b[1] = Found(MessageDoc(m))
  BY ItemKinds, PartItems
<1>3. Len(w) = Len(m.parts) /\ \A i \in 1 .. Len(m.parts) : w[i] = Found(PartDoc(m.parts[i]))
  BY <1>1 DEF PartsFound
<1>4. Block(m) = b \o w
  BY DEF Block
<1> HIDE DEF b, w
<1>5. /\ b \o w \in [1 .. Len(b) + Len(w) -> Items]
      /\ \A i \in 1 .. Len(b) : (b \o w)[i] = b[i]
      /\ \A i \in 1 .. Len(w) : (b \o w)[Len(b) + i] = w[i]
  <2>1. b \in Seq(Items) /\ w \in Seq(Items)
    BY <1>2
  <2> QED
    BY ONLY <2>1, JoinedParts
<1>6. Block(m) \in Seq(Items) /\ Len(Block(m)) = 1 + Len(m.parts)
  <2>1. b \o w \in Seq(Items) /\ Len(b \o w) = Len(b) + Len(w)
    BY <1>2, JoinedLength
  <2> QED
    BY <1>2, <1>3, <1>4, <2>1
<1>7. Block(m)[1] = Found(MessageDoc(m))
  <2>1. 1 \in 1 .. Len(b)
    BY <1>2
  <2> QED
    BY <1>2, <1>4, <1>5, <2>1, Zenon
<1>8. \A j \in 2 .. Len(Block(m)) : j - 1 \in 1 .. Len(m.parts) /\ Block(m)[j] = Found(PartDoc(m.parts[j - 1]))
  <2>1. ASSUME NEW j \in 2 .. Len(Block(m)) PROVE j - 1 \in 1 .. Len(m.parts) /\ j = 1 + (j - 1)
    BY <1>1, <1>6
  <2> QED
    BY <1>2, <1>3, <1>4, <1>5, <2>1
<1>9. \A j \in 2 .. Len(Block(m)) : messageRole(Block(m)[j].value) = ""
  <2>1. ASSUME NEW j \in 2 .. Len(Block(m)) PROVE messageRole(Block(m)[j].value) = ""
    <3>1. m.parts[j - 1] \in Parts
      BY <1>1, <1>8
    <3>2. Block(m)[j].value = PartDoc(m.parts[j - 1])
      BY <1>8, Marks
    <3> QED
      BY <3>1, <3>2, PartFields
  <2> QED
    BY <2>1
<1>10. Block(m)[1].value = MessageDoc(m) /\ messageRole(MessageDoc(m)) = m.role
  BY <1>7, Marks, MessageFields
<1> QED
  BY <1>1, <1>6, <1>9, <1>10

Assisting(x) == messageRole(x.value) = "assistant"

\* The last of s that is an assistant message is x; none of s is one.
LastIs(s, x) == \E k \in DOMAIN s : s[k] = x /\ Assisting(x) /\ \A j \in k + 1 .. Len(s) : ~ Assisting(s[j])
NoneIn(s)    == \A k \in DOMAIN s : ~ Assisting(s[k])

LEMMA LastJoined ==
  ASSUME NEW S, NEW s, s \in Seq(S), NEW b, b \in Seq(S), NEW x
  PROVE  /\ NoneIn(s) /\ NoneIn(b) => NoneIn(s \o b)
         /\ LastIs(s, x) /\ NoneIn(b) => LastIs(s \o b, x)
         /\ LastIs(b, x) => LastIs(s \o b, x)
<1> DEFINE u == s \o b
           n == Len(s)
           k == Len(b)
<1>1. n \in Nat /\ k \in Nat /\ DOMAIN s = 1 .. n /\ DOMAIN b = 1 .. k
  OBVIOUS
<1>2. /\ u \in [1 .. n + k -> S] /\ \A i \in 1 .. n : u[i] = s[i]
      /\ \A i \in 1 .. k : u[n + i] = b[i]
  BY JoinedParts
<1>3. u \in Seq(S) /\ Len(u) = n + k
  OBVIOUS
<1>4. DOMAIN u = 1 .. n + k
  BY <1>2
<1> HIDE DEF u, n, k
<1>5. \A i \in 1 .. n + k : (i \in 1 .. n /\ u[i] = s[i]) \/ (i - n \in 1 .. k /\ u[i] = b[i - n])
  <2>1. ASSUME NEW i \in 1 .. n + k, i \notin 1 .. n PROVE i - n \in 1 .. k /\ i = n + (i - n)
    BY <1>1, <2>1
  <2> QED
    BY <1>2, <2>1
<1>6. NoneIn(s) /\ NoneIn(b) => NoneIn(u)
  BY <1>1, <1>4, <1>5 DEF NoneIn
<1>7. ASSUME LastIs(s, x), NoneIn(b) PROVE LastIs(u, x)
  <2>1. PICK i \in 1 .. n : s[i] = x /\ Assisting(x) /\ \A j \in i + 1 .. n : ~ Assisting(s[j])
    BY <1>1, <1>7 DEF LastIs, n
  <2>2. i \in 1 .. n + k /\ u[i] = x
    BY <1>1, <1>2, <2>1
  <2>3. ASSUME NEW j \in i + 1 .. n + k PROVE ~ Assisting(u[j])
    <3>1. j \in 1 .. n + k
      BY <1>1
    <3>2. CASE j \in 1 .. n /\ u[j] = s[j]
      <4>1. j \in i + 1 .. n
        BY <3>2
      <4> QED
        BY <2>1, <3>2, <4>1
    <3>3. CASE j - n \in 1 .. k /\ u[j] = b[j - n]
      BY <1>1, <1>7, <3>3 DEF NoneIn
    <3> QED
      BY <1>5, <3>1, <3>2, <3>3
  <2> QED
    BY <1>3, <1>4, <2>1, <2>2, <2>3 DEF LastIs
<1>8. ASSUME LastIs(b, x) PROVE LastIs(u, x)
  <2>1. PICK i \in 1 .. k : b[i] = x /\ Assisting(x) /\ \A j \in i + 1 .. k : ~ Assisting(b[j])
    BY <1>1, <1>8 DEF LastIs, k
  <2>2. n + i \in 1 .. n + k
    BY <1>1
  <2>3. u[n + i] = x
    BY <1>2, <2>1
  <2>4. ASSUME NEW j \in (n + i) + 1 .. n + k PROVE ~ Assisting(u[j])
    <3>1. j - n \in i + 1 .. k /\ j - n \in 1 .. k /\ j = n + (j - n)
      BY <1>1
    <3>2. u[j] = b[j - n]
      BY <1>2, <3>1
    <3> QED
      BY <2>1, <3>1, <3>2
  <2> QED
    BY <1>3, <1>4, <2>1, <2>2, <2>3, <2>4 DEF LastIs
<1> QED
  BY <1>6, <1>7, <1>8 DEF u

LEMMA LastOfBlock ==
  ASSUME NEW m \in Messages, shape \in {"WithParts", "flat"}
  PROVE  /\ m.role = "assistant" => LastIs(Block(m), Block(m)[1]) /\ Block(m)[1].value = MessageDoc(m)
         /\ m.role # "assistant" => NoneIn(Block(m))
<1>1. /\ Block(m) \in Seq(Items) /\ Len(Block(m)) = 1 + Len(m.parts) /\ Len(m.parts) \in Nat
      /\ Block(m)[1].value = MessageDoc(m) /\ messageRole(Block(m)[1].value) = m.role
      /\ \A j \in 2 .. Len(Block(m)) : messageRole(Block(m)[j].value) = ""
  BY BlockIs
<1> DEFINE b == Block(m)
<1>2. DOMAIN b = 1 .. Len(b) /\ Len(b) \in Nat /\ 1 \in 1 .. Len(b)
  <2> HIDE DEF b
  <2>1. b \in Seq(Items) /\ Len(b) = 1 + Len(m.parts)
    BY <1>1 DEF b
  <2>2. DOMAIN b = 1 .. Len(b) /\ Len(b) \in Nat
    BY <2>1
  <2>3. Len(m.parts) \in Nat
    BY <1>1
  <2> QED
    BY <2>1, <2>2, <2>3
<1>3. \A j \in 2 .. Len(b) : ~ Assisting(b[j])
  BY <1>1 DEF Assisting
<1> HIDE DEF b
<1>4. \A j \in 1 .. Len(b) : j = 1 \/ j \in 2 .. Len(b)
  BY <1>2
<1>5. ASSUME m.role = "assistant" PROVE LastIs(b, b[1])
  <2>1. Assisting(b[1])
    BY <1>1, <1>5 DEF Assisting, b
  <2>2. 1 + 1 = 2
    OBVIOUS
  <2> QED
    BY <1>2, <1>3, <2>1, <2>2 DEF LastIs
<1>6. ASSUME m.role # "assistant" PROVE NoneIn(b)
  <2>1. ~ Assisting(b[1])
    BY <1>1, <1>6 DEF Assisting, b
  <2> QED
    BY <1>2, <1>3, <1>4, <2>1 DEF NoneIn
<1> QED
  BY <1>1, <1>5, <1>6 DEF b

LEMMA GreatestIs ==
  ASSUME NEW A, A \in SUBSET Nat, NEW k, k \in A, \A y \in A : y <= k
  PROVE  Max(A) = k
<1>1. \A x, y \in A : x \in Nat /\ y \in Nat /\ (x >= y /\ y >= x => x = y)
  OBVIOUS
<1>2. \A y \in A : k >= y
  OBVIOUS
<1> QED
  BY <1>1, <1>2, Zenon DEF Max

LEMMA LatestOf ==
  ASSUME NEW v, NEW s, s \in Seq(Items), collectObjects(v) = AllFound(s)
  PROVE  /\ NoneIn(s) => LatestAssistant(v) = <<>>
         /\ \A x : LastIs(s, x) => LatestAssistant(v) = <<x.value>>
<1> DEFINE all == AllFound(s)
           A == {i \in DOMAIN all : messageRole(all[i]) = "assistant"}
<1>1. LatestAssistant(v) = IF A = {} THEN <<>> ELSE <<all[Max(A)]>>
  BY DEF LatestAssistant
<1>2. DOMAIN all = 1 .. Len(s) /\ DOMAIN s = 1 .. Len(s) /\ Len(s) \in Nat /\ \A i \in 1 .. Len(s) : all[i] = s[i].value
  BY DEF AllFound
<1> HIDE DEF all
<1>3. \A i : i \in A <=> i \in DOMAIN s /\ Assisting(s[i])
  BY <1>2 DEF Assisting
<1>4. A \in SUBSET Nat /\ A \subseteq 1 .. Len(s)
  BY <1>2
<1> HIDE DEF A
<1>5. ASSUME NoneIn(s) PROVE LatestAssistant(v) = <<>>
  BY <1>1, <1>3, <1>5 DEF NoneIn
<1>6. ASSUME NEW x, LastIs(s, x) PROVE LatestAssistant(v) = <<x.value>>
  <2>1. PICK k \in DOMAIN s : s[k] = x /\ Assisting(x) /\ \A j \in k + 1 .. Len(s) : ~ Assisting(s[j])
    BY <1>6 DEF LastIs
  <2>2. k \in A /\ k \in 1 .. Len(s)
    BY <1>2, <1>3, <2>1
  <2>3. \A y \in A : y <= k
    <3>1. ASSUME NEW y \in A, ~ (y <= k) PROVE y \in k + 1 .. Len(s)
      BY <1>2, <1>4, <2>2, <3>1
    <3> QED
      BY <1>3, <2>1, <3>1
  <2>4. Max(A) = k
    BY <1>4, <2>2, <2>3, GreatestIs
  <2>5. A # {} /\ all[k] = x.value
    BY <1>2, <2>1, <2>2
  <2> QED
    BY <1>1, <2>4, <2>5
<1> QED
  BY <1>5, <1>6

\* The latest assistant message of the document is that of the transcript.
LEMMA LatestRead ==
  ASSUME shape \in {"WithParts", "flat"}, transcript \in Seq(Messages)
  PROVE  \/ /\ LatestAssistant(Document) = <<>>
            /\ \A n \in DOMAIN transcript : transcript[n].role # "assistant"
         \/ \E n \in DOMAIN transcript :
              /\ transcript[n].role = "assistant"
              /\ \A k \in n + 1 .. Len(transcript) : transcript[k].role # "assistant"
              /\ LatestAssistant(Document) = <<MessageDoc(transcript[n])>>
<1> DEFINE t == transcript
           n == Len(t)
           J(k) == FlattenSeq(FirstOf(Blocks(t), k))
           Claim(k) == \/ NoneIn(J(k)) /\ \A i \in 1 .. k : t[i].role # "assistant"
                       \/ \E i \in 1 .. k : /\ t[i].role = "assistant"
                                            /\ \A j \in i + 1 .. k : t[j].role # "assistant"
                                            /\ LastIs(J(k), Block(t[i])[1])
           T == {k \in Nat : k \in 0 .. n => Claim(k)}
<1>1. n \in Nat /\ DOMAIN t = 1 .. n /\ \A i \in 1 .. n : t[i] \in Messages
  OBVIOUS
<1>2. /\ collectObjects(Document) = AllFound(FlattenSeq(Blocks(t)))
      /\ Blocks(t) \in [1 .. n -> Seq(Items)] /\ \A i \in 1 .. n : Blocks(t)[i] = Block(t[i])
  BY DocumentWalk DEF Blocks
<1>3. Claim(0)
  <2>1. FirstOf(Blocks(t), 0) = <<>>
    BY DEF FirstOf
  <2>2. J(0) = <<>>
    BY <2>1, FlattenEmpty
  <2> HIDE DEF J
  <2>3. NoneIn(J(0))
    BY <2>2 DEF NoneIn
  <2> QED
    BY <2>3
<1>4. ASSUME NEW k \in 0 .. n - 1, Claim(k) PROVE Claim(k + 1)
  <2> DEFINE m == t[k + 1]
             b == Block(m)
  <2>1. k \in Nat /\ k + 1 \in 1 .. n /\ m \in Messages
    BY <1>1
  <2>2. J(k + 1) = J(k) \o b /\ J(k) \in Seq(Items) /\ b \in Seq(Items)
    BY <1>1, <1>2, <2>1, FlattenNext, ZenonT(40)
  <2>3. /\ m.role = "assistant" => LastIs(b, b[1])
        /\ m.role # "assistant" => NoneIn(b)
    BY <2>1, LastOfBlock
  <2> HIDE DEF J, b
  <2>4. CASE m.role = "assistant"
    <3>1. LastIs(J(k + 1), b[1])
      BY <2>2, <2>3, <2>4, LastJoined
    <3>2. \A j \in (k + 1) + 1 .. k + 1 : FALSE
      BY <2>1
    <3>3. k + 1 \in 1 .. k + 1
      BY <2>1
    <3> QED
      BY <2>4, <3>1, <3>2, <3>3 DEF b
  <2>5. CASE m.role # "assistant"
    <3>1. NoneIn(b)
      BY <2>3, <2>5
    <3>2. \A x : LastIs(J(k), x) => LastIs(J(k + 1), x)
      BY <2>2, <3>1, LastJoined
    <3>3. NoneIn(J(k)) => NoneIn(J(k + 1))
      BY <2>2, <3>1, LastJoined
    <3>4. \A j : j \in 1 .. k + 1 <=> j \in 1 .. k \/ j = k + 1
      BY <2>1
    <3>5. \A i \in 1 .. k : \A j : j \in i + 1 .. k + 1 <=> j \in i + 1 .. k \/ j = k + 1
      BY <2>1
    <3>6. CASE NoneIn(J(k)) /\ \A i \in 1 .. k : t[i].role # "assistant"
      BY <2>5, <3>3, <3>4, <3>6
    <3>7. CASE \E i \in 1 .. k : /\ t[i].role = "assistant"
                                 /\ \A j \in i + 1 .. k : t[j].role # "assistant"
                                 /\ LastIs(J(k), Block(t[i])[1])
      <4>1. PICK i \in 1 .. k : /\ t[i].role = "assistant"
                                /\ \A j \in i + 1 .. k : t[j].role # "assistant"
                                /\ LastIs(J(k), Block(t[i])[1])
        BY <3>7
      <4>2. i \in 1 .. k + 1 /\ \A j \in i + 1 .. k + 1 : t[j].role # "assistant"
        BY <2>5, <3>4, <3>5, <4>1
      <4>3. LastIs(J(k + 1), Block(t[i])[1])
        BY <3>2, <4>1
      <4> QED
        BY <4>1, <4>2, <4>3
    <3> QED
      BY <1>4, <3>6, <3>7
  <2> QED
    BY <2>4, <2>5
<1> HIDE DEF Claim
<1>5. 0 \in T
  BY <1>3
<1>6. \A k \in 0 .. n - 1 : k \in T => k + 1 \in T
  <2>1. \A k \in 0 .. n - 1 : k \in 0 .. n /\ k + 1 \in 0 .. n /\ k + 1 \in Nat
    BY <1>1
  <2> QED
    BY <1>4, <2>1
<1>7. T \in SUBSET Nat
  OBVIOUS
<1>8. 0 .. n \subseteq T
  <2> HIDE DEF T
  <2> QED
    BY <1>1, <1>5, <1>6, <1>7, EachNatural
<1>9. Claim(n)
  <2>1. n \in 0 .. n
    BY <1>1
  <2> QED
    BY <1>8, <2>1
<1>10. J(n) = FlattenSeq(Blocks(t)) /\ J(n) \in Seq(Items)
  <2>1. FirstOf(Blocks(t), n) = Blocks(t)
    BY <1>1, <1>2, FlattenWhole
  <2>2. FlattenSeq(Blocks(t)) \in Seq(Items)
    BY <1>1, <1>2, FlattenTyped
  <2> QED
    BY <2>1, <2>2
<1>11. collectObjects(Document) = AllFound(J(n))
  BY <1>2, <1>10
<1> HIDE DEF J
<1>12. /\ NoneIn(J(n)) => LatestAssistant(Document) = <<>>
       /\ \A x : LastIs(J(n), x) => LatestAssistant(Document) = <<x.value>>
  BY <1>10, <1>11, LatestOf
<1>13. \A i \in 1 .. n : Block(t[i])[1].value = MessageDoc(t[i])
  BY <1>1, BlockIs
<1> QED
  BY <1>1, <1>9, <1>12, <1>13 DEF Claim

-----------------------------------------------------------------------------
(* The text of an answer *)

LEMMA Greatest ==
  ASSUME NEW n \in Nat, NEW A, A \in SUBSET (1 .. n), A # {}
  PROVE  Max(A) \in A /\ \A y \in A : y <= Max(A)
<1> DEFINE B == {x \in 0 .. n : n - x \in A}
<1>1. B \in SUBSET Nat /\ B # {}
  <2>1. PICK a \in A : a \in 1 .. n
    OBVIOUS
  <2>2. n - a \in 0 .. n /\ n - (n - a) = a
    BY <2>1
  <2>3. n - a \in B
    BY <2>1, <2>2
  <2>4. B \in SUBSET Nat
    OBVIOUS
  <2> HIDE DEF B
  <2> QED
    BY <2>3, <2>4
<1>2. PICK x \in B : \A y \in B : x <= y
  <2> HIDE DEF B
  <2> QED
    BY <1>1, LeastNatural
<1>3. n - x \in A /\ x \in 0 .. n
  BY <1>2
<1>4. ASSUME NEW y \in A PROVE y <= n - x
  <2>1. y \in 1 .. n /\ n - y \in 0 .. n /\ n - (n - y) = y
    OBVIOUS
  <2>2. n - y \in B
    BY <2>1
  <2>3. x <= n - y
    BY <1>2, <2>2
  <2> QED
    BY <1>3, <2>1, <2>3
<1>5. A \in SUBSET Nat
  OBVIOUS
<1>6. Max(A) = n - x
  <2> HIDE DEF B
  <2> QED
    BY <1>3, <1>4, <1>5, GreatestIs
<1> QED
  BY <1>3, <1>4, <1>6

LEMMA PartValues ==
  ASSUME NEW m \in Messages, shape \in {"WithParts", "flat"}
  PROVE  /\ assistantPartValues(MessageDoc(m)) = PartList(m).a
         /\ PartList(m).a = <<>> <=> Len(m.parts) = 0
<1> DEFINE M == MessageDoc(m)
           L == PartList(m)
           D == {PartDoc(p) : p \in Parts}
           Of(key) == IF Has(M, key) /\ M.f[key].k = "arr" THEN Objects(M.f[key].a) ELSE <<>>
<1>1. /\ Has(M, "content") <=> shape = "flat"
      /\ Has(M, "parts") <=> shape = "WithParts"
      /\ Has(M, "content") => M.f["content"] = L
      /\ Has(M, "parts") => M.f["parts"] = L
  BY MessageFields
<1>2. /\ L.k = "arr" /\ DOMAIN L.a = 1 .. Len(m.parts) /\ Len(m.parts) \in Nat
      /\ \A i \in 1 .. Len(m.parts) : L.a[i] = PartDoc(m.parts[i]) /\ m.parts[i] \in Parts
  BY PartsAt
<1>3. L.a \in Seq(D) /\ Len(L.a) = Len(m.parts)
  <2> DEFINE d == [i \in 1 .. Len(m.parts) |-> PartDoc(m.parts[i])]
  <2>1. L.a = d
    BY PartsAt DEF PartList, JArr
  <2>2. Len(m.parts) \in Nat /\ \A i \in 1 .. Len(m.parts) : d[i] \in D
    BY <1>2
  <2>3. d = [i \in 1 .. Len(m.parts) |-> d[i]]
    OBVIOUS
  <2> HIDE DEF L, D, d
  <2>4. d \in Seq(D) /\ Len(d) = Len(m.parts)
    BY <2>2, <2>3
  <2> QED
    BY <2>1, <2>4
<1>4. \A i \in 1 .. Len(m.parts) : L.a[i].k = "obj"
  <2>1. \A p \in Parts : PartDoc(p).k = "obj"
    BY PartFields
  <2> HIDE DEF L
  <2> QED
    BY <1>2, <2>1
<1>5. assistantPartValues(M) = IF Of("parts") # <<>> THEN Of("parts") ELSE Of("content")
  BY DEF assistantPartValues
<1> DEFINE s == L.a
<1>6. Objects(s) = s
  <2> DEFINE f == [i \in DOMAIN s |-> IF s[i].k = "obj" THEN <<s[i]>> ELSE <<>>]
             g == [i \in DOMAIN s |-> <<s[i]>>]
  <2>1. f = g
    BY <1>2, <1>4
  <2>2. Objects(s) = FlattenSeq(f)
    BY DEF Objects
  <2>3. FlattenSeq(g) = s
    <3>1. s \in Seq(D) /\ g = [i \in DOMAIN s |-> <<s[i]>>]
      BY <1>3
    <3> HIDE DEF s, g, D
    <3> QED
      BY <3>1, FlattenSingles
  <2> QED
    BY <2>1, <2>2, <2>3, Zenon
<1>7. s = <<>> <=> Len(m.parts) = 0
  BY <1>3
<1> HIDE DEF M, L, D
<1>8. CASE shape = "WithParts"
  <2>1. Of("parts") = s /\ Of("content") = <<>>
    BY <1>1, <1>2, <1>6, <1>8
  <2> HIDE DEF s, Of
  <2> QED
    BY <1>5, <1>7, <2>1 DEF s, M, L
<1>9. CASE shape = "flat"
  <2>1. Of("parts") = <<>> /\ Of("content") = s
    BY <1>1, <1>2, <1>6, <1>9
  <2> HIDE DEF s, Of
  <2> QED
    BY <1>5, <1>7, <2>1 DEF s, M, L
<1> QED
  BY <1>8, <1>9

LEMMA AnswerTextRead ==
  ASSUME NEW m \in Messages, shape \in {"WithParts", "flat"}
  PROVE  \/ assistantAnswerText(MessageDoc(m)) = ""
         \/ \E i \in 1 .. Len(m.parts) : /\ Answer(m.parts[i])
                                        /\ assistantAnswerText(MessageDoc(m)) = m.parts[i].text
                                        /\ \A k \in i + 1 .. Len(m.parts) : ~ Answer(m.parts[k])
<1> DEFINE M == MessageDoc(m)
           s == PartList(m).a
           n == Len(m.parts)
           A == {i \in DOMAIN s : isAnswerPart(s[i]) /\ stringField(s[i], "text") # ""}
<1>1. assistantPartValues(M) = s /\ (s = <<>> <=> n = 0)
  BY PartValues
<1>2. stringField(M, "type") = "" /\ stringField(M, "text") = ""
  BY MessageFields
<1>3. assistantAnswerText(M) = IF s = <<>> THEN "" ELSE IF A = {} THEN "" ELSE stringField(s[Max(A)], "text")
  <2> HIDE DEF M, s
  <2> QED
    BY <1>1, <1>2 DEF assistantAnswerText, isAnswerPartType
<1>4. DOMAIN s = 1 .. n /\ n \in Nat /\ \A i \in 1 .. n : s[i] = PartDoc(m.parts[i]) /\ m.parts[i] \in Parts
  BY PartsAt
<1>5. \A i \in 1 .. n : (i \in A <=> Answer(m.parts[i])) /\ stringField(s[i], "text") = m.parts[i].text
  BY <1>4, AnswerRead, PartFields
<1>6. A \in SUBSET (1 .. n)
  BY <1>4
<1> HIDE DEF A, s, M
<1>7. ASSUME A # {}
      PROVE  LET i == Max(A) IN
             /\ i \in 1 .. n /\ Answer(m.parts[i]) /\ stringField(s[i], "text") = m.parts[i].text
             /\ \A k \in i + 1 .. n : ~ Answer(m.parts[k])
  <2>1. Max(A) \in A /\ \A y \in A : y <= Max(A)
    BY <1>4, <1>6, <1>7, Greatest
  <2>2. Max(A) \in 1 .. n
    BY <1>6, <2>1
  <2>3. \A k \in Max(A) + 1 .. n : k \in 1 .. n /\ ~ (k <= Max(A))
    BY <1>4, <2>2
  <2> QED
    BY <1>5, <2>1, <2>2, <2>3
<1> QED
  BY <1>3, <1>7 DEF M

-----------------------------------------------------------------------------
(* Where a text is cut *)

\* The recursion of Bytes, up to n.
Sums(g, s, n) == \A i \in 0 .. n : g[i] = IF i = 0 THEN 0 ELSE g[i - 1] + s[i][2]

LEMMA SumsExists ==
  ASSUME NEW n \in Nat, NEW s
  PROVE  \E g : Sums(g, s, n)
<1> DEFINE T == {k \in Nat : \E g : Sums(g, s, k)}
<1>1. 0 \in T
  <2> DEFINE g == [i \in {0} |-> 0]
  <2>1. g[0] = 0 /\ \A i \in 0 .. 0 : i = 0
    OBVIOUS
  <2> HIDE DEF g
  <2>2. Sums(g, s, 0)
    BY <2>1 DEF Sums
  <2> QED
    BY <2>2
<1>2. ASSUME NEW k \in 0 .. n - 1, k \in T PROVE k + 1 \in T
  <2>1. PICK g : Sums(g, s, k)
    BY <1>2
  <2> DEFINE h == [i \in 0 .. k + 1 |-> IF i = k + 1 THEN g[k] + s[k + 1][2] ELSE g[i]]
  <2>2. k \in Nat /\ k + 1 \in 0 .. k + 1 /\ \A i \in 0 .. k : i \in 0 .. k + 1 /\ i # k + 1
    OBVIOUS
  <2>3. h[k + 1] = g[k] + s[k + 1][2] /\ \A i \in 0 .. k : h[i] = g[i]
    BY <2>2, Zenon
  <2> HIDE DEF h
  <2>4. ASSUME NEW i \in 0 .. k + 1 PROVE h[i] = IF i = 0 THEN 0 ELSE h[i - 1] + s[i][2]
    <3>1. CASE i = k + 1
      <4>1. i # 0 /\ i - 1 = k /\ k \in 0 .. k
        BY <2>2, <3>1
      <4> QED
        BY <2>3, <3>1, <4>1
    <3>2. CASE i # k + 1
      <4>1. i \in 0 .. k /\ (i # 0 => i - 1 \in 0 .. k)
        BY <2>2, <3>2
      <4>2. g[i] = IF i = 0 THEN 0 ELSE g[i - 1] + s[i][2]
        BY <2>1, <4>1 DEF Sums
      <4> QED
        BY <2>3, <4>1, <4>2
    <3> QED
      BY <3>1, <3>2
  <2>5. Sums(h, s, k + 1)
    BY <2>4 DEF Sums
  <2> QED
    BY <2>2, <2>5
<1>3. n \in T
  <2>1. 0 .. n \subseteq T
    BY <1>1, <1>2, EachNatural
  <2> QED
    BY <2>1
<1> QED
  BY <1>3

\* No rune is without a byte.
LEMMA BytesEnough ==
  ASSUME NEW s, s \in Seq(Runes)
  PROVE  Bytes(s) \in Nat /\ Len(s) <= Bytes(s) /\ (s = <<>> => Bytes(s) = 0)
<1> DEFINE n == Len(s)
           Rec(g) == [i \in 0 .. n |-> IF i = 0 THEN 0 ELSE g[i - 1] + s[i][2]]
<1>1. n \in Nat /\ \A i \in 1 .. n : s[i][2] \in Nat /\ s[i][2] >= 1
  <2>1. ASSUME NEW i \in 1 .. n PROVE s[i][2] \in Nat \ {0}
    <3>1. s[i] \in Runes
      OBVIOUS
    <3>2. s[i] \in STRING \X (Nat \ {0})
      BY <3>1 DEF Runes
    <3> QED
      BY <3>2
  <2>2. n \in Nat
    OBVIOUS
  <2>3. \A x \in Nat \ {0} : x \in Nat /\ x >= 1
    OBVIOUS
  <2> HIDE DEF n
  <2> QED
    BY <2>1, <2>2, <2>3
<1>2. Bytes(s) = (CHOOSE g : g = Rec(g))[n]
  BY DEF Bytes
<1>3. \A g : \A i \in 0 .. n : Rec(g)[i] = IF i = 0 THEN 0 ELSE g[i - 1] + s[i][2]
  OBVIOUS
<1>4. \E g : g = Rec(g)
  <2>1. PICK h : Sums(h, s, n)
    BY <1>1, SumsExists
  <2> DEFINE g == [i \in 0 .. n |-> h[i]]
  <2>2. ASSUME NEW i \in 0 .. n PROVE g[i] = IF i = 0 THEN 0 ELSE g[i - 1] + s[i][2]
    <3>1. i # 0 => i - 1 \in 0 .. n
      BY <1>1
    <3> QED
      BY <2>1, <3>1 DEF Sums
  <2>3. g = Rec(g)
    BY <2>2
  <2> QED
    BY <2>3
<1>5. PICK g : g = Rec(g) /\ Bytes(s) = g[n]
  BY <1>2, <1>4
<1>6. \A i \in 0 .. n : g[i] = IF i = 0 THEN 0 ELSE g[i - 1] + s[i][2]
  <2> HIDE DEF Rec
  <2> QED
    BY <1>3, <1>5
<1> HIDE DEF Rec, n
<1> DEFINE T == {k \in Nat : k \in 0 .. n => g[k] \in Nat /\ k <= g[k]}
<1>7. 0 \in T
  <2>1. 0 \in 0 .. n
    BY <1>1
  <2>2. g[0] = 0
    BY <1>6, <2>1
  <2> QED
    BY <2>2
<1>8. ASSUME NEW k \in 0 .. n - 1, k \in T PROVE k + 1 \in T
  <2>1. k \in 0 .. n /\ k + 1 \in 0 .. n /\ k + 1 \in 1 .. n /\ k + 1 # 0 /\ k + 1 - 1 = k /\ k + 1 \in Nat
    BY <1>1
  <2>2. g[k + 1] = g[k] + s[k + 1][2]
    BY <1>6, <2>1
  <2>3. g[k] \in Nat /\ k <= g[k] /\ s[k + 1][2] \in Nat /\ s[k + 1][2] >= 1
    BY <1>1, <1>8, <2>1
  <2>4. g[k + 1] \in Nat /\ k + 1 <= g[k + 1]
    BY <2>1, <2>2, <2>3
  <2> QED
    BY <2>1, <2>4
<1>9. 0 .. n \subseteq T
  <2>1. T \in SUBSET Nat
    OBVIOUS
  <2> QED
    BY <1>1, <1>7, <1>8, <2>1, EachNatural
<1>10. g[n] \in Nat /\ n <= g[n]
  <2>1. n \in 0 .. n
    BY <1>1
  <2> QED
    BY <1>9, <2>1
<1>11. s = <<>> => g[n] = 0
  <2>1. s = <<>> => n = 0
    BY DEF n
  <2>2. 0 \in 0 .. n
    BY <1>1
  <2> QED
    BY <1>6, <2>1, <2>2
<1> QED
  BY <1>5, <1>10, <1>11 DEF n

LEMMA CutMarked ==
  ASSUME NEW s, s \in Seq(Runes), NEW limit \in Nat \ {0}
  PROVE  LET c == truncateTextMarked(s, limit) IN
         /\ c.truncated \in BOOLEAN /\ (c.truncated <=> Len(s) > limit)
         /\ c.text = IF Len(s) > limit THEN SubSeq(s, 1, limit) \o Dots ELSE s
         /\ s # <<>> => c.text[1] = s[1]
         /\ s = <<>> => c.text = <<>>
<1>1. Len(s) \in Nat /\ Bytes(s) \in Nat /\ Len(s) <= Bytes(s)
  BY BytesEnough
<1>2. Bytes(s) <= limit => Len(s) <= limit
  BY <1>1
<1>3. CASE Len(s) > limit
  <2>1. ~ (Bytes(s) <= limit \/ Len(s) <= limit)
    BY <1>1, <1>2, <1>3
  <2>2. truncateTextMarked(s, limit) = [text |-> SubSeq(s, 1, limit) \o Dots, truncated |-> TRUE]
    BY <2>1 DEF truncateTextMarked
  <2>3. truncateTextMarked(s, limit).truncated = TRUE /\ truncateTextMarked(s, limit).text = SubSeq(s, 1, limit) \o Dots
    BY <2>2
  <2>4. (SubSeq(s, 1, limit) \o Dots)[1] = s[1] /\ s # <<>>
    <3> DEFINE a == SubSeq(s, 1, limit)
               S == Runes \cup {<<".", 1>>}
    <3>1. a \in Seq(S) /\ Len(a) = limit /\ a[1] = s[1] /\ 1 \in 1 .. limit
      BY <1>1, <1>3
    <3>2. Dots \in Seq(S)
      BY DEF Dots
    <3> HIDE DEF a, S
    <3>3. (a \o Dots)[1] = a[1]
      BY <3>1, <3>2, JoinedParts
    <3>4. s # <<>>
      BY <1>1, <1>3
    <3> QED
      BY <3>1, <3>3, <3>4 DEF a
  <2> QED
    BY <1>3, <2>3, <2>4
<1>4. CASE ~ (Len(s) > limit)
  <2>1. Len(s) <= limit
    BY <1>1, <1>4
  <2>2. truncateTextMarked(s, limit) = [text |-> s, truncated |-> FALSE]
    BY <2>1 DEF truncateTextMarked
  <2>3. truncateTextMarked(s, limit).truncated = FALSE /\ truncateTextMarked(s, limit).text = s
    BY <2>2
  <2> QED
    BY <1>4, <2>3
<1> QED
  BY <1>3, <1>4

-----------------------------------------------------------------------------
(* The states *)

TypeInv ==
  /\ shape \in Shapes
  /\ transcript \in Seq(Messages)
  /\ job \in {"untracked", "running", "unknown"} \cup Terminal

\* What is shown is of the transcript as it is, and done only when no message
\* of the assistant is left open.
Shows(status, verbose, limit) ==
  /\ shown = shapeHandoffCheckResult(status, Document, verbose, limit)
  /\ status = "done" => ~ openCodeAssistantContinuing(Document)

ShownInv ==
  \/ shown = Nothing
  \/ \E status \in {"running", "unknown"} \cup Terminal, verbose \in BOOLEAN, limit \in Nat \ {0} :
       Shows(status, verbose, limit)

LEMMA ShapeKnown ==
  ASSUME TypeInv
  PROVE  shape \in {"WithParts", "flat"}
  BY CheckShapeAssumption DEF TypeInv

LEMMA TypeKept ==
  ASSUME TypeInv, [Next]_vars
  PROVE  TypeInv'
<1> USE DEF TypeInv
<1>1. ASSUME NEW verbose \in Verbose, NEW limit \in Limits, doCheck(verbose, limit) PROVE TypeInv'
  BY <1>1 DEF doCheck, Reconciled, Terminal
<1>2. CASE JobMoves
  BY <1>2 DEF JobMoves, Terminal
<1>a. \A m \in Messages : Append(transcript, m) \in Seq(Messages)
  OBVIOUS
<1>b. \A role \in {"user", "assistant"} : \A parts \in Seq(Parts) :
        [role |-> role, finish |-> "", parts |-> parts] \in Messages
  BY DEF Messages
<1>3. CASE UserSpeaks
  <2> DEFINE p == [type |-> "text", text |-> "prompt", status |-> "", tool |-> ""]
  <2>1. p \in Parts
    <3>1. "prompt" \in DOMAIN Spelling
      BY CheckShapeAssumption
    <3>2. p \in [type : {"text", "reasoning", "tool", ""}, text : DOMAIN Spelling,
                 status : {"", "pending", "running", "completed", "error"}, tool : Tools]
      <4>1. "" \in Tools
        BY DEF Tools
      <4>2. "text" \in {"text", "reasoning", "tool", ""} /\ "" \in {"", "pending", "running", "completed", "error"}
        OBVIOUS
      <4> QED
        BY <3>1, <4>1, <4>2
    <3>3. p.type = "text" /\ p.tool = "" /\ p.status = ""
      OBVIOUS
    <3> HIDE DEF p
    <3> QED
      BY <3>2, <3>3 DEF Parts
  <2>2. transcript' = Append(transcript, [role |-> "user", finish |-> "", parts |-> <<p>>]) /\ UNCHANGED <<shape, job>>
    BY <1>3 DEF UserSpeaks
  <2> HIDE DEF p
  <2>3. <<p>> \in Seq(Parts)
    BY <2>1
  <2> QED
    BY <1>a, <1>b, <2>2, <2>3
<1>4. CASE AssistantBegins
  <2>1. transcript' = Append(transcript, [role |-> "assistant", finish |-> "", parts |-> <<>>]) /\ UNCHANGED <<shape, job>>
    BY <1>4 DEF AssistantBegins
  <2>2. <<>> \in Seq(Parts)
    OBVIOUS
  <2> QED
    BY <1>a, <1>b, <2>1, <2>2
<1>5. Writing => Latest \in DOMAIN transcript /\ Last(transcript) = transcript[Latest] /\ transcript[Latest] \in Messages
  <2>1. transcript # <<>> => Len(transcript) \in DOMAIN transcript /\ transcript[Len(transcript)] \in Messages
    OBVIOUS
  <2> QED
    BY <2>1 DEF Writing, Latest, Last
<1>6. ASSUME NEW p \in PartKinds, PartAppears(p) PROVE TypeInv'
  <2> DEFINE m == transcript[Latest]
             d == [m EXCEPT !.parts = Append(m.parts, p)]
  <2>1. Latest \in DOMAIN transcript /\ m \in Messages
    BY <1>5, <1>6 DEF PartAppears
  <2>2. p \in Parts
    BY CheckShapeAssumption
  <2>5. m.parts \in Seq(Parts)
    BY <2>1 DEF Messages
  <2>6. Append(m.parts, p) \in Seq(Parts)
    BY <2>2, <2>5
  <2>3. d \in Messages
    BY <2>1, <2>6 DEF Messages
  <2>4. transcript' = [transcript EXCEPT ![Latest] = d] /\ UNCHANGED <<shape, job>>
    BY <1>6 DEF PartAppears
  <2> HIDE DEF d, m
  <2> QED
    BY <2>1, <2>3, <2>4
<1>7. ASSUME Writing, NEW i \in DOMAIN Last(transcript).parts, PartCompletes(i) PROVE TypeInv'
  <2> DEFINE m == transcript[Latest]
             p == m.parts[i]
             q == [p EXCEPT !.status = "completed"]
             d == [m EXCEPT !.parts = [m.parts EXCEPT ![i] = q]]
  <2>1. Latest \in DOMAIN transcript /\ m \in Messages /\ Last(transcript) = m
    BY <1>5, <1>7
  <2>2. i \in DOMAIN m.parts /\ m.parts \in Seq(Parts) /\ p \in Parts /\ p.status = "running"
    <3>1. m.parts \in Seq(Parts)
      BY <2>1 DEF Messages
    <3>2. i \in DOMAIN m.parts /\ p.status = "running"
      BY <1>7, <2>1 DEF PartCompletes
    <3> QED
      BY <3>1, <3>2
  <2>3. q \in Parts
    BY <2>2 DEF Parts
  <2>4. transcript' = [transcript EXCEPT ![Latest] = d] /\ UNCHANGED <<shape, job>>
    BY <1>7 DEF PartCompletes
  <2> HIDE DEF q
  <2>5. [m.parts EXCEPT ![i] = q] \in Seq(Parts)
    BY <2>2, <2>3
  <2>6. d \in Messages
    BY <2>1, <2>5 DEF Messages
  <2> HIDE DEF d, m, p
  <2> QED
    BY <2>1, <2>4, <2>6
<1>8. ASSUME NEW finish \in Finishes, AssistantFinishes(finish) PROVE TypeInv'
  <2> DEFINE m == transcript[Latest]
             d == [m EXCEPT !.finish = finish]
  <2>1. Latest \in DOMAIN transcript /\ m \in Messages
    BY <1>5, <1>8 DEF AssistantFinishes
  <2>2. d \in Messages
    BY <2>1 DEF Messages
  <2>3. transcript' = [transcript EXCEPT ![Latest] = d] /\ UNCHANGED <<shape, job>>
    BY <1>8 DEF AssistantFinishes
  <2> HIDE DEF d, m
  <2> QED
    BY <2>1, <2>2, <2>3
<1>9. CASE UNCHANGED vars
  BY <1>9 DEF vars
<1> QED
  BY <1>1, <1>2, <1>3, <1>4, <1>6, <1>7, <1>8, <1>9 DEF Next

LEMMA DocumentKept ==
  ASSUME UNCHANGED <<shape, transcript>>
  PROVE  Document' = Document
  BY DEF Document, MessageDoc, PartList

LEMMA ShownKept ==
  ASSUME TypeInv, ShownInv, [Next]_vars
  PROVE  ShownInv'
<1>1. ASSUME NEW verbose \in Verbose, NEW limit \in Limits, doCheck(verbose, limit) PROVE ShownInv'
  <2> DEFINE D == Document
             status == CheckStatus(D)
  <2>1. D' = D
    BY <1>1, DocumentKept DEF doCheck
  <2>2. shown' = shapeHandoffCheckResult(status, D, verbose, limit)
    BY <1>1 DEF doCheck
  <2>3. verbose \in BOOLEAN /\ limit \in Nat \ {0}
    BY CheckShapeAssumption
  <2> HIDE DEF D
  <2>4. isSessionFinishedJSON(D) => ~ openCodeAssistantContinuing(D)
    BY DEF isSessionFinishedJSON, openCodeAssistantContinuing
  <2>5. status \in {"running", "unknown"} \cup Terminal /\ (status = "done" => ~ openCodeAssistantContinuing(D))
    BY <2>4 DEF CheckStatus, Reconciled, sessionStatus, TypeInv, Terminal
  <2> QED
    BY <2>1, <2>2, <2>3, <2>5 DEF ShownInv, Shows, D
<1>2. CASE shown' = Nothing
  BY <1>2 DEF ShownInv
<1>3. CASE UNCHANGED vars
  <2>1. Document' = Document /\ shown' = shown
    BY <1>3, DocumentKept DEF vars
  <2> QED
    BY <2>1 DEF ShownInv, Shows
<1> QED
  BY <1>1, <1>2, <1>3
     DEF Next, JobMoves, UserSpeaks, AssistantBegins, PartAppears, PartCompletes, AssistantFinishes

-----------------------------------------------------------------------------
(* What is shown *)

LEMMA SpeakingRead ==
  ASSUME shape \in {"WithParts", "flat"}, transcript \in Seq(Messages)
  PROVE  Speaking(collectObjects(Document)) = [i \in 1 .. Len(transcript) |-> MessageDoc(transcript[i])]
<1> DEFINE t == transcript
           n == Len(t)
           B == Blocks(t)
           s == FlattenSeq(B)
           V == {x.value : x \in Items}
           G == [x \in Items |-> IF messageRole(x.value) # "" THEN <<x.value>> ELSE <<>>]
           all == [i \in 1 .. n |-> MessageDoc(t[i])]
<1>1. n \in Nat /\ \A i \in 1 .. n : t[i] \in Messages
  OBVIOUS
<1>2. /\ collectObjects(Document) = AllFound(s)
      /\ B \in [1 .. n -> Seq(Items)] /\ \A i \in 1 .. n : B[i] = Block(t[i])
  BY DocumentWalk DEF Blocks
<1>3. G \in [Items -> Seq(V)] /\ \A x \in Items : G[x] = IF messageRole(x.value) # "" THEN <<x.value>> ELSE <<>>
  <2>1. \A x \in Items : x.value \in V
    OBVIOUS
  <2> HIDE DEF V
  <2>2. \A v \in V : <<v>> \in Seq(V)
    OBVIOUS
  <2>3. <<>> \in Seq(V)
    OBVIOUS
  <2>4. \A x \in Items : (IF messageRole(x.value) # "" THEN <<x.value>> ELSE <<>>) \in Seq(V)
    BY <2>1, <2>2, <2>3
  <2> QED
    BY <2>4
<1>4. s \in Seq(Items)
  <2> HIDE DEF B
  <2> QED
    BY <1>1, <1>2, FlattenTyped
<1> HIDE DEF B, s, V, G, all
<1>5. Speaking(AllFound(s)) = MapJoin(G, s)
  <2> DEFINE a == AllFound(s)
             f == [i \in DOMAIN a |-> IF messageRole(a[i]) # "" THEN <<a[i]>> ELSE <<>>]
             g == [i \in DOMAIN s |-> G[s[i]]]
  <2>1. DOMAIN a = DOMAIN s /\ \A i \in DOMAIN s : a[i] = s[i].value /\ s[i] \in Items
    BY <1>4 DEF AllFound
  <2> HIDE DEF a
  <2>2. f = g
    BY <1>3, <2>1
  <2>3. Speaking(a) = FlattenSeq(f) /\ MapJoin(G, s) = FlattenSeq(g)
    BY DEF Speaking, MapJoin
  <2> QED
    BY <2>2, <2>3, Zenon DEF a
<1>6. MapJoin(G, s) = FlattenSeq(MapEach(G, n, B))
  <2>1. G \in [Items -> Seq(V)] /\ n \in Nat /\ B \in [1 .. n -> Seq(Items)]
    BY <1>1, <1>2, <1>3
  <2> HIDE DEF n
  <2>2. MapJoin(G, FlattenSeq(B)) = FlattenSeq(MapEach(G, n, B))
    BY ONLY <2>1, MapFlatten
  <2> QED
    BY <2>2 DEF s
<1>7. ASSUME NEW m \in Messages PROVE MapJoin(G, Block(m)) = <<MessageDoc(m)>>
  <2> DEFINE b == Block(m)
             f == [j \in DOMAIN b |-> G[b[j]]]
  <2>1. /\ b \in Seq(Items) /\ Len(b) = 1 + Len(m.parts) /\ Len(m.parts) \in Nat
        /\ b[1].value = MessageDoc(m) /\ messageRole(b[1].value) = m.role
        /\ \A j \in 2 .. Len(b) : messageRole(b[j].value) = ""
    BY <1>7, BlockIs
  <2> HIDE DEF b
  <2>2. DOMAIN b = 1 .. Len(b) /\ Len(b) \in Nat /\ \A j \in 1 .. Len(b) : b[j] \in Items
    <3>1. b \in Seq(Items)
      BY <2>1
    <3> QED
      BY <3>1
  <2>3. 1 \in 1 .. Len(b) /\ \A j \in 1 .. Len(b) : j # 1 => j \in 2 .. Len(b)
    <3>1. Len(b) = 1 + Len(m.parts) /\ Len(m.parts) \in Nat
      BY <2>1
    <3> QED
      BY <3>1
  <2>4. m.role # ""
    BY DEF Messages
  <2>5. f[1] = <<MessageDoc(m)>>
    BY <1>3, <2>1, <2>2, <2>3, <2>4
  <2>6. \A j \in 1 .. Len(b) : j # 1 => f[j] = <<>>
    BY <1>3, <2>1, <2>2, <2>3
  <2>7. f \in [1 .. Len(b) -> Seq(V)]
    <3>1. \A j \in 1 .. Len(b) : G[b[j]] \in Seq(V)
      BY <1>3, <2>2
    <3> QED
      BY <2>2, <3>1
  <2>8. MapJoin(G, b) = FlattenSeq(f)
    BY DEF MapJoin
  <2> HIDE DEF f
  <2>9. FlattenSeq(f) = f[1]
    <3>1. PICK k, l : k = 1 /\ l = Len(b)
      OBVIOUS
    <3>2. l \in Nat /\ f \in [1 .. l -> Seq(V)] /\ k \in 1 .. l /\ \A j \in 1 .. l : j # k => f[j] = <<>>
      BY <2>2, <2>3, <2>6, <2>7, <3>1
    <3>3. FlattenSeq(f) = f[k]
      BY ONLY <3>2, FlattenSole, SMTT(30)
    <3> QED
      BY <3>1, <3>3
  <2> QED
    BY <2>5, <2>8, <2>9 DEF b
<1>8. MapEach(G, n, B) = [i \in DOMAIN all |-> <<all[i]>>]
  <2>1. DOMAIN all = 1 .. n /\ \A i \in 1 .. n : all[i] = MessageDoc(t[i])
    BY DEF all
  <2>2. \A i \in 1 .. n : MapJoin(G, B[i]) = <<all[i]>>
    BY <1>1, <1>2, <1>7, <2>1
  <2> QED
    BY <2>1, <2>2 DEF MapEach
<1>9. all \in Seq({MessageDoc(m) : m \in Messages})
  BY <1>1 DEF all
<1>10. FlattenSeq(MapEach(G, n, B)) = all
  BY <1>8, <1>9, FlattenSingles
<1> QED
  BY <1>2, <1>5, <1>6, <1>10 DEF all

LEMMA RecentRead ==
  ASSUME TypeInv
  PROVE  LET shownMessages == summarizeMessages(Document)
             n == Len(shownMessages)
         IN  /\ n = IF Latest < Recent THEN Latest ELSE Recent
             /\ \A i \in 1 .. n : /\ shownMessages[i].id = "msg"
                                  /\ shownMessages[i].role = transcript[Latest - n + i].role
<1> DEFINE all == Speaking(collectObjects(Document))
           off == IF Len(all) > Recent THEN Len(all) - Recent ELSE 0
           last == SubSeq(all, 1 + off, Len(all))
           r == summarizeMessages(Document)
           k == IF Latest < Recent THEN Latest ELSE Recent
<1>1. /\ shape \in {"WithParts", "flat"} /\ transcript \in Seq(Messages)
      /\ Recent \in Nat \ {0}
  BY ShapeKnown, CheckShapeAssumption DEF TypeInv
<1>2. all = [i \in 1 .. Len(transcript) |-> MessageDoc(transcript[i])]
  BY <1>1, SpeakingRead
<1>3. Latest = Len(transcript) /\ Latest \in Nat /\ \A i \in 1 .. Latest : transcript[i] \in Messages
  BY <1>1 DEF Latest
<1>4. Len(all) = Latest /\ \A i \in 1 .. Latest : all[i] = MessageDoc(transcript[i])
  BY <1>2, <1>3
<1>5. \A m \in Messages : messageRole(MessageDoc(m)) = m.role /\ messageID(MessageDoc(m)) = "msg"
  BY <1>1, MessageFields
<1>6. r = [i \in DOMAIN last |->
            [id |-> messageID(last[i]), role |-> messageRole(last[i]), text |-> collectText(last[i])]]
  BY DEF summarizeMessages
<1> HIDE DEF all
<1>7. off = Latest - k /\ off \in Nat /\ k \in Nat /\ off + k = Latest
  <2>1. Recent \in Nat /\ Latest \in Nat /\ Len(all) = Latest
    BY <1>1, <1>3, <1>4
  <2>2. CASE Latest > Recent
    <3>1. off = Latest - Recent /\ k = Recent
      BY <2>1, <2>2
    <3> QED
      BY <2>1, <2>2, <3>1
  <2>3. CASE ~ (Latest > Recent)
    <3>1. off = 0 /\ k = Latest
      BY <2>1, <2>3
    <3> QED
      BY <2>1, <3>1
  <2> QED
    BY <2>2, <2>3
<1> HIDE DEF off, k
<1>8. last = [i \in 1 .. k |-> all[off + i]]
  <2>1. (Len(all) - (1 + off)) + 1 = k /\ \A i \in 1 .. k : ((1 + off) + i) - 1 = off + i
    BY <1>3, <1>4, <1>7
  <2> QED
    BY <1>3, <1>4, <1>7, <2>1
<1>9. DOMAIN last = 1 .. k /\ \A i \in 1 .. k : last[i] = all[off + i]
  BY <1>8
<1> HIDE DEF last
<1>10. DOMAIN r = 1 .. k /\ \A i \in 1 .. k : r[i].id = messageID(last[i]) /\ r[i].role = messageRole(last[i])
  BY <1>6, <1>9
<1>11. Len(r) = k
  <2>1. r = [i \in 1 .. k |-> [id |-> messageID(last[i]), role |-> messageRole(last[i]), text |-> collectText(last[i])]]
    BY <1>6, <1>9
  <2> HIDE DEF r
  <2> QED
    BY <1>7, <2>1
<1>12. ASSUME NEW i \in 1 .. k
       PROVE  r[i].id = "msg" /\ r[i].role = transcript[(Latest - k) + i].role
  <2>1. off + i \in 1 .. Latest /\ (Latest - k) + i = off + i
    BY <1>3, <1>7
  <2>2. last[i] = MessageDoc(transcript[off + i]) /\ transcript[off + i] \in Messages
    BY <1>3, <1>4, <1>9, <2>1
  <2> HIDE DEF r
  <2> QED
    BY <1>5, <1>10, <2>1, <2>2
<1> HIDE DEF r
<1> QED
  BY <1>11, <1>12 DEF k, r

\* A finished latest assistant message is the end of a turn.
LEMMA FinishedTurn ==
  ASSUME TypeInv, NEW n \in DOMAIN transcript, transcript[n].role = "assistant",
         \A k \in n + 1 .. Len(transcript) : transcript[k].role # "assistant",
         messageFinished(MessageDoc(transcript[n]))
  PROVE  TurnFinished(n)
<1>1. /\ shape \in {"WithParts", "flat"} /\ transcript \in Seq(Messages)
  BY ShapeKnown DEF TypeInv
<1>2. transcript[n] \in Messages /\ n \in Nat /\ n >= 1
  BY <1>1
<1>3. messageFinish(MessageDoc(transcript[n])) = transcript[n].finish
  BY <1>1, <1>2, MessageFields
<1>4. transcript[n].finish \notin {"", "tool-calls", "unknown"}
  BY <1>3 DEF messageFinished, isTerminalFinish
<1>5. ASSUME NEW k \in n + 1 .. Latest PROVE transcript[k].role = "user"
  <2>1. k \in n + 1 .. Len(transcript)
    BY DEF Latest
  <2>2. k \in DOMAIN transcript
    BY <1>1, <1>2, <2>1
  <2>3. transcript[k] \in Messages
    BY <1>1, <2>2
  <2> QED
    BY <2>1, <2>3 DEF Messages
<1> QED
  BY <1>4, <1>5 DEF TurnFinished

LEMMA AnswerFrom ==
  ASSUME TypeInv
  PROVE  \/ finalAssistantAnswerText(Document) = ""
         \/ \E n \in DOMAIN transcript :
              /\ TurnFinished(n)
              /\ \E i \in DOMAIN transcript[n].parts :
                   /\ transcript[n].parts[i] \in Parts /\ Answer(transcript[n].parts[i])
                   /\ finalAssistantAnswerText(Document) = transcript[n].parts[i].text
                   /\ \A k \in i + 1 .. Len(transcript[n].parts) : ~ Answer(transcript[n].parts[k])
<1> DEFINE a == finalAssistantAnswerText(Document)
           l == LatestAssistant(Document)
<1>1. /\ shape \in {"WithParts", "flat"} /\ transcript \in Seq(Messages)
  BY ShapeKnown DEF TypeInv
<1>2. a = IF l = <<>> \/ ~ messageFinished(Head(l)) THEN "" ELSE assistantAnswerText(Head(l))
  BY DEF finalAssistantAnswerText
<1>3. CASE l = <<>>
  BY <1>2, <1>3
<1>4. ASSUME NEW n \in DOMAIN transcript, transcript[n].role = "assistant",
             \A k \in n + 1 .. Len(transcript) : transcript[k].role # "assistant",
             l = <<MessageDoc(transcript[n])>>, a # ""
      PROVE  /\ TurnFinished(n)
             /\ \E i \in DOMAIN transcript[n].parts :
                  /\ transcript[n].parts[i] \in Parts /\ Answer(transcript[n].parts[i])
                  /\ a = transcript[n].parts[i].text
                  /\ \A k \in i + 1 .. Len(transcript[n].parts) : ~ Answer(transcript[n].parts[k])
  <2> DEFINE m == transcript[n]
  <2>1. Head(l) = MessageDoc(m)
    <3>1. Head(<<MessageDoc(m)>>) = MessageDoc(m)
      OBVIOUS
    <3> QED
      BY <1>4, <3>1, Zenon
  <2>2. messageFinished(MessageDoc(m)) /\ a = assistantAnswerText(MessageDoc(m))
    BY <1>2, <1>4, <2>1
  <2>3. TurnFinished(n)
    BY <1>4, <2>2, FinishedTurn
  <2>4. m \in Messages
    BY <1>1
  <2>5. PICK i \in 1 .. Len(m.parts) : /\ Answer(m.parts[i])
                                      /\ assistantAnswerText(MessageDoc(m)) = m.parts[i].text
                                      /\ \A k \in i + 1 .. Len(m.parts) : ~ Answer(m.parts[k])
    BY <1>1, <1>4, <2>2, <2>4, AnswerTextRead
  <2>6. i \in DOMAIN m.parts /\ m.parts[i] \in Parts
    <3>1. m.parts \in Seq(Parts)
      BY <2>4 DEF Messages
    <3> QED
      BY <3>1
  <2> QED
    BY <2>2, <2>3, <2>5, <2>6
<1> HIDE DEF a, l
<1>5. \/ l = <<>>
      \/ \E n \in DOMAIN transcript :
           /\ transcript[n].role = "assistant"
           /\ \A k \in n + 1 .. Len(transcript) : transcript[k].role # "assistant"
           /\ l = <<MessageDoc(transcript[n])>>
  BY <1>1, LatestRead DEF l
<1>6. CASE l # <<>> /\ a # ""
  <2>1. PICK n \in DOMAIN transcript :
           /\ transcript[n].role = "assistant"
           /\ \A k \in n + 1 .. Len(transcript) : transcript[k].role # "assistant"
           /\ l = <<MessageDoc(transcript[n])>>
    BY <1>5, <1>6
  <2>2. /\ TurnFinished(n)
        /\ \E i \in DOMAIN transcript[n].parts :
             /\ transcript[n].parts[i] \in Parts /\ Answer(transcript[n].parts[i])
             /\ a = transcript[n].parts[i].text
             /\ \A k \in i + 1 .. Len(transcript[n].parts) : ~ Answer(transcript[n].parts[k])
    BY <1>4, <1>6, <2>1
  <2> QED
    BY <2>2 DEF a
<1> QED
  BY <1>3, <1>6 DEF a

LEMMA AnswerSpelled ==
  ASSUME TypeInv
  PROVE  Spelling[finalAssistantAnswerText(Document)] \in Seq(Runes)
<1>1. finalAssistantAnswerText(Document) \in DOMAIN Spelling
  <2>1. \A p \in Parts : p.text \in DOMAIN Spelling
    BY DEF Parts
  <2>2. "" \in DOMAIN Spelling
    BY CheckShapeAssumption
  <2> QED
    BY <2>1, <2>2, AnswerFrom
<1> QED
  BY <1>1, CheckShapeAssumption

LEMMA ShownFields ==
  ASSUME NEW status, NEW verbose, NEW limit, Shows(status, verbose, limit)
  PROVE  /\ shown.status = status /\ shown.verbose = verbose /\ shown.limit = limit
         /\ shown.messages = IF verbose THEN summarizeMessages(Document) ELSE <<>>
         /\ shown.final = IF status \in {"running", "unknown"} THEN NoText
                          ELSE truncateTextMarked(Spelling[finalAssistantAnswerText(Document)], limit)
  BY DEF Shows, shapeHandoffCheckResult

LEMMA NothingShown ==
  ASSUME shown = Nothing
  PROVE  FinalTextIsTheAnswer /\ MarkedWhenShortened /\ DoneShownWhenFinished /\ RecentMessagesShown
<1>1. shown.final.text = <<>> /\ shown.status = "none" /\ shown.verbose = FALSE
  BY DEF Nothing, NoText
<1> QED
  BY <1>1 DEF FinalTextIsTheAnswer, MarkedWhenShortened, DoneShownWhenFinished, RecentMessagesShown

LEMMA AnswerShown ==
  ASSUME TypeInv, NEW status \in {"running", "unknown"} \cup Terminal, NEW verbose, NEW limit \in Nat \ {0},
         Shows(status, verbose, limit)
  PROVE  FinalTextIsTheAnswer /\ MarkedWhenShortened
<1> DEFINE a == finalAssistantAnswerText(Document)
           s == Spelling[a]
           c == truncateTextMarked(s, limit)
<1>1. /\ shown.status = status /\ shown.limit = limit
      /\ shown.final = IF status \in {"running", "unknown"} THEN NoText ELSE c
  BY ShownFields
<1>2. s \in Seq(Runes)
  BY AnswerSpelled
<1> HIDE DEF s
<1>3. /\ c.truncated \in BOOLEAN /\ (c.truncated <=> Len(s) > limit)
      /\ c.text = IF Len(s) > limit THEN SubSeq(s, 1, limit) \o Dots ELSE s
      /\ s # <<>> => c.text[1] = s[1]
      /\ s = <<>> => c.text = <<>>
  BY <1>2, CutMarked
<1> HIDE DEF c
<1>4. ASSUME shown.final.text # <<>>
      PROVE  status \in Terminal /\ shown.final = c /\ s # <<>>
  <2>1. NoText.text = <<>>
    BY DEF NoText
  <2>2. status \notin {"running", "unknown"} /\ shown.final = c
    BY <1>1, <1>4, <2>1
  <2> QED
    BY <1>3, <1>4, <2>2
<1>5. s # <<>> => a # ""
  BY CheckShapeAssumption DEF s
<1>6. FinalTextIsTheAnswer
  <2> SUFFICES ASSUME shown.final.text # <<>>
               PROVE  /\ shown.status \in Terminal
                      /\ \E n \in DOMAIN transcript :
                           LET parts == transcript[n].parts IN
                           /\ TurnFinished(n)
                           /\ \E i \in DOMAIN parts :
                                /\ Answer(parts[i])
                                /\ \A k \in i + 1 .. Len(parts) : ~ Answer(parts[k])
                                /\ shown.final.text[1] = Spelling[parts[i].text][1]
    BY DEF FinalTextIsTheAnswer
  <2>1. status \in Terminal /\ shown.final = c /\ s # <<>> /\ a # "" /\ c.text[1] = s[1]
    BY <1>3, <1>4, <1>5
  <2>2. PICK n \in DOMAIN transcript :
              /\ TurnFinished(n)
              /\ \E i \in DOMAIN transcript[n].parts :
                   /\ transcript[n].parts[i] \in Parts /\ Answer(transcript[n].parts[i])
                   /\ a = transcript[n].parts[i].text
                   /\ \A k \in i + 1 .. Len(transcript[n].parts) : ~ Answer(transcript[n].parts[k])
    BY <2>1, AnswerFrom
  <2> HIDE DEF a
  <2>3. PICK i \in DOMAIN transcript[n].parts :
           /\ Answer(transcript[n].parts[i]) /\ a = transcript[n].parts[i].text
           /\ \A k \in i + 1 .. Len(transcript[n].parts) : ~ Answer(transcript[n].parts[k])
    BY <2>2
  <2>4. shown.final.text[1] = Spelling[transcript[n].parts[i].text][1]
    BY <2>1, <2>3 DEF s
  <2> QED
    BY <1>1, <2>1, <2>2, <2>3, <2>4
<1>7. MarkedWhenShortened
  <2> SUFFICES ASSUME shown.final.text # <<>>
               PROVE  LET answer == Spelling[finalAssistantAnswerText(Document)]
                          cut    == TruncateFinalText(answer, shown.limit)
                      IN  /\ shown.final.truncated <=> Len(answer) > shown.limit
                          /\ shown.final.text = IF shown.final.truncated THEN cut.text \o Dots ELSE answer
                          /\ shown.final.truncated = cut.truncated
    BY DEF MarkedWhenShortened
  <2>1. shown.final = c /\ shown.limit = limit
    BY <1>1, <1>4
  <2> DEFINE cut == TruncateFinalText(s, limit)
  <2>2. Len(s) \in Nat /\ limit \in Nat
    BY <1>2
  <2>3. CASE Len(s) > limit
    <3>1. cut = [text |-> SubSeq(s, 1, limit), truncated |-> TRUE]
      BY <2>2, <2>3 DEF TruncateFinalText
    <3>2. cut.text = SubSeq(s, 1, limit) /\ cut.truncated = TRUE
      BY <3>1
    <3>3. c.truncated = TRUE /\ c.text = SubSeq(s, 1, limit) \o Dots
      BY <1>3, <2>3
    <3> HIDE DEF cut
    <3>4. /\ c.truncated <=> Len(s) > limit
          /\ c.text = IF c.truncated THEN cut.text \o Dots ELSE s
          /\ c.truncated = cut.truncated
      BY <2>3, <3>2, <3>3
    <3> QED
      BY <2>1, <3>4 DEF cut, s
  <2>4. CASE ~ (Len(s) > limit)
    <3>1. cut = [text |-> s, truncated |-> FALSE]
      BY <2>2, <2>4 DEF TruncateFinalText
    <3>2. cut.truncated = FALSE
      BY <3>1
    <3>3. c.truncated = FALSE /\ c.text = s
      BY <1>3, <2>4
    <3> HIDE DEF cut
    <3>4. /\ c.truncated <=> Len(s) > limit
          /\ c.text = IF c.truncated THEN cut.text \o Dots ELSE s
          /\ c.truncated = cut.truncated
      BY <2>4, <3>2, <3>3
    <3> QED
      BY <2>1, <3>4 DEF cut, s
  <2> QED
    BY <2>3, <2>4
<1> QED
  BY <1>6, <1>7

LEMMA DoneShown ==
  ASSUME TypeInv, NEW status, NEW verbose, NEW limit, Shows(status, verbose, limit)
  PROVE  DoneShownWhenFinished
<1> SUFFICES ASSUME shown.status = "done", \E n \in DOMAIN transcript : transcript[n].role = "assistant"
             PROVE  \E n \in DOMAIN transcript : TurnFinished(n)
  BY DEF DoneShownWhenFinished
<1> DEFINE l == LatestAssistant(Document)
<1>1. shape \in {"WithParts", "flat"} /\ transcript \in Seq(Messages)
  BY ShapeKnown DEF TypeInv
<1>2. ~ openCodeAssistantContinuing(Document)
  <2>1. shown.status = status
    BY ShownFields
  <2> QED
    BY <2>1 DEF Shows
<1>3. l = <<>> \/ messageFinished(Head(l))
  BY <1>2 DEF openCodeAssistantContinuing
<1> HIDE DEF l
<1>4. PICK n \in DOMAIN transcript :
         /\ transcript[n].role = "assistant"
         /\ \A k \in n + 1 .. Len(transcript) : transcript[k].role # "assistant"
         /\ l = <<MessageDoc(transcript[n])>>
  BY <1>1, LatestRead DEF l
<1>5. messageFinished(MessageDoc(transcript[n]))
  <2> DEFINE M == MessageDoc(transcript[n])
  <2> HIDE DEF M
  <2>1. l = <<M>>
    BY <1>4 DEF M
  <2>2. l # <<>> /\ Head(l) = M
    BY <2>1
  <2> QED
    BY <1>3, <2>2 DEF M
<1> QED
  BY <1>4, <1>5, FinishedTurn

LEMMA RecentShown ==
  ASSUME TypeInv, NEW status, NEW verbose \in BOOLEAN, NEW limit, Shows(status, verbose, limit)
  PROVE  RecentMessagesShown
<1> SUFFICES ASSUME shown.verbose
             PROVE  LET n == Len(shown.messages) IN
                    /\ n = IF Latest < Recent THEN Latest ELSE Recent
                    /\ \A i \in 1 .. n : /\ shown.messages[i].id = "msg"
                                         /\ shown.messages[i].role = transcript[Latest - n + i].role
  BY DEF RecentMessagesShown
<1>1. shown.messages = summarizeMessages(Document)
  BY ShownFields
<1> QED
  BY <1>1, RecentRead, Zenon

-----------------------------------------------------------------------------
(* Theorems *)

LEMMA Starts ==
  ASSUME Init
  PROVE  TypeInv /\ ShownInv
<1>1. <<>> \in Seq(Messages)
  OBVIOUS
<1> QED
  BY <1>1 DEF Init, TypeInv, ShownInv

LEMMA Invariant == Spec => [](TypeInv /\ ShownInv)
<1>1. TypeInv /\ ShownInv /\ [Next]_vars => (TypeInv /\ ShownInv)'
  BY TypeKept, ShownKept
<1> QED
  BY Starts, <1>1, PTL DEF Spec

LEMMA WhatIsShown ==
  ASSUME TypeInv, ShownInv
  PROVE  FinalTextIsTheAnswer /\ MarkedWhenShortened /\ DoneShownWhenFinished /\ RecentMessagesShown
<1>1. CASE shown = Nothing
  BY <1>1, NothingShown
<1>2. ASSUME NEW status \in {"running", "unknown"} \cup Terminal, NEW verbose \in BOOLEAN, NEW limit \in Nat \ {0},
             Shows(status, verbose, limit)
      PROVE  FinalTextIsTheAnswer /\ MarkedWhenShortened /\ DoneShownWhenFinished /\ RecentMessagesShown
  BY <1>2, AnswerShown, DoneShown, RecentShown
<1> QED
  BY <1>1, <1>2 DEF ShownInv

\* A final text is the last answer of a finished latest message, shown with a
\* settled status: finalAssistantAnswerText looks at the latest assistant
\* message of whatever collectObjects finds, parts and all.
THEOREM AnswerOnly == Spec => []FinalTextIsTheAnswer
<1>1. TypeInv /\ ShownInv => FinalTextIsTheAnswer
  BY WhatIsShown
<1> QED
  BY Invariant, <1>1, PTL

\* truncateTextMarked cuts where the runner cuts, and marks exactly what it
\* cut, for every limit and every text, of runes of any number of bytes.
THEOREM CutIsMarked == Spec => []MarkedWhenShortened
<1>1. TypeInv /\ ShownInv => MarkedWhenShortened
  BY WhatIsShown
<1> QED
  BY Invariant, <1>1, PTL

\* doCheck says done only at the end of a turn, whatever the tracked job says.
THEOREM DoneAtTheEnd == Spec => []DoneShownWhenFinished
<1>1. TypeInv /\ ShownInv => DoneShownWhenFinished
  BY WhatIsShown
<1> QED
  BY Invariant, <1>1, PTL

\* summarizeMessages shows the latest messages, whatever their number and that
\* of their parts.
THEOREM RecentOnly == Spec => []RecentMessagesShown
<1>1. TypeInv /\ ShownInv => RecentMessagesShown
  BY WhatIsShown
<1> QED
  BY Invariant, <1>1, PTL
=============================================================================
