------------------------------ MODULE Schemas ------------------------------
(***************************************************************************)
(* What the code that ogen generates for a type of the API does with a     *)
(* JSON document: Decode, Validate, and Encode of what was decoded.  A     *)
(* type is a schema for Decode and a rule for Validate; both are met or    *)
(* not at each place of a document, and so a document is walked with its   *)
(* schema, or with its rule, beside it.                                    *)
(***************************************************************************)
EXTENDS Json

CONSTANT Identifiers      \* of each prefix, the identifiers that begin with it

IdPrefixes == {"ses", "msg", "prt", "per", "que", "wrk"}

ASSUME IdentifiersAssumption ==
    \A p \in IdPrefixes : p \in DOMAIN Identifiers /\ "" \notin Identifiers[p]

True   == [k |-> "bool", v |-> "true"]
Broken == [k |-> "broken", v |-> ""]      \* not JSON

Str     == [t |-> "str"]       \* of an enumeration too: Validate knows its values
Num     == [t |-> "num"]
Integer == [t |-> "int"]
Bool    == [t |-> "bool"]
Raw     == [t |-> "raw"]

Arr(s)      == [t |-> "arr", of |-> s]
Dict(s)     == [t |-> "dict", of |-> s]
Nullable(s) == [t |-> "nullable", of |-> s]

\* An object with its required and its optional fields.  Another field is
\* refused, skipped, or kept as it is.
Object(rest, req, opt) == [t |-> "obj", rest |-> rest, req |-> req, opt |-> opt]
Strict(req, opt)       == Object("refuse", req, opt)
Skipping               == Object("skip", NoFields, NoFields)
Keeping(req, opt)      == Object("keep", req, opt)

Known(s)    == DOMAIN s.req \cup DOMAIN s.opt
Field(s, n) == IF n \in DOMAIN s.req THEN s.req[n] ELSE s.opt[n]

\* Rules.  An optional that is absent or null has no value to look at.
Anything       == [t |-> "any"]
NonNil         == Anything      \* a slice: Decode leaves none nil
Finite         == Anything      \* no number of a document is not
Positive       == Nullable([t |-> "positive"])
NotNegative    == Nullable([t |-> "notNegative"])
OneOf(values)  == Nullable([t |-> "oneOf", values |-> values])
Prefix(prefix) == Nullable([t |-> "prefix", prefix |-> prefix])
Each(r)        == Nullable(Arr(r))
Rules(r)       == Nullable(Keeping(NoFields, r))

-----------------------------------------------------------------------------
NonNull(s) == IF s.t = "nullable" THEN s.of ELSE s

\* A value that is met, by itself and not for what is in it.
FitsNonNull(s, d) ==
    \/ s.t = "any"
    \/ s.t = "str" /\ d.k = "str"
    \/ s.t = "num" /\ d.k = "num"
    \/ s.t = "int" /\ d.k = "num" /\ d.v # "frac"
    \/ s.t = "bool" /\ d.k = "bool"
    \/ s.t = "raw" /\ d.k # "broken"
    \/ s.t = "arr" /\ d.k = "arr"
    \/ s.t = "dict" /\ d.k = "obj"
    \/ /\ s.t = "obj" /\ d.k = "obj"
       /\ DOMAIN s.req \subseteq DOMAIN d.f
       /\ s.rest = "refuse" => DOMAIN d.f \subseteq Known(s)
    \/ s.t = "positive" /\ d.k = "num" /\ d.v \notin {"zero", "neg"}
    \/ s.t = "notNegative" /\ d.k = "num" /\ d.v # "neg"
    \/ s.t = "oneOf" /\ d.k = "str" /\ d.v \in s.values
    \/ s.t = "prefix" /\ d.k = "str" /\ d.v \in Identifiers[s.prefix]

Fits(s, d) == (s.t = "nullable" /\ d.k = "null") \/ FitsNonNull(NonNull(s), d)

\* The values in d, each with its type.
Inside(s, d) ==
    LET t == NonNull(s) IN
    CASE t.t = "arr" /\ d.k = "arr"  -> {<<t.of, d.a[i]>> : i \in DOMAIN d.a}
      [] t.t = "dict" /\ d.k = "obj" -> {<<t.of, d.f[n]>> : n \in DOMAIN d.f}
      [] t.t = "obj" /\ d.k = "obj"  -> {<<Field(t, n), d.f[n]>> : n \in DOMAIN d.f \cap Known(t)}
      [] OTHER -> {}

Below(met) == UNION {Inside(m[1], m[2]) : m \in met}

\* All that is met in d, level by level.
Met(s, d) ==
    LET level[n \in 0 .. Depth] == IF n = 0 THEN {<<s, d>>} ELSE Below(level[n - 1])
    IN  UNION {level[n] : n \in 0 .. Depth}

Decodes(s, d)   == \A m \in Met(s, d) : Fits(m[1], m[2])
Validates(r, d) == \A m \in Met(r, d) : Fits(m[1], m[2])

-----------------------------------------------------------------------------
(* Encode, from the values within to the whole *)

\* Mutant: unknown fields are dropped.
KnownRebuilt(s, d, within) ==
    LET t == NonNull(s) IN
    CASE t.t = "arr" /\ d.k = "arr" -> JArr([i \in DOMAIN d.a |-> within[<<t.of, d.a[i]>>]])
      [] t.t = "obj" /\ d.k = "obj" ->
            JObj([n \in DOMAIN d.f \cap Known(t) |-> within[<<Field(t, n), d.f[n]>>]])
      [] OTHER -> d
Rebuilt(s, d, within) ==
    LET t == NonNull(s) IN
    CASE t.t = "arr" /\ d.k = "arr" -> JArr([i \in DOMAIN d.a |-> within[<<t.of, d.a[i]>>]])
      [] t.t = "obj" /\ d.k = "obj" ->
            LET kept == IF t.rest = "keep" THEN DOMAIN d.f ELSE DOMAIN d.f \cap Known(t)
            IN  JObj([n \in kept |-> IF n \in Known(t) THEN within[<<Field(t, n), d.f[n]>>] ELSE d.f[n]])
      [] OTHER -> d

\* Encode of what d was decoded to.
Encoded(s, d) ==
    LET met == Met(s, d)
        encoded[n \in 0 .. Depth] ==
            [m \in met |-> IF n = 0 THEN m[2] ELSE Rebuilt(m[1], m[2], encoded[n - 1])]
    IN  encoded[Depth][<<s, d>>]
=============================================================================
