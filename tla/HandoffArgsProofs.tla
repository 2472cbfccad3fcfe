------------------------- MODULE HandoffArgsProofs -------------------------
(* Theorems about HandoffArgs, whatever values callers give. *)
EXTENDS HandoffArgs, SequenceTheorems, WellFoundedInduction, TLAPS

\* What a call has passed, by where it is.
ArgsInv ==
    /\ options \in Options
    /\ pc \in {"called", "prepared"} => session = NoSession
    /\ pc \in {"prepared", "created"} => PrepareOK
    /\ pc = "failed" /\ session # NoSession => ~KeyOK
    /\ session # NoSession => session = sessionRequest /\ permissionFor # Refused

LEMMA InitArgs == Init => ArgsInv
  BY DEF Init, ArgsInv

\* What prepareExecute lets through createSession does not refuse.
LEMMA PreparedCreates == PrepareOK => CreateOK /\ permissionFor # Refused
  BY DEF PrepareOK, CreateOK, SessionRequestOK

\* Nor does submitFire, but for the length of the key.
LEMMA PreparedSubmits == PrepareOK /\ KeyOK => SubmitOK
  BY DEF PrepareOK, SubmitOK

\* The operators that only read the arguments and the defaults.
LEMMA SameArgs ==
  ASSUME UNCHANGED <<args, options, managed, local>>
  PROVE  /\ (PrepareOK <=> PrepareOK') /\ (KeyOK <=> KeyOK')
         /\ sessionRequest' = sessionRequest /\ permissionFor' = permissionFor
<1>1. permissionFor' = permissionFor /\ modelFor' = modelFor /\ AgentFor(args.agent)' = AgentFor(args.agent)
  BY DEF permissionFor, modelFor, Named, Pair, AgentFor
<1>2. SessionRequestOK' = SessionRequestOK
  BY <1>1 DEF SessionRequestOK
<1>3. sessionRequest' = sessionRequest
  BY <1>1 DEF sessionRequest
<1>4. /\ WaitOK' = WaitOK /\ ProfileOK' = ProfileOK /\ ParseModeOK' = ParseModeOK
      /\ submitOptionsOK' = submitOptionsOK /\ DirectoryOK' = DirectoryOK
      /\ PromptOK' = PromptOK /\ FinalCharsOK' = FinalCharsOK /\ KeyOK' = KeyOK
  BY DEF WaitOK, Async, ProfileOK, applyExecuteProfile, ParseModeOK, submitOptionsOK, WithinLimit,
         DirectoryOK, PromptOK, FinalCharsOK, KeyOK
<1> QED
  BY <1>1, <1>2, <1>3, <1>4 DEF PrepareOK

LEMMA NextArgs == ArgsInv /\ [Next]_vars => ArgsInv'
<1> SUFFICES ASSUME ArgsInv, [Next]_vars PROVE ArgsInv'
  OBVIOUS
<1>1. UNCHANGED <<args, options, managed, local>>
  BY DEF Next, prepareExecute, createSession, submitFire, Fails, vars
<1>2. /\ (PrepareOK <=> PrepareOK') /\ (KeyOK <=> KeyOK')
      /\ sessionRequest' = sessionRequest /\ permissionFor' = permissionFor
  BY <1>1, SameArgs
<1>3. CASE prepareExecute
  BY <1>1, <1>2, <1>3 DEF prepareExecute, Fails, ArgsInv
<1>4. CASE createSession
  BY <1>1, <1>2, <1>4, PreparedCreates DEF createSession, Fails, ArgsInv
<1>5. CASE submitFire
  BY <1>1, <1>2, <1>5, PreparedSubmits DEF submitFire, Fails, ArgsInv
<1>6. CASE UNCHANGED vars
  BY <1>1, <1>2, <1>6 DEF vars, ArgsInv
<1> QED
  BY <1>3, <1>4, <1>5, <1>6 DEF Next

LEMMA ArgsHold == Spec => []ArgsInv
  BY InitArgs, NextArgs, PTL DEF Spec

\* What a call fails on was found out before anything was created, for any
\* arguments of any values, but for the length of the key.
THEOREM NothingLeft == Spec => []NothingLeftOnBadInput
<1>1. ArgsInv => NothingLeftOnBadInput
  BY DEF ArgsInv, NothingLeftOnBadInput
<1> QED
  BY <1>1, ArgsHold, PTL

-----------------------------------------------------------------------------
(* Permissions *)

LEMMA ActionOfMode ==
  ASSUME NEW value
  PROVE  /\ action(ParsePermissionMode(value)) = "allow" <=> value \in {"yolo", "allow"}
         /\ value \in {"ask", "deny"} => action(ParsePermissionMode(value)) = value
         /\ action(ParsePermissionMode(value)) = "none" <=> value \notin {"ask", "deny", "yolo", "allow"}
  BY DEF action, ParsePermissionMode, Refused

\* OpenCode acts without asking only if this call, or the operator in its place
\* or in the server's configuration, says so; a refusal asked for is in force.
THEOREM NothingUnwanted == Spec => []NoUnwantedPermission
<1>1. ASSUME ArgsInv, session # NoSession PROVE NoUnwantedPermission
  <2>1. session.action = action(permissionFor)
    BY <1>1 DEF ArgsInv, sessionRequest
  <2>2. options.permission \in {"", "inherit", "ask", "deny", "yolo"}
    BY <1>1 DEF ArgsInv, Options
  <2>3. local => localEnvironment = action(ParsePermissionMode(options.permission))
    BY DEF localEnvironment
  <2>4. ~local => localEnvironment = "none"
    BY DEF localEnvironment
  <2>5. CASE args.permission = ""
    <3>1. permissionFor = ParsePermissionMode(options.permission)
      BY <2>5 DEF permissionFor
    <3>2. InForce = "allow" <=> options.permission = "yolo"
      BY <2>1, <2>2, <2>3, <2>4, <3>1, ActionOfMode DEF InForce
    <3> QED
      BY <2>5, <3>2 DEF NoUnwantedPermission
  <2>6. CASE args.permission # ""
    <3>1. session.action = action(ParsePermissionMode(args.permission))
      BY <2>1, <2>6 DEF permissionFor
    <3>2. CASE session.action = "none"
      <4>1. args.permission \notin {"ask", "deny", "yolo", "allow"}
        BY <3>1, <3>2, ActionOfMode
      <4>2. args.permission = "inherit"
        <5>1. permissionFor # Refused
          BY <1>1 DEF ArgsInv
        <5> QED
          BY <2>6, <4>1, <5>1 DEF permissionFor, ParsePermissionMode
      <4>3. InForce = localEnvironment
        BY <3>2 DEF InForce
      <4>4. InForce = "allow" <=> local /\ options.permission = "yolo"
        BY <2>2, <2>3, <2>4, <4>3, ActionOfMode
      <4> QED
        BY <4>1, <4>2, <4>4 DEF NoUnwantedPermission
    <3>3. CASE session.action # "none"
      <4>1. InForce = session.action /\ args.permission \in {"ask", "deny", "yolo", "allow"}
        BY <3>1, <3>3, ActionOfMode DEF InForce
      <4>2. /\ InForce = "allow" <=> args.permission \in {"yolo", "allow"}
            /\ args.permission \in {"ask", "deny"} => InForce = args.permission
        BY <3>1, <4>1, ActionOfMode
      <4> QED
        BY <2>6, <4>1, <4>2 DEF NoUnwantedPermission
    <3> QED
      BY <3>2, <3>3
  <2> QED
    BY <2>5, <2>6
<1>2. ArgsInv => NoUnwantedPermission
  BY <1>1 DEF NoUnwantedPermission
<1> QED
  BY <1>2, ArgsHold, PTL

-----------------------------------------------------------------------------
(* Type correctness *)

LEMMA InitType == Init => TypeOK
<1> SUFFICES ASSUME Init PROVE TypeOK
  OBVIOUS
<1>1. DOMAIN args = Fields
  BY DEF Init, Ordinary, Fields
<1>2. NoModel # BadModel
  BY DEF NoModel, BadModel
<1> QED
  BY <1>1, <1>2 DEF Init, TypeOK, NotPrepared, NoSession, maxFinalTextChars

LEMMA LimitKept ==
  ASSUME NEW maximum \in Nat, NEW default \in 0 .. maximum, NEW value \in 0 .. maximum
  PROVE  boundedLimit(value, default, maximum) \in 0 .. maximum
<1>1. ~(value < 0 \/ value > maximum)
  OBVIOUS
<1>2. boundedLimit(value, default, maximum) = IF value = 0 THEN default ELSE value
  BY <1>1, Zenon DEF boundedLimit
<1> QED
  BY <1>2, Zenon

LEMMA NextType == TypeOK /\ [Next]_vars => TypeOK'
<1> SUFFICES ASSUME TypeOK, [Next]_vars PROVE TypeOK'
  OBVIOUS
<1>1. ASSUME prepareExecute PROVE TypeOK'
  <2>1. CASE Fails
    BY <1>1, <2>1 DEF TypeOK, Fails
  <2>2. ASSUME PrepareOK, pc' = "prepared",
               prepared' = [wait |-> resolveExecuteWaitSeconds,
                            finalChars |-> boundedLimit(args.finalChars, defaultFinalTextChars, maxFinalTextChars),
                            suffix |-> applyExecuteProfile],
               UNCHANGED <<args, options, managed, local, session, job>>
        PROVE  TypeOK'
    <3>1. resolveExecuteWaitSeconds \in 0 .. 300
      BY <2>2 DEF PrepareOK, WaitOK, resolveExecuteWaitSeconds
    <3>2. FinalCharsOK
      BY <2>2 DEF PrepareOK
    <3>3. args.finalChars \in 0 .. maxFinalTextChars
      BY <3>2 DEF FinalCharsOK, WithinLimit
    <3>4. maxFinalTextChars \in Nat /\ defaultFinalTextChars \in 0 .. maxFinalTextChars
      BY DEF maxFinalTextChars, defaultFinalTextChars
    <3>5. boundedLimit(args.finalChars, defaultFinalTextChars, maxFinalTextChars)
            \in 0 .. maxFinalTextChars
      BY <3>3, <3>4, LimitKept, Zenon
    <3> QED
      BY <2>2, <3>1, <3>5 DEF TypeOK
  <2> QED
    BY <1>1, <2>1, <2>2 DEF prepareExecute
<1>2. ASSUME createSession PROVE TypeOK'
  <2>1. CASE Fails
    BY <1>2, <2>1 DEF TypeOK, Fails
  <2>2. ASSUME CreateOK, pc' = "created", session' = sessionRequest,
               UNCHANGED <<args, options, managed, local, prepared, job>>
        PROVE  TypeOK'
    <3>1. session'.model # BadModel
      BY <2>2 DEF CreateOK, SessionRequestOK, sessionRequest
    <3>2. session'.action \in {"none", "ask", "deny", "allow"}
      BY <2>2 DEF sessionRequest, action
    <3> QED
      BY <2>2, <3>1, <3>2 DEF TypeOK
  <2> QED
    BY <1>2, <2>1, <2>2 DEF createSession
<1>3. CASE submitFire
  BY <1>3 DEF submitFire, Fails, TypeOK
<1>4. CASE UNCHANGED vars
  BY <1>4 DEF vars, TypeOK
<1> QED
  BY <1>1, <1>2, <1>3, <1>4 DEF Next

\* What was prepared keeps its limits, and no session is created for a model
\* that could not be read.
THEOREM TypeCorrect == Spec => []TypeOK
  BY InitType, NextType, PTL DEF Spec

-----------------------------------------------------------------------------
(* Model selectors: numbers and places in a text *)

LEMMA LeastNatural ==
  ASSUME NEW T \in SUBSET Nat, T # {}
  PROVE  \E x \in T : \A y \in T : x <= y
<1> DEFINE R == OpToRel(<, Nat)
<1>1. IsWellFoundedOn(R, Nat)
  BY NatLessThanWellFounded
<1>2. \A x, y \in Nat : y < x => <<y, x>> \in R
  BY DEF OpToRel
<1> HIDE DEF R
<1>3. \E x \in T : \A y \in T : ~ (<<y, x>> \in R)
  BY <1>1, WFMin
<1>4. PICK x \in T : \A y \in T : ~ (<<y, x>> \in R)
  BY <1>3
<1>5. \A y \in T : y \in Nat /\ ~ (y < x)
  BY <1>2, <1>4
<1> QED
  BY <1>4, <1>5

LEMMA MinOfPlaces ==
  ASSUME NEW n \in Nat, NEW T \in SUBSET (1 .. n), T # {}
  PROVE  Min(T) \in T /\ \A y \in T : Min(T) <= y
<1>1. T \in SUBSET Nat
  OBVIOUS
<1>2. \E x \in T : \A y \in T : x <= y
  BY <1>1, LeastNatural
<1> QED
  BY <1>2 DEF Min

LEMMA MaxOfPlaces ==
  ASSUME NEW n \in Nat, NEW T \in SUBSET (1 .. n), T # {}
  PROVE  Max(T) \in T /\ \A y \in T : y <= Max(T)
<1> DEFINE U == {n - x : x \in T}
<1>0. \A x \in T : x \in Nat /\ x <= n /\ n - x \in Nat
  OBVIOUS
<1>1. U \in SUBSET Nat /\ U # {}
  BY <1>0
<1>2. PICK u \in U : \A v \in U : u <= v
  BY <1>1, LeastNatural
<1>3. PICK x \in T : u = n - x
  BY <1>2
<1>4. \A y \in T : n - x <= n - y
  BY <1>2, <1>3
<1>5. \E z \in T : \A y \in T : z >= y
  BY <1>4
<1> QED
  BY <1>5 DEF Max

\* The least place is the one that none is less than.
LEMMA MinIs ==
  ASSUME NEW n \in Nat, NEW T \in SUBSET (1 .. n), NEW x \in T, \A y \in T : x <= y
  PROVE  Min(T) = x
<1>1. Min(T) \in T /\ \A y \in T : Min(T) <= y
  BY MinOfPlaces
<1>2. Min(T) \in 1 .. n /\ x \in 1 .. n
  BY <1>1
<1>3. Min(T) <= x /\ x <= Min(T)
  BY <1>1
<1> QED
  BY <1>2, <1>3

LEMMA MaxIs ==
  ASSUME NEW n \in Nat, NEW T \in SUBSET (1 .. n), NEW x \in T, \A y \in T : y <= x
  PROVE  Max(T) = x
<1>1. Max(T) \in T /\ \A y \in T : y <= Max(T)
  BY MaxOfPlaces
<1>2. Max(T) \in 1 .. n /\ x \in 1 .. n
  BY <1>1
<1>3. Max(T) <= x /\ x <= Max(T)
  BY <1>1
<1> QED
  BY <1>2, <1>3

-----------------------------------------------------------------------------
(* Model selectors: TrimSpace and ParseModelRef *)

\* A text that has something, and no blanks around it.
Tight(s) == s # <<>> /\ s[1] # " " /\ s[Len(s)] # " "

LEMMA Trimming ==
  ASSUME NEW S, NEW s \in Seq(S)
  PROVE  \/ TrimSpace(s) = <<>>
         \/ \E i, j \in 1 .. Len(s) : TrimSpace(s) = SubSeq(s, i, j) /\ i <= j /\ s[i] # " " /\ s[j] # " "
<1> DEFINE ends == {i \in DOMAIN s : s[i] # " "}
<1>1. DOMAIN s = 1 .. Len(s) /\ Len(s) \in Nat
  OBVIOUS
<1>2. CASE ends = {}
  BY <1>2 DEF TrimSpace
<1>3. CASE ends # {}
  <2>1. ends \in SUBSET (1 .. Len(s))
    BY <1>1
  <2>2. TrimSpace(s) = SubSeq(s, Min(ends), Max(ends))
    BY <1>3 DEF TrimSpace
  <2> HIDE DEF ends
  <2>3. Min(ends) \in ends /\ Max(ends) \in ends /\ Min(ends) <= Max(ends)
    BY <1>1, <1>3, <2>1, MinOfPlaces, MaxOfPlaces
  <2> QED
    BY <1>1, <2>2, <2>3 DEF ends
<1> QED
  BY <1>2, <1>3

LEMMA Trimmed ==
  ASSUME NEW S, NEW s \in Seq(S)
  PROVE  /\ TrimSpace(s) \in Seq(S)
         /\ TrimSpace(s) = <<>> \/ Tight(TrimSpace(s))
         /\ Slashes(s) = {} => Slashes(TrimSpace(s)) = {}
<1> DEFINE t == TrimSpace(s)
<1>1. CASE t = <<>>
  <2>1. Slashes(<<>>) = {}
    BY DEF Slashes
  <2> QED
    BY <1>1, <2>1
<1>2. ASSUME NEW i \in 1 .. Len(s), NEW j \in 1 .. Len(s), t = SubSeq(s, i, j), i <= j, s[i] # " ", s[j] # " "
      PROVE  /\ t \in Seq(S) /\ Tight(t)
             /\ Slashes(s) = {} => Slashes(t) = {}
  <2> HIDE DEF t
  <2>l. Len(s) \in Nat /\ DOMAIN s = 1 .. Len(s)
    OBVIOUS
  <2>i. i \in Nat /\ j \in Nat /\ 1 <= i /\ j <= Len(s)
    BY <2>l
  <2>s. \A k \in i .. j : s[k] \in S
    BY <2>l, <2>i
  <2>0. Len(s) \in Nat /\ i \in Nat /\ j \in Nat /\ 1 <= i /\ i <= j /\ j <= Len(s)
    BY <1>2, <2>l, <2>i
  <2>1. t \in Seq(S) /\ Len(t) = j - i + 1 /\ \A k \in 1 .. j - i + 1 : t[k] = s[k + i - 1]
    <3>1. i \in Int /\ j \in Int
      BY <2>0
    <3>2. /\ SubSeq(s, i, j) \in Seq(S)
          /\ Len(SubSeq(s, i, j)) = IF i <= j THEN j - i + 1 ELSE 0
          /\ \A k \in 1 .. j - i + 1 : SubSeq(s, i, j)[k] = s[i + k - 1]
      BY <2>s, <3>1, SubSeqProperties
    <3>3. \A k \in 1 .. j - i + 1 : i + k - 1 = k + i - 1
      BY <2>0
    <3> QED
      BY <1>2, <2>0, <3>2, <3>3
  <2>2. t # <<>> /\ t[1] = s[i] /\ t[Len(t)] = s[j]
    <3>1. j - i + 1 \in Nat /\ 1 \in 1 .. j - i + 1 /\ j - i + 1 \in 1 .. j - i + 1
      BY <2>0
    <3>2. t[1] = s[1 + i - 1] /\ t[j - i + 1] = s[j - i + 1 + i - 1]
      BY <2>1, <3>1
    <3>3. 1 + i - 1 = i /\ j - i + 1 + i - 1 = j
      BY <2>0
    <3> QED
      BY <2>1, <3>1, <3>2, <3>3
  <2>3. DOMAIN t = 1 .. Len(t) /\ DOMAIN s = 1 .. Len(s)
    BY <2>1
  <2>4. \A k \in DOMAIN t : k + i - 1 \in DOMAIN s /\ t[k] = s[k + i - 1]
    BY <2>0, <2>1, <2>3
  <2>5. Slashes(s) = {} => Slashes(t) = {}
    BY <2>4 DEF Slashes
  <2> QED
    BY <1>2, <2>1, <2>2, <2>5 DEF Tight
<1> QED
  BY <1>1, <1>2, Trimming

LEMMA TrimmedOnce ==
  ASSUME NEW S, NEW s \in Seq(S), Tight(s)
  PROVE  TrimSpace(s) = s
<1> DEFINE ends == {i \in DOMAIN s : s[i] # " "}
<1>0. s # <<>>
  BY DEF Tight
<1>1. DOMAIN s = 1 .. Len(s) /\ Len(s) \in Nat /\ Len(s) >= 1
  BY <1>0
<1>2. ends \in SUBSET (1 .. Len(s)) /\ 1 \in ends /\ Len(s) \in ends
  <2>1. 1 \in DOMAIN s /\ Len(s) \in DOMAIN s
    BY <1>1
  <2> QED
    BY <1>1, <2>1 DEF Tight
<1>3. TrimSpace(s) = SubSeq(s, Min(ends), Max(ends))
  BY <1>2 DEF TrimSpace
<1> HIDE DEF ends
<1>4. \A i \in ends : 1 <= i /\ i <= Len(s)
  BY <1>1, <1>2
<1>5. Min(ends) = 1
  BY <1>1, <1>2, <1>4, MinIs
<1>6. Max(ends) = Len(s)
  BY <1>1, <1>2, <1>4, MaxIs
<1> QED
  BY <1>3, <1>5, <1>6, SubSeqFull

LEMMA TrimmedIsTight ==
  ASSUME NEW S, NEW s \in Seq(S), TrimSpace(s) = s, s # <<>>
  PROVE  Tight(s)
  BY Trimmed

\* The text of a selector, place by place.
LEMMA SelectorText ==
  ASSUME NEW S, "/" \in S, NEW p \in Seq(S), NEW m \in Seq(S), p # <<>>, m # <<>>
  PROVE  LET s == Selector([provider |-> p, model |-> m]) IN
         /\ s \in Seq(S) /\ Len(s) = Len(p) + 1 + Len(m)
         /\ \A i \in 1 .. Len(p) : s[i] = p[i]
         /\ s[Len(p) + 1] = "/"
         /\ \A i \in 1 .. Len(m) : s[Len(p) + 1 + i] = m[i]
<1>1. Selector([provider |-> p, model |-> m]) = p \o <<"/">> \o m
  BY DEF Selector
<1>2. /\ (p \o <<"/">> \o m) \in Seq(S) /\ Len(p \o <<"/">> \o m) = Len(p) + 1 + Len(m)
      /\ \A i \in 1 .. Len(p) : (p \o <<"/">> \o m)[i] = p[i]
      /\ (p \o <<"/">> \o m)[Len(p) + 1] = "/"
      /\ \A i \in 1 .. Len(m) : (p \o <<"/">> \o m)[Len(p) + 1 + i] = m[i]
  OBVIOUS
<1> QED
  BY <1>1, <1>2

\* ParseModelRef undoes ModelRef.String where the provider has no slash.
LEMMA SelectorReads ==
  ASSUME NEW S, "/" \in S, NEW p \in Seq(S), NEW m \in Seq(S),
         Tight(p), Tight(m), Slashes(p) = {}
  PROVE  ParseModelRef(Selector([provider |-> p, model |-> m])) = [provider |-> p, model |-> m]
<1> DEFINE s == Selector([provider |-> p, model |-> m])
           n == Len(p) + 1
<1>0. p # <<>> /\ m # <<>>
  BY DEF Tight
<1>1. p # <<>> /\ m # <<>> /\ Len(p) \in Nat \ {0} /\ Len(m) \in Nat \ {0}
  BY <1>0, EmptySeq
<1>2. /\ s \in Seq(S) /\ Len(s) = n + Len(m)
      /\ \A i \in 1 .. Len(p) : s[i] = p[i]
      /\ s[n] = "/"
      /\ \A i \in 1 .. Len(m) : s[n + i] = m[i]
  BY <1>1, SelectorText
<1> HIDE DEF s
<1>3. DOMAIN s = 1 .. Len(s) /\ DOMAIN p = 1 .. Len(p)
  BY <1>2
<1>4. s # <<>> /\ s[1] = p[1] /\ s[Len(s)] = m[Len(m)]
  BY <1>1, <1>2
<1>5. Tight(s)
  BY <1>4 DEF Tight
<1>6. TrimSpace(s) = s
  BY <1>2, <1>5, TrimmedOnce
<1>7. n \in Slashes(s) /\ Slashes(s) \in SUBSET (1 .. Len(s))
  BY <1>1, <1>2, <1>3 DEF Slashes
<1>8. \A i \in Slashes(s) : n <= i
  BY <1>1, <1>2, <1>3 DEF Slashes
<1>9. Min(Slashes(s)) = n
  <2>1. Len(s) \in Nat
    BY <1>2
  <2> QED
    BY <1>7, <1>8, <2>1, MinIs
<1>10. SubSeq(s, 1, n - 1) = p
  <2>1. /\ SubSeq(s, 1, Len(p)) \in Seq(S) /\ Len(SubSeq(s, 1, Len(p))) = Len(p)
        /\ \A i \in 1 .. Len(p) : SubSeq(s, 1, Len(p))[i] = p[i]
    BY <1>1, <1>2
  <2>2. SubSeq(s, 1, Len(p)) = p
    BY <2>1, SeqEqual
  <2> QED
    BY <1>1, <2>2
<1>11. SubSeq(s, n + 1, Len(s)) = m
  <2>1. /\ SubSeq(s, n + 1, Len(s)) \in Seq(S) /\ Len(SubSeq(s, n + 1, Len(s))) = Len(m)
        /\ \A i \in 1 .. Len(m) : SubSeq(s, n + 1, Len(s))[i] = m[i]
    BY <1>1, <1>2
  <2> QED
    BY <2>1, SeqEqual
<1>12. TrimSpace(p) = p /\ TrimSpace(m) = m
  BY TrimmedOnce
<1>13. ParseModelRef(s) = ModelRef(p, m)
  BY <1>4, <1>6, <1>7, <1>9, <1>10, <1>11, <1>12 DEF ParseModelRef
<1> QED
  BY <1>1, <1>13 DEF ModelRef, s

LEMMA PartOfText ==
  ASSUME NEW S, NEW s \in Seq(S), NEW i \in Nat, NEW j \in Nat, 1 <= i, j <= Len(s)
  PROVE  /\ SubSeq(s, i, j) \in Seq(S)
         /\ \A k \in DOMAIN SubSeq(s, i, j) : k + i - 1 \in i .. j /\ SubSeq(s, i, j)[k] = s[k + i - 1]
<1>1. Len(s) \in Nat /\ DOMAIN s = 1 .. Len(s)
  OBVIOUS
<1>2. \A k \in i .. j : s[k] \in S
  BY <1>1
<1>3. i \in Int /\ j \in Int
  OBVIOUS
<1>4. /\ SubSeq(s, i, j) \in Seq(S)
      /\ Len(SubSeq(s, i, j)) = IF i <= j THEN j - i + 1 ELSE 0
      /\ \A k \in 1 .. j - i + 1 : SubSeq(s, i, j)[k] = s[i + k - 1]
  BY <1>2, <1>3, SubSeqProperties
<1>5. DOMAIN SubSeq(s, i, j) = 1 .. Len(SubSeq(s, i, j))
  BY <1>4
<1>6. ASSUME NEW k \in DOMAIN SubSeq(s, i, j)
      PROVE  k + i - 1 \in i .. j /\ SubSeq(s, i, j)[k] = s[k + i - 1]
  <2>1. k \in Nat /\ 1 <= k /\ k <= j - i + 1
    BY <1>3, <1>4, <1>5, <1>6
  <2>2. i + k - 1 = k + i - 1 /\ k \in 1 .. j - i + 1
    BY <2>1
  <2> QED
    BY <1>4, <2>1, <2>2
<1> QED
  BY <1>4, <1>6

LEMMA EmptySelector == ParseModelRef(Selector(NoModel)) = NoModel
<1>1. Selector(NoModel) = <<>>
  BY DEF Selector, NoModel
<1>2. TrimSpace(<<>>) = <<>>
  BY DEF TrimSpace
<1> QED
  BY <1>1, <1>2 DEF ParseModelRef

LEMMA TextIn ==
  ASSUME NEW v, IsText(v)
  PROVE  \E S : "/" \in S /\ v \in Seq(S)
<1> DEFINE R == {v[i] : i \in DOMAIN v}
<1>1. v \in Seq(R)
  BY DEF IsText
<1> HIDE DEF R
<1>2. v \in Seq(R \cup {"/"})
  BY <1>1, SeqMonotonic
<1> QED
  BY <1>2

\* The model that a selector names is written so that it reads the same.
LEMMA ReadSelector ==
  ASSUME NEW v, IsText(v), ParseModelRef(v) # BadModel
  PROVE  ParseModelRef(Selector(ParseModelRef(v))) = ParseModelRef(v)
<1> DEFINE s == TrimSpace(v)
           cut == Min(Slashes(s))
           p == TrimSpace(SubSeq(s, 1, cut - 1))
           m == TrimSpace(SubSeq(s, cut + 1, Len(s)))
<1>1. PICK S : "/" \in S /\ v \in Seq(S)
  BY TextIn
<1>2. s \in Seq(S)
  BY <1>1, Trimmed
<1> HIDE DEF s
<1>3. Len(s) \in Nat /\ DOMAIN s = 1 .. Len(s)
  BY <1>2
<1>4. CASE s = <<>>
  <2>1. ParseModelRef(v) = NoModel
    BY <1>4 DEF ParseModelRef, s
  <2> QED
    BY <2>1, EmptySelector
<1>5. CASE s # <<>>
  <2>1. Slashes(s) # {}
    BY <1>5 DEF ParseModelRef, s
  <2>2. ParseModelRef(v) = ModelRef(p, m)
    BY <1>5, <2>1 DEF ParseModelRef, s
  <2>3. Slashes(s) \in SUBSET (1 .. Len(s))
    BY <1>3 DEF Slashes
  <2>4. cut \in Slashes(s) /\ \A y \in Slashes(s) : cut <= y
    BY <1>3, <2>1, <2>3, MinOfPlaces
  <2> HIDE DEF cut
  <2>5. cut \in Nat /\ 1 <= cut /\ cut <= Len(s)
    BY <1>3, <2>3, <2>4
  <2>6. cut - 1 \in Nat /\ cut + 1 \in Nat /\ 1 <= cut + 1 /\ cut - 1 <= Len(s)
    BY <1>3, <2>5
  <2>7. /\ SubSeq(s, 1, cut - 1) \in Seq(S)
        /\ \A k \in DOMAIN SubSeq(s, 1, cut - 1) :
              k + 1 - 1 \in 1 .. (cut - 1) /\ SubSeq(s, 1, cut - 1)[k] = s[k + 1 - 1]
    BY <1>2, <2>6, PartOfText
  <2>8. SubSeq(s, cut + 1, Len(s)) \in Seq(S)
    BY <1>2, <1>3, <2>6, PartOfText
  <2>9. \A k \in 1 .. (cut - 1) : k \in DOMAIN s /\ s[k] # "/"
    <3>1. ASSUME NEW k \in 1 .. (cut - 1) PROVE k \in DOMAIN s /\ ~ (cut <= k)
      BY <1>3, <2>5
    <3> QED
      BY <2>4, <3>1 DEF Slashes
  <2>10. Slashes(SubSeq(s, 1, cut - 1)) = {}
    BY <2>7, <2>9 DEF Slashes
  <2>11. p \in Seq(S) /\ m \in Seq(S) /\ (p = <<>> \/ Tight(p)) /\ (m = <<>> \/ Tight(m)) /\ Slashes(p) = {}
    BY <2>7, <2>8, <2>10, Trimmed
  <2> HIDE DEF p, m
  <2>12. p # <<>> /\ m # <<>> /\ ModelRef(p, m) = [provider |-> p, model |-> m]
    BY <2>2 DEF ModelRef
  <2> QED
    BY <1>1, <2>2, <2>11, <2>12, SelectorReads
<1> QED
  BY <1>4, <1>5

-----------------------------------------------------------------------------
(* Model selectors: the arguments of a call *)

TextInv == IsText(args.model) /\ IsText(args.pair.provider) /\ IsText(args.pair.model)

LEMMA InitTexts == Init => TextInv
<1> SUFFICES ASSUME Init PROVE TextInv
  OBVIOUS
<1>1. PICK x \in Fields, y \in Fields : \E u \in Values[x], v \in Values[y] :
        args = [[Ordinary EXCEPT ![x] = u] EXCEPT ![y] = v]
  BY DEF Init
<1>2. PICK u \in Values[x], v \in Values[y] : args = [[Ordinary EXCEPT ![x] = u] EXCEPT ![y] = v]
  BY <1>1
<1>3. DOMAIN Ordinary = Fields /\ {"model", "pair"} \subseteq Fields
  BY DEF Ordinary, Fields
<1>4. Ordinary["model"] = <<>> /\ Ordinary["pair"] = NoModel
  BY DEF Ordinary
<1>5. IsText(<<>>) /\ NoModel.provider = <<>> /\ NoModel.model = <<>>
  BY EmptySeq DEF IsText, NoModel
<1>6. \A f \in Fields : args[f] = IF f = y THEN v ELSE IF f = x THEN u ELSE Ordinary[f]
  BY <1>2, <1>3
<1>7. args["model"] \in Values["model"] \cup {<<>>}
  BY <1>3, <1>4, <1>6
<1>8. args["pair"] \in Values["pair"] \cup {NoModel}
  BY <1>3, <1>4, <1>6
<1>9. IsText(args["model"])
  BY <1>5, <1>7, HandoffArgsAssumption
<1>10. IsText(args["pair"].provider) /\ IsText(args["pair"].model)
  BY <1>5, <1>8, HandoffArgsAssumption
<1> QED
  BY <1>9, <1>10 DEF TextInv

LEMMA NextTexts == TextInv /\ [Next]_vars => TextInv'
<1> SUFFICES ASSUME TextInv, [Next]_vars PROVE TextInv'
  OBVIOUS
<1>1. args' = args
  BY DEF Next, prepareExecute, createSession, submitFire, Fails, vars
<1> QED
  BY <1>1 DEF TextInv

\* The model of a session reads back, whichever way it was given.
LEMMA SessionModelReads ==
  ASSUME ArgsInv, TextInv, session # NoSession, session.model # BadModel,
         Slashes(session.model.provider) = {}
  PROVE  ParseModelRef(Selector(session.model)) = session.model
<1>1. session.model = modelFor
  BY DEF ArgsInv, sessionRequest
<1>2. CASE Named
  <2>1. modelFor = ParseModelRef(args.model) \/ modelFor = BadModel
    BY <1>2 DEF modelFor
  <2> QED
    BY <1>1, <2>1, ReadSelector DEF TextInv
<1>3. CASE ~Named /\ Pair # NoModel
  <2>1. modelFor = ModelRef(Pair.provider, Pair.model)
    BY <1>3 DEF modelFor
  <2>2. Pair.provider # <<>> /\ Pair.model # <<>>
    BY <1>1, <2>1 DEF ModelRef
  <2>3. modelFor = [provider |-> Pair.provider, model |-> Pair.model]
    BY <2>1, <2>2 DEF ModelRef
  <2>4. PICK S : "/" \in S /\ args.pair.provider \in Seq(S)
    BY TextIn DEF TextInv
  <2>5. PICK T : "/" \in T /\ args.pair.model \in Seq(T)
    BY TextIn DEF TextInv
  <2>6. args.pair.provider \in Seq(S \cup T) /\ args.pair.model \in Seq(S \cup T)
    BY <2>4, <2>5, SeqMonotonic
  <2>7. /\ Pair.provider \in Seq(S \cup T) /\ Pair.model \in Seq(S \cup T)
        /\ Tight(Pair.provider) /\ Tight(Pair.model)
    BY <2>2, <2>6, Trimmed DEF Pair
  <2>8. Slashes(Pair.provider) = {}
    BY <1>1, <2>3
  <2> HIDE DEF Pair
  <2> QED
    BY <1>1, <2>3, <2>4, <2>7, <2>8, SelectorReads
<1>4. CASE ~Named /\ Pair = NoModel
  <2>1. modelFor = options.model
    BY <1>4 DEF modelFor
  <2>2. options.model \in {NoModel, Default}
    BY DEF ArgsInv, Options
  <2>3. ParseModelRef(Selector(Default)) = Default
    <3> DEFINE S == {"/", "d", "e"}
    <3>1. <<"d">> \in Seq(S) /\ <<"e">> \in Seq(S)
      OBVIOUS
    <3>2. Tight(<<"d">>) /\ Tight(<<"e">>) /\ Slashes(<<"d">>) = {}
      BY DEF Tight, Slashes
    <3>3. "/" \in S
      OBVIOUS
    <3> HIDE DEF S
    <3> QED
      BY <3>1, <3>2, <3>3, SelectorReads DEF Default
  <2> QED
    BY <1>1, <2>1, <2>2, <2>3, EmptySelector
<1> QED
  BY <1>2, <1>3, <1>4

\* A model of the catalogue is found by its canonical selector.
LEMMA CatalogueReads ==
  ASSUME TextInv, NEW i \in Slashes(args.model)
  PROVE  LET text == args.model
             m == [provider |-> SubSeq(text, 1, i - 1), model |-> SubSeq(text, i + 1, Len(text))] IN
         /\ Slashes(m.provider) = {} /\ m.provider # <<>> /\ m.model # <<>>
         /\ TrimSpace(m.provider) = m.provider /\ TrimSpace(m.model) = m.model
         => ParseModelRef(Selector(m)) = m
<1> DEFINE text == args.model
           p == SubSeq(text, 1, i - 1)
           q == SubSeq(text, i + 1, Len(text))
<1>1. PICK S : "/" \in S /\ text \in Seq(S)
  BY TextIn DEF TextInv
<1>2. Len(text) \in Nat /\ DOMAIN text = 1 .. Len(text)
  BY <1>1
<1>3. i \in Nat /\ 1 <= i /\ i <= Len(text)
  BY <1>2 DEF Slashes
<1>4. i - 1 \in Nat /\ i + 1 \in Nat /\ 1 <= i + 1 /\ i - 1 <= Len(text)
  BY <1>2, <1>3
<1>5. p \in Seq(S)
  BY <1>1, <1>4, PartOfText
<1>6. q \in Seq(S)
  BY <1>1, <1>2, <1>4, PartOfText
<1> HIDE DEF p, q
<1>7. ASSUME Slashes(p) = {}, p # <<>>, q # <<>>, TrimSpace(p) = p, TrimSpace(q) = q
      PROVE  ParseModelRef(Selector([provider |-> p, model |-> q])) = [provider |-> p, model |-> q]
  BY <1>1, <1>5, <1>6, <1>7, TrimmedIsTight, SelectorReads
<1> QED
  BY <1>7 DEF p, q

\* ParseModelRef and ModelRef.String agree, whatever text a selector is and
\* whatever slashes the model id has: a model of the catalogue is found by its
\* canonical selector, and the model of a session reads back.
THEOREM SelectorsRead == Spec => []SelectorsReadBack
<1>1. ArgsInv /\ TextInv /\ TypeOK => SelectorsReadBack
  BY CatalogueReads, SessionModelReads DEF SelectorsReadBack, TypeOK
<1> QED
  BY <1>1, ArgsHold, TypeCorrect, InitTexts, NextTexts, PTL DEF Spec
=============================================================================
