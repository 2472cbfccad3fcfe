--------------------------- MODULE OpenCodeProofs ---------------------------
(* Theorems about the OpenCode server that an executor runs (LocalServer),  *)
(* for any number of executors, ports and prompts, and about its client     *)
(* (OpenCodeClient), for any arguments and any documents.                   *)
EXTENDS LocalServer, OpenCodeClient, JsonProofs, FiniteSetTheorems

-----------------------------------------------------------------------------
(* Type correctness *)

LEMMA InitType == Init => TypeOK
<1> SUFFICES ASSUME Init PROVE TypeOK
  OBVIOUS
<1>1. Modes \subseteq {"local", "remote"}
  BY DEF Modes, ModeOf
<1>2. mode \in [Execs -> {"local", "remote"}]
  BY <1>1 DEF Init
<1> QED
  BY <1>2 DEF Init, TypeOK, Gone, Running

LEMMA NextType == TypeOK /\ [Next]_vars => TypeOK'
<1> SUFFICES ASSUME TypeOK, [Next]_vars PROVE TypeOK'
  OBVIOUS
<1> USE DEF TypeOK, Goto, Gone, Running, procVars, jobVars
<1>1. ASSUME NEW e \in Execs, StartUp(e) PROVE TypeOK'
  <2>1. CASE CreateRemote(e)
    BY <2>1 DEF CreateRemote
  <2>2. CASE FindPort(e)
    BY <2>2 DEF FindPort
  <2>3. CASE StartServer(e)
    BY <2>3 DEF StartServer
  <2>4. CASE StartFails(e)
    BY <2>4 DEF StartFails
  <2>5. CASE ProbeAnswered(e)
    BY <2>5 DEF ProbeAnswered
  <2>6. CASE ProbeFails(e)
    BY <2>6 DEF ProbeFails
  <2>7. CASE ExitSeen(e)
    BY <2>7 DEF ExitSeen
  <2>8. CASE ExitPutBack(e)
    BY <2>8 DEF ExitPutBack
  <2>9. CASE StartupTimesOut(e) \/ ProbeAgain(e)
    BY <2>9 DEF StartupTimesOut, ProbeAgain
  <2>10. CASE CreateClient(e)
    BY <2>10 DEF CreateClient
  <2> QED
    BY <1>1, <2>1, <2>2, <2>3, <2>4, <2>5, <2>6, <2>7, <2>8, <2>9, <2>10 DEF StartUp
<1>2. ASSUME NEW e \in Execs, Stop(e) PROVE TypeOK'
  <2>1. CASE StopSignals(e)
    BY <2>1 DEF StopSignals, Signal
  <2>2. CASE StopReceives(e)
    <3>1. AfterStop(e) \in {"cancel", "exited"}
      BY DEF AfterStop
    <3> QED
      BY <2>2, <3>1 DEF StopReceives
  <2>3. CASE StopKills(e)
    BY <2>3 DEF StopKills, Signal
  <2> QED
    BY <1>2, <2>1, <2>2, <2>3 DEF Stop
<1>3. ASSUME NEW e \in Execs, RunReturns(e) \/ MainReturns(e) PROVE TypeOK'
  BY <1>3 DEF RunReturns, MainReturns
<1>4. ASSUME NEW e \in Execs, CancelRoot(e) PROVE TypeOK'
  BY <1>4 DEF CancelRoot
<1>5. ASSUME NEW e \in Execs, Dies(e) PROVE TypeOK'
  BY <1>5 DEF Dies, Signal
<1>6. ASSUME NEW e \in Execs, ServerListens(e) \/ ServerCrashes(e) \/ ServerQuits(e) \/ ServerObeys(e) PROVE TypeOK'
  BY <1>6 DEF ServerListens, ServerCrashes, ServerQuits, ServerObeys
<1>7. ASSUME NEW e \in Execs, Reap(e) PROVE TypeOK'
  BY <1>7 DEF Reap
<1>8. ASSUME NEW e \in Execs, SendPrompt(e) PROVE TypeOK'
  BY <1>8 DEF SendPrompt
<1>9. ASSUME NEW e \in Execs, PromptAnswered(e) \/ PromptBroken(e) PROVE TypeOK'
  BY <1>9 DEF PromptAnswered, PromptBroken
<1>10. CASE UNCHANGED vars
  BY <1>10 DEF vars
<1> QED
  BY <1>1, <1>2, <1>3, <1>4, <1>5, <1>6, <1>7, <1>8, <1>9, <1>10 DEF Next

\* Every variable keeps its type.
THEOREM TypeCorrect == Spec => []TypeOK
  BY InitType, NextType, PTL DEF Spec

-----------------------------------------------------------------------------
(* The one exit value *)

\* Main's goroutine from cmd.Start to the point where stop has its value.
Holding == {"probe", "select", "client", "stop", "wait5s", "drain"}

\* Where the exit value of a server can be, by where main is, and that it
\* exists only when the server has ended.
ExitInv ==
    \A e \in Execs :
        /\ mode[e] = "remote" => pc[e] \in {"create", "serving", "cancel", "leave"} \cup Gone
        /\ pc[e] \in {"create", "start"} => server[e] = "none" /\ done[e] = "none"
        /\ mode[e] = "remote" => server[e] = "none"
        /\ pc[e] \in Holding => done[e] \in {"awaited", "channel"}
        /\ pc[e] = "serving" /\ mode[e] = "local" => done[e] \in {"awaited", "channel"}
        /\ pc[e] = "putback" => done[e] = "hand"
        /\ done[e] \in {"channel", "hand", "received"} => server[e] = "ended"
        /\ pc[e] \in {"cancel", "leave", "exited"} => server[e] \in {"none", "ended"}

LEMMA InitExit == Init => ExitInv
<1> SUFFICES ASSUME Init PROVE ExitInv
  OBVIOUS
<1>1. \A e \in Execs : pc[e] = "create" /\ server[e] = "none" /\ done[e] = "none"
  BY DEF Init
<1> QED
  BY <1>1 DEF ExitInv, Holding, Gone

LEMMA NextExit == TypeOK /\ ExitInv /\ [Next]_vars => ExitInv'
<1> SUFFICES ASSUME TypeOK, ExitInv, [Next]_vars PROVE ExitInv'
  OBVIOUS
<1> USE DEF TypeOK, ExitInv, Goto, Gone, Running, Holding, procVars, jobVars
<1>1. ASSUME NEW e \in Execs, StartUp(e) PROVE ExitInv'
  <2>1. CASE CreateRemote(e)
    BY <2>1 DEF CreateRemote
  <2>2. CASE FindPort(e)
    BY <2>2 DEF FindPort
  <2>3. CASE StartServer(e)
    BY <2>3 DEF StartServer
  <2>4. CASE StartFails(e)
    BY <2>4 DEF StartFails
  <2>5. CASE ProbeAnswered(e)
    BY <2>5 DEF ProbeAnswered
  <2>6. CASE ProbeFails(e)
    BY <2>6 DEF ProbeFails
  <2>7. CASE ExitSeen(e)
    BY <2>7 DEF ExitSeen
  <2>8. CASE ExitPutBack(e)
    BY <2>8 DEF ExitPutBack
  <2>9. CASE StartupTimesOut(e)
    BY <2>9 DEF StartupTimesOut
  <2>10. CASE ProbeAgain(e)
    BY <2>10 DEF ProbeAgain
  <2>11. CASE CreateClient(e)
    BY <2>11 DEF CreateClient
  <2> QED
    BY <1>1, <2>1, <2>2, <2>3, <2>4, <2>5, <2>6, <2>7, <2>8, <2>9, <2>10, <2>11 DEF StartUp
<1>2. ASSUME NEW e \in Execs, Stop(e) PROVE ExitInv'
  <2>1. CASE StopSignals(e)
    BY <2>1 DEF StopSignals
  <2>2. CASE StopReceives(e)
    <3>1. /\ done[e] = "channel" /\ done' = [done EXCEPT ![e] = "received"]
          /\ \E to \in {"cancel", "exited"} : pc' = [pc EXCEPT ![e] = to]
          /\ pc[e] \in {"wait5s", "drain"}
          /\ UNCHANGED <<mode, server>>
      BY <2>2 DEF StopReceives, AfterStop
    <3> QED
      BY <3>1
  <2>3. CASE StopKills(e)
    BY <2>3 DEF StopKills
  <2> QED
    BY <1>2, <2>1, <2>2, <2>3 DEF Stop
<1>3. ASSUME NEW e \in Execs, RunReturns(e) PROVE ExitInv'
  BY <1>3 DEF RunReturns
<1>4. ASSUME NEW e \in Execs, CancelRoot(e) PROVE ExitInv'
  BY <1>4 DEF CancelRoot
<1>5. ASSUME NEW e \in Execs, MainReturns(e) PROVE ExitInv'
  BY <1>5 DEF MainReturns
<1>6. ASSUME NEW e \in Execs, Dies(e) PROVE ExitInv'
  BY <1>6 DEF Dies
<1>7. ASSUME NEW e \in Execs, ServerListens(e) \/ ServerCrashes(e) \/ ServerQuits(e) \/ ServerObeys(e)
      PROVE  ExitInv'
  <2>1. /\ server[e] \in Running /\ UNCHANGED <<pc, mode, done>>
        /\ \E how \in {"listening", "ended"} : server' = [server EXCEPT ![e] = how]
    BY <1>7 DEF ServerListens, ServerCrashes, ServerQuits, ServerObeys
  <2> QED
    BY <2>1
<1>8. ASSUME NEW e \in Execs, Reap(e) PROVE ExitInv'
  BY <1>8 DEF Reap
<1>9. ASSUME NEW e \in Execs, SendPrompt(e) \/ PromptAnswered(e) \/ PromptBroken(e) PROVE ExitInv'
  BY <1>9 DEF SendPrompt, PromptAnswered, PromptBroken
<1>10. CASE UNCHANGED vars
  BY <1>10 DEF vars
<1> QED
  BY <1>1, <1>2, <1>3, <1>4, <1>5, <1>6, <1>7, <1>8, <1>9, <1>10 DEF Next

LEMMA ExitHolds == Spec => []ExitInv
  BY InitType, NextType, InitExit, NextExit, PTL DEF Spec

\* waitForHTTP and stop share one exit value: whoever waits for it in stop has
\* it still to come, however the probe, the timeout and the exit interleave.
THEOREM ExitComes == Spec => []ExitStillToCome
<1>1. ExitInv => ExitStillToCome
  BY DEF ExitInv, ExitStillToCome, Holding
<1> QED
  BY <1>1, ExitHolds, PTL

\* An executor that exits in order has waited for its server to end.
THEOREM NoServerOutlives == Spec => []NoServerLeftBehind
<1>1. ExitInv => NoServerLeftBehind
  BY DEF ExitInv, NoServerLeftBehind
<1> QED
  BY <1>1, ExitHolds, PTL

-----------------------------------------------------------------------------
(* Documents beside their types *)

\* The levels of a walk.
Levels(g, s, d) == g[0] = {<<s, d>>} /\ \A n \in 1 .. Depth : g[n] = Below(g[n - 1])

LEMMA LevelsExist ==
  ASSUME NEW s, NEW d
  PROVE  \E g : Levels(g, s, d) /\ Met(s, d) = UNION {g[n] : n \in 0 .. Depth}
<1> DEFINE Rec(g) == [n \in 0 .. Depth |-> IF n = 0 THEN {<<s, d>>} ELSE Below(g[n - 1])]
<1>1. Met(s, d) = UNION {(CHOOSE g : g = Rec(g))[n] : n \in 0 .. Depth}
  BY DEF Met
<1>2. \E g : g = Rec(g)
  <2> DEFINE b0 == {<<s, d>>}
             b1 == Below(b0)
             b2 == Below(b1)
             b3 == Below(b2)
             b4 == Below(b3)
             b5 == Below(b4)
             b6 == Below(b5)
             b7 == Below(b6)
             h  == [n \in 0 .. 7 |-> IF n = 0 THEN b0 ELSE IF n = 1 THEN b1 ELSE IF n = 2 THEN b2
                                     ELSE IF n = 3 THEN b3 ELSE IF n = 4 THEN b4 ELSE IF n = 5 THEN b5
                                     ELSE IF n = 6 THEN b6 ELSE b7]
  <2>1. b1 = Below(b0) /\ b2 = Below(b1) /\ b3 = Below(b2) /\ b4 = Below(b3)
        /\ b5 = Below(b4) /\ b6 = Below(b5) /\ b7 = Below(b6)
    OBVIOUS
  <2>2. b0 = {<<s, d>>}
    OBVIOUS
  <2> HIDE DEF b0, b1, b2, b3, b4, b5, b6, b7
  <2>3. ASSUME NEW n \in 0 .. 7 PROVE h[n] = IF n = 0 THEN b0 ELSE Below(h[n - 1])
    <3>1. \/ n = 0 \/ (n = 1 /\ n - 1 = 0) \/ (n = 2 /\ n - 1 = 1) \/ (n = 3 /\ n - 1 = 2)
          \/ (n = 4 /\ n - 1 = 3) \/ (n = 5 /\ n - 1 = 4) \/ (n = 6 /\ n - 1 = 5) \/ (n = 7 /\ n - 1 = 6)
      OBVIOUS
    <3>2. /\ h[0] = b0 /\ h[1] = b1 /\ h[2] = b2 /\ h[3] = b3 /\ h[4] = b4 /\ h[5] = b5
          /\ h[6] = b6 /\ h[7] = b7
      OBVIOUS
    <3> HIDE DEF h
    <3> QED
      BY <2>1, <3>1, <3>2
  <2>4. h = [n \in 0 .. 7 |-> IF n = 0 THEN b0 ELSE Below(h[n - 1])]
    <3>1. h = [n \in 0 .. 7 |-> h[n]]
      OBVIOUS
    <3> HIDE DEF h
    <3> QED
      BY <2>3, <3>1
  <2>5. h = Rec(h)
    BY <2>2, <2>4 DEF Depth
  <2> HIDE DEF h, Rec
  <2> QED
    BY <2>5
<1>3. PICK g : g = Rec(g) /\ Met(s, d) = UNION {g[n] : n \in 0 .. Depth}
  <2> HIDE DEF Rec
  <2> QED
    BY <1>1, <1>2
<1>4. \A n \in 0 .. 7 : Rec(g)[n] = IF n = 0 THEN {<<s, d>>} ELSE Below(g[n - 1])
  BY DEF Depth
<1> HIDE DEF Rec
<1>5. \A n \in 0 .. 7 : g[n] = IF n = 0 THEN {<<s, d>>} ELSE Below(g[n - 1])
  BY <1>3, <1>4
<1>6. Levels(g, s, d)
  BY <1>5 DEF Levels, Depth
<1> QED
  BY <1>3, <1>6

\* What fits all the way down is decoded, and validated.
Fitting(S)  == \A m \in S : Fits(m[1], m[2]) /\ Inside(m[1], m[2]) \subseteq S
Sound(s, d) == \E S : Fitting(S) /\ <<s, d>> \in S

LEMMA SoundIsTaken ==
  ASSUME NEW s, NEW d, Sound(s, d)
  PROVE  Decodes(s, d) /\ Validates(s, d)
<1>1. PICK S : Fitting(S) /\ <<s, d>> \in S
  BY DEF Sound
<1>2. PICK g : Levels(g, s, d) /\ Met(s, d) = UNION {g[n] : n \in 0 .. Depth}
  BY LevelsExist
<1> DEFINE T == {n \in Nat : n \in 0 .. 7 => g[n] \subseteq S}
<1>3. 0 \in T
  BY <1>1, <1>2 DEF Levels
<1>4. ASSUME NEW n \in 0 .. 6, n \in T PROVE n + 1 \in T
  <2>1. n \in 0 .. 7 /\ n + 1 \in 1 .. 7 /\ n + 1 - 1 = n /\ n + 1 \in Nat
    OBVIOUS
  <2>2. g[n + 1] = Below(g[n])
    BY <1>2, <2>1 DEF Levels, Depth
  <2>3. g[n] \subseteq S
    BY <1>4, <2>1
  <2>4. Below(g[n]) \subseteq S
    BY <1>1, <2>3 DEF Below, Fitting
  <2> QED
    BY <2>1, <2>2, <2>4
<1>5. 0 .. 7 \subseteq T
  <2>1. 7 \in Nat /\ 7 - 1 = 6 /\ T \in SUBSET Nat
    OBVIOUS
  <2> QED
    BY <1>3, <1>4, <2>1, EachNatural
<1>6. Met(s, d) \subseteq S
  BY <1>2, <1>5 DEF Depth
<1> QED
  BY <1>1, <1>6 DEF Decodes, Validates, Fitting

LEMMA SoundByParts ==
  ASSUME NEW s, NEW d, Fits(s, d), \A c \in Inside(s, d) : Sound(c[1], c[2]) /\ c = <<c[1], c[2]>>
  PROVE  Sound(s, d)
<1> DEFINE P(c) == CHOOSE S : Fitting(S) /\ <<c[1], c[2]>> \in S
           S == {<<s, d>>} \cup UNION {P(c) : c \in Inside(s, d)}
<1>1. \A c \in Inside(s, d) : Fitting(P(c)) /\ c \in P(c)
  BY DEF Sound
<1> HIDE DEF P
<1>2. ASSUME NEW m \in S PROVE Fits(m[1], m[2]) /\ Inside(m[1], m[2]) \subseteq S
  <2>1. CASE m = <<s, d>>
    BY <1>1, <2>1
  <2>2. CASE \E c \in Inside(s, d) : m \in P(c)
    BY <1>1, <2>2 DEF Fitting
  <2> QED
    BY <2>1, <2>2
<1>3. Fitting(S) /\ <<s, d>> \in S
  BY <1>2 DEF Fitting
<1> HIDE DEF S
<1> QED
  BY <1>3 DEF Sound

LEMMA SoundSimple ==
  /\ \A x : Sound(Str, JStr(x))
  /\ \A d : d.k # "broken" => Sound(Raw, d)
  /\ \A d : Sound(Anything, d)
  /\ \A V : \A x \in V : Sound(OneOf(V), JStr(x))
  /\ \A p : \A x \in Identifiers[p] : Sound(Prefix(p), JStr(x))
<1>1. ASSUME NEW s, NEW d, Fits(s, d), Inside(s, d) = {} PROVE Sound(s, d)
  BY <1>1, SoundByParts
<1>2. ASSUME NEW x PROVE Sound(Str, JStr(x))
  <2>1. Fits(Str, JStr(x)) /\ Inside(Str, JStr(x)) = {}
    BY DEF Fits, FitsNonNull, NonNull, Inside, Str, JStr
  <2> QED
    BY <1>1, <2>1
<1>3. ASSUME NEW d, d.k # "broken" PROVE Sound(Raw, d)
  <2>1. Fits(Raw, d) /\ Inside(Raw, d) = {}
    BY <1>3 DEF Fits, FitsNonNull, NonNull, Inside, Raw
  <2> QED
    BY <1>1, <2>1
<1>4. ASSUME NEW d PROVE Sound(Anything, d)
  <2>1. Fits(Anything, d) /\ Inside(Anything, d) = {}
    BY DEF Fits, FitsNonNull, NonNull, Inside, Anything
  <2> QED
    BY <1>1, <2>1
<1>5. ASSUME NEW V, NEW x \in V PROVE Sound(OneOf(V), JStr(x))
  <2>1. Fits(OneOf(V), JStr(x)) /\ Inside(OneOf(V), JStr(x)) = {}
    BY DEF Fits, FitsNonNull, NonNull, Inside, OneOf, Nullable, JStr
  <2> QED
    BY <1>1, <2>1
<1>6. ASSUME NEW p, NEW x \in Identifiers[p] PROVE Sound(Prefix(p), JStr(x))
  <2>1. Fits(Prefix(p), JStr(x)) /\ Inside(Prefix(p), JStr(x)) = {}
    BY DEF Fits, FitsNonNull, NonNull, Inside, Prefix, Nullable, JStr
  <2> QED
    BY <1>1, <2>1
<1> QED
  BY <1>2, <1>3, <1>4, <1>5, <1>6

LEMMA SoundNullable ==
  ASSUME NEW s, NEW d, s.t # "nullable", Sound(s, d)
  PROVE  Sound(Nullable(s), d)
<1>1. PICK S : Fitting(S) /\ <<s, d>> \in S
  BY DEF Sound
<1>2. NonNull(Nullable(s)) = s /\ NonNull(s) = s
  BY DEF NonNull, Nullable
<1>3. Fits(s, d) /\ Inside(s, d) \subseteq S
  BY <1>1 DEF Fitting
<1>4. Fits(Nullable(s), d) /\ Inside(Nullable(s), d) = Inside(s, d)
  BY <1>2, <1>3 DEF Fits, Inside
<1> DEFINE U == S \cup {<<Nullable(s), d>>}
<1>5. Fitting(U) /\ <<Nullable(s), d>> \in U
  BY <1>1, <1>3, <1>4 DEF Fitting
<1> HIDE DEF U
<1> QED
  BY <1>5 DEF Sound

LEMMA SoundArr ==
  ASSUME NEW s, NEW f, \A i \in DOMAIN f : Sound(s, f[i])
  PROVE  Sound(Arr(s), JArr(f))
<1>1. Fits(Arr(s), JArr(f)) /\ Inside(Arr(s), JArr(f)) = {<<s, f[i]>> : i \in DOMAIN f}
  BY DEF Fits, FitsNonNull, NonNull, Inside, Arr, JArr
<1>2. \A c \in Inside(Arr(s), JArr(f)) : Sound(c[1], c[2]) /\ c = <<c[1], c[2]>>
  BY <1>1
<1> QED
  BY <1>1, <1>2, SoundByParts

LEMMA SoundObject ==
  ASSUME NEW rest, NEW req, NEW opt, NEW f, DOMAIN req \subseteq DOMAIN f,
         rest = "refuse" => DOMAIN f \subseteq DOMAIN req \cup DOMAIN opt,
         \A n \in DOMAIN f \cap DOMAIN req : Sound(req[n], f[n]),
         \A n \in DOMAIN f \cap DOMAIN opt : n \notin DOMAIN req => Sound(opt[n], f[n])
  PROVE  Sound(Object(rest, req, opt), JObj(f))
<1> DEFINE s == Object(rest, req, opt)
           d == JObj(f)
<1>1. s.t = "obj" /\ s.req = req /\ s.opt = opt /\ s.rest = rest /\ d.k = "obj" /\ d.f = f
  BY DEF Object, JObj
<1> HIDE DEF s, d
<1>2. Known(s) = DOMAIN req \cup DOMAIN opt /\ NonNull(s) = s
  BY <1>1 DEF Known, NonNull
<1>3. Fits(s, d)
  BY <1>1, <1>2 DEF Fits, FitsNonNull
<1>4. Inside(s, d) = {<<Field(s, n), f[n]>> : n \in DOMAIN f \cap Known(s)}
  BY <1>1, <1>2 DEF Inside
<1>5. \A n \in DOMAIN f \cap Known(s) : Sound(Field(s, n), f[n])
  BY <1>1, <1>2 DEF Field
<1>6. \A c \in Inside(s, d) : Sound(c[1], c[2]) /\ c = <<c[1], c[2]>>
  BY <1>4, <1>5
<1> QED
  BY <1>3, <1>6, SoundByParts DEF s, d

LEMMA SoundRules ==
  ASSUME NEW r, NEW f, \A n \in DOMAIN f \cap DOMAIN r : Sound(r[n], f[n])
  PROVE  Sound(Rules(r), JObj(f))
<1>1. DOMAIN NoFields = {}
  BY DEF NoFields
<1>2. Sound(Object("keep", NoFields, r), JObj(f))
  <2>1. \A n \in DOMAIN f \cap DOMAIN NoFields : Sound(NoFields[n], f[n])
    BY <1>1
  <2> QED
    BY <1>1, <2>1, SoundObject
<1>3. Object("keep", NoFields, r).t # "nullable"
  BY DEF Object
<1> QED
  BY <1>2, <1>3, SoundNullable DEF Rules, Keeping

LEMMA SoundEach ==
  ASSUME NEW r, NEW f, \A i \in DOMAIN f : Sound(r, f[i])
  PROVE  Sound(Each(r), JArr(f))
<1>1. Sound(Arr(r), JArr(f)) /\ Arr(r).t # "nullable"
  BY SoundArr DEF Arr
<1> QED
  BY <1>1, SoundNullable DEF Each

LEMMA SoundFields ==
  ASSUME NEW req, NEW opt, NEW r, DOMAIN req \subseteq DOMAIN r, DOMAIN r \subseteq DOMAIN req \cup DOMAIN opt,
         \A n \in DOMAIN req : r[n].k # "null" /\ Sound(req[n], r[n]),
         \A n \in DOMAIN r : n \notin DOMAIN req => r[n].k = "null" \/ Sound(opt[n], r[n])
  PROVE  Sound(Strict(req, opt), Fields(r))
<1> DEFINE f == [x \in {y \in DOMAIN r : r[y].k # "null"} |-> r[x]]
<1>1. Fields(r) = JObj(f)
  BY DEF Fields
<1>2. DOMAIN f = {y \in DOMAIN r : r[y].k # "null"} /\ \A n \in DOMAIN f : f[n] = r[n]
  OBVIOUS
<1> HIDE DEF f
<1>3. DOMAIN req \subseteq DOMAIN f /\ DOMAIN f \subseteq DOMAIN req \cup DOMAIN opt
  BY <1>2
<1>4. /\ \A n \in DOMAIN f \cap DOMAIN req : Sound(req[n], f[n])
      /\ \A n \in DOMAIN f \cap DOMAIN opt : n \notin DOMAIN req => Sound(opt[n], f[n])
  BY <1>2
<1> QED
  BY <1>1, <1>3, <1>4, SoundObject DEF Strict

LEMMA SoundFieldRules ==
  ASSUME NEW rules, NEW r, \A n \in DOMAIN r \cap DOMAIN rules : r[n].k = "null" \/ Sound(rules[n], r[n])
  PROVE  Sound(Rules(rules), Fields(r))
<1> DEFINE f == [x \in {y \in DOMAIN r : r[y].k # "null"} |-> r[x]]
<1>1. Fields(r) = JObj(f)
  BY DEF Fields
<1>2. \A n \in DOMAIN f \cap DOMAIN rules : Sound(rules[n], f[n])
  OBVIOUS
<1> HIDE DEF f
<1> QED
  BY <1>1, <1>2, SoundRules

-----------------------------------------------------------------------------
(* The legs of a call *)

LegsOf(m) == {m} \cup IF m = "Health" THEN {"api health"}
                      ELSE IF m = "ProvidersAndModels" THEN {"api providers", "api models"} ELSE {}

LegInv ==
    /\ method \in Methods /\ args \in Inputs[method]
    /\ leg \in {"called", "done"} \cup LegsOf(method)
    /\ leg # "done" => outcome = None
    /\ leg = "called" => answer = NoAnswer

Legs == Methods \cup {"api health", "api providers", "api models"}

LEMMA LegIs ==
  ASSUME LegInv, InProgress
  PROVE  leg \in Legs /\ leg \in LegsOf(method)
  BY DEF LegInv, InProgress, LegsOf, Legs, Methods

LEMMA RequestIs ==
  /\ leg = "Health" => Request = Bare("/global/health", Nowhere)
  /\ leg = "api health" => Request = Bare("/api/health", Nowhere)
  /\ leg = "Agents" => Request = Agents
  /\ leg = "ProvidersAndModels" => Request = currentProvidersAndModels
  /\ leg = "api providers" => Request = apiProviders
  /\ leg = "api models" => Request = apiModels
  /\ leg = "Sessions" => Request = Sessions
  /\ leg = "CreateSession" => Request = CreateSession
  /\ leg = "Prompt" => Request = Prompt
  /\ leg = "Abort" => Request = Abort
  /\ leg = "Messages" => Request = Messages
  /\ leg = "Context" => Request = Context
  /\ leg = "Permissions" => Request = Permissions
  /\ leg = "PermissionReply" => Request = PermissionReply
  /\ leg = "Questions" => Request = Questions
  /\ leg = "QuestionReply" => Request = QuestionReply
  /\ leg = "Wait" => Request = Wait
  /\ leg = "SessionPermissionRequests" => Request = SessionPermissionRequests
  /\ leg = "SessionQuestionRequests" => Request = SessionQuestionRequests
  BY DEF Request

LEMMA InitLeg == ClientInit => LegInv
  BY DEF ClientInit, LegInv

LEMMA NextLeg == LegInv /\ [ClientNext]_clientVars => LegInv'
<1> SUFFICES ASSUME LegInv, [ClientNext]_clientVars PROVE LegInv'
  OBVIOUS
<1>1. CASE Call
  BY <1>1 DEF Call, LegInv, LegsOf
<1>2. ASSUME InProgress, NEW a, Answered(a), FallBack(a) PROVE LegInv'
  <2>1. leg \in {"Health", "ProvidersAndModels"} /\ leg = method
    BY <1>2, LegIs DEF FallBack, Missing, LegsOf
  <2> QED
    BY <1>2, <2>1 DEF FallBack, Answered, LegInv, LegsOf
<1>3. ASSUME InProgress, NEW a, Answered(a), ContinueWithModels(a) PROVE LegInv'
  <2>1. leg = "api providers" /\ method = "ProvidersAndModels"
    BY <1>3, LegIs DEF ContinueWithModels, LegsOf, Methods, LegInv
  <2> QED
    BY <1>3, <2>1 DEF ContinueWithModels, Answered, LegInv, LegsOf
<1>4. ASSUME InProgress, NEW a, Answered(a), Return(a) PROVE LegInv'
  BY <1>4 DEF Return, Answered, LegInv
<1>5. CASE UNCHANGED clientVars
  BY <1>5 DEF clientVars, LegInv
<1> QED
  BY <1>1, <1>2, <1>3, <1>4, <1>5 DEF ClientNext

LEMMA LegHolds == ClientSpec => []LegInv
  BY InitLeg, NextLeg, PTL DEF ClientSpec

-----------------------------------------------------------------------------
(* Answers *)

RawLegs == {"Health", "api health", "ProvidersAndModels", "Abort"}

\* The type that a switch takes for success is that of the one successful status.
OkOnSuccess(decode, ok) == \A st \in DOMAIN decode : decode[st].type = ok <=> Success(st)

TypedRequest(r) == r.raw = FALSE /\ r.call \in Calls /\ OkOnSuccess(r.call.decode, r.ok)

LEMMA SuccessesNamed ==
  /\ OkOnSuccess(decodeSessionCreate, "Session")
  /\ OkOnSuccess(decodeSessionMessage, "SessionMessageOK")
  /\ OkOnSuccess(decodeSessionMessages, "SessionMessagesOKApplicationJSON")
  /\ OkOnSuccess(decodeV2AgentList, "V2AgentListOK")
  /\ OkOnSuccess(decodeV2ModelList, "V2ModelListOK")
  /\ OkOnSuccess(decodeV2PermissionRequestList, "V2PermissionRequestListOK")
  /\ OkOnSuccess(decodeV2ProviderList, "V2ProviderListOK")
  /\ OkOnSuccess(decodeV2QuestionRequestList, "V2QuestionRequestListOK")
  /\ OkOnSuccess(decodeV2SessionContext, "V2SessionContextOK")
  /\ OkOnSuccess(decodeV2SessionList, "SessionsResponse")
  /\ OkOnSuccess(decodeV2SessionPermissionList, "V2SessionPermissionListOK")
  /\ OkOnSuccess(decodeV2SessionPermissionReply, "V2SessionPermissionReplyNoContent")
  /\ OkOnSuccess(decodeV2SessionQuestionReject, "V2SessionQuestionRejectNoContent")
  /\ OkOnSuccess(decodeV2SessionQuestionReply, "V2SessionQuestionReplyNoContent")
  /\ OkOnSuccess(decodeV2SessionWait, "V2SessionWaitNoContent")
<1> USE DEF OkOnSuccess, Checked, Decoded, NoContent, Success
<1>1. OkOnSuccess(decodeSessionCreate, "Session")
  <2>1. /\ DOMAIN decodeSessionCreate = {200, 400}
        /\ decodeSessionCreate[200].type = "Session"
        /\ decodeSessionCreate[400].type = "SessionCreateBadRequestApplicationJSON"
    BY DEF decodeSessionCreate
  <2> QED
    BY <2>1
<1>2. OkOnSuccess(decodeSessionMessage, "SessionMessageOK")
  <2>1. /\ DOMAIN decodeSessionMessage = {200, 400, 401, 404, 409}
        /\ decodeSessionMessage[200].type = "SessionMessageOK"
        /\ decodeSessionMessage[400].type = "SessionMessageBadRequestApplicationJSON"
        /\ decodeSessionMessage[401].type = "UnauthorizedError"
        /\ decodeSessionMessage[404].type = "SessionMessageNotFoundApplicationJSON"
        /\ decodeSessionMessage[409].type = "ConflictError"
    BY DEF decodeSessionMessage
  <2> QED
    BY <2>1
<1>3. OkOnSuccess(decodeSessionMessages, "SessionMessagesOKApplicationJSON")
  <2>1. /\ DOMAIN decodeSessionMessages = {200, 400, 401, 404}
        /\ decodeSessionMessages[200].type = "SessionMessagesOKApplicationJSON"
        /\ decodeSessionMessages[400].type = "SessionMessagesBadRequestApplicationJSON"
        /\ decodeSessionMessages[401].type = "UnauthorizedError"
        /\ decodeSessionMessages[404].type = "SessionMessagesNotFoundApplicationJSON"
    BY DEF decodeSessionMessages
  <2> QED
    BY <2>1
<1>4. OkOnSuccess(decodeV2AgentList, "V2AgentListOK")
  <2>1. /\ DOMAIN decodeV2AgentList = {200, 400, 401}
        /\ decodeV2AgentList[200].type = "V2AgentListOK"
        /\ decodeV2AgentList[400].type = "InvalidRequestError"
        /\ decodeV2AgentList[401].type = "UnauthorizedError"
    BY DEF decodeV2AgentList
  <2> QED
    BY <2>1
<1>5. OkOnSuccess(decodeV2ModelList, "V2ModelListOK")
  <2>1. /\ DOMAIN decodeV2ModelList = {200, 400, 401, 503}
        /\ decodeV2ModelList[200].type = "V2ModelListOK"
        /\ decodeV2ModelList[400].type = "InvalidRequestError"
        /\ decodeV2ModelList[401].type = "UnauthorizedError"
        /\ decodeV2ModelList[503].type = "ServiceUnavailableError"
    BY DEF decodeV2ModelList
  <2> QED
    BY <2>1
<1>6. OkOnSuccess(decodeV2PermissionRequestList, "V2PermissionRequestListOK")
  <2>1. /\ DOMAIN decodeV2PermissionRequestList = {200, 400, 401}
        /\ decodeV2PermissionRequestList[200].type = "V2PermissionRequestListOK"
        /\ decodeV2PermissionRequestList[400].type = "InvalidRequestError"
        /\ decodeV2PermissionRequestList[401].type = "UnauthorizedError"
    BY DEF decodeV2PermissionRequestList
  <2> QED
    BY <2>1
<1>7. OkOnSuccess(decodeV2ProviderList, "V2ProviderListOK")
  <2>1. /\ DOMAIN decodeV2ProviderList = {200, 400, 401, 503}
        /\ decodeV2ProviderList[200].type = "V2ProviderListOK"
        /\ decodeV2ProviderList[400].type = "InvalidRequestError"
        /\ decodeV2ProviderList[401].type = "UnauthorizedError"
        /\ decodeV2ProviderList[503].type = "ServiceUnavailableError"
    BY DEF decodeV2ProviderList
  <2> QED
    BY <2>1
<1>8. OkOnSuccess(decodeV2QuestionRequestList, "V2QuestionRequestListOK")
  <2>1. /\ DOMAIN decodeV2QuestionRequestList = {200, 400, 401}
        /\ decodeV2QuestionRequestList[200].type = "V2QuestionRequestListOK"
        /\ decodeV2QuestionRequestList[400].type = "InvalidRequestError"
        /\ decodeV2QuestionRequestList[401].type = "UnauthorizedError"
    BY DEF decodeV2QuestionRequestList
  <2> QED
    BY <2>1
<1>9. OkOnSuccess(decodeV2SessionContext, "V2SessionContextOK")
  <2>1. /\ DOMAIN decodeV2SessionContext = {200, 400, 401, 404, 500}
        /\ decodeV2SessionContext[200].type = "V2SessionContextOK"
        /\ decodeV2SessionContext[400].type = "InvalidRequestError"
        /\ decodeV2SessionContext[401].type = "UnauthorizedError"
        /\ decodeV2SessionContext[404].type = "V2SessionContextNotFoundApplicationJSON"
        /\ decodeV2SessionContext[500].type = "UnknownError1"
    BY DEF decodeV2SessionContext
  <2> QED
    BY <2>1
<1>10. OkOnSuccess(decodeV2SessionList, "SessionsResponse")
  <2>1. /\ DOMAIN decodeV2SessionList = {200, 400, 401}
        /\ decodeV2SessionList[200].type = "SessionsResponse"
        /\ decodeV2SessionList[400].type = "V2SessionListBadRequestApplicationJSON"
        /\ decodeV2SessionList[401].type = "UnauthorizedError"
    BY DEF decodeV2SessionList
  <2> QED
    BY <2>1
<1>11. OkOnSuccess(decodeV2SessionPermissionList, "V2SessionPermissionListOK")
  <2>1. /\ DOMAIN decodeV2SessionPermissionList = {200, 400, 401, 404}
        /\ decodeV2SessionPermissionList[200].type = "V2SessionPermissionListOK"
        /\ decodeV2SessionPermissionList[400].type = "InvalidRequestError"
        /\ decodeV2SessionPermissionList[401].type = "UnauthorizedError"
        /\ decodeV2SessionPermissionList[404].type = "V2SessionPermissionListNotFoundApplicationJSON"
    BY DEF decodeV2SessionPermissionList
  <2> QED
    BY <2>1
<1>12. OkOnSuccess(decodeV2SessionPermissionReply, "V2SessionPermissionReplyNoContent")
  <2>1. /\ DOMAIN decodeV2SessionPermissionReply = {204, 400, 401, 404}
        /\ decodeV2SessionPermissionReply[204].type = "V2SessionPermissionReplyNoContent"
        /\ decodeV2SessionPermissionReply[400].type = "InvalidRequestError"
        /\ decodeV2SessionPermissionReply[401].type = "UnauthorizedError"
        /\ decodeV2SessionPermissionReply[404].type = "V2SessionPermissionReplyNotFoundApplicationJSON"
    BY DEF decodeV2SessionPermissionReply
  <2> QED
    BY <2>1
<1>13. OkOnSuccess(decodeV2SessionQuestionReject, "V2SessionQuestionRejectNoContent")
  <2>1. /\ DOMAIN decodeV2SessionQuestionReject = {204, 400, 401, 404}
        /\ decodeV2SessionQuestionReject[204].type = "V2SessionQuestionRejectNoContent"
        /\ decodeV2SessionQuestionReject[400].type = "InvalidRequestError"
        /\ decodeV2SessionQuestionReject[401].type = "UnauthorizedError"
        /\ decodeV2SessionQuestionReject[404].type = "V2SessionQuestionRejectNotFoundApplicationJSON"
    BY DEF decodeV2SessionQuestionReject
  <2> QED
    BY <2>1
<1>14. OkOnSuccess(decodeV2SessionQuestionReply, "V2SessionQuestionReplyNoContent")
  <2>1. /\ DOMAIN decodeV2SessionQuestionReply = {204, 400, 401, 404}
        /\ decodeV2SessionQuestionReply[204].type = "V2SessionQuestionReplyNoContent"
        /\ decodeV2SessionQuestionReply[400].type = "InvalidRequestError"
        /\ decodeV2SessionQuestionReply[401].type = "UnauthorizedError"
        /\ decodeV2SessionQuestionReply[404].type = "V2SessionQuestionReplyNotFoundApplicationJSON"
    BY DEF decodeV2SessionQuestionReply
  <2> QED
    BY <2>1
<1>15. OkOnSuccess(decodeV2SessionWait, "V2SessionWaitNoContent")
  <2>1. /\ DOMAIN decodeV2SessionWait = {204, 400, 401, 404, 503}
        /\ decodeV2SessionWait[204].type = "V2SessionWaitNoContent"
        /\ decodeV2SessionWait[400].type = "InvalidRequestError"
        /\ decodeV2SessionWait[401].type = "UnauthorizedError"
        /\ decodeV2SessionWait[404].type = "V2SessionWaitNotFoundApplicationJSON"
        /\ decodeV2SessionWait[503].type = "ServiceUnavailableError"
    BY DEF decodeV2SessionWait
  <2> QED
    BY <2>1
<1> QED
  BY <1>1, <1>2, <1>3, <1>4, <1>5, <1>6, <1>7, <1>8, <1>9, <1>10, <1>11, <1>12, <1>13, <1>14, <1>15

LEMMA TypedLegs ==
  ASSUME leg \in Legs \ RawLegs
  PROVE  TypedRequest(Request)
<1>1. CASE leg = "Agents"
  <2>1. Agents.raw = FALSE /\ Agents.ok = "V2AgentListOK" /\ Agents.call = sendV2AgentList
    BY DEF Agents, Typed
  <2>2. sendV2AgentList \in Calls
    BY DEF Calls
  <2>3. sendV2AgentList.decode = decodeV2AgentList
    BY DEF sendV2AgentList
  <2> QED
    BY <1>1, <2>1, <2>2, <2>3, RequestIs, SuccessesNamed DEF TypedRequest
<1>2. CASE leg = "api providers"
  <2>1. apiProviders.raw = FALSE /\ apiProviders.ok = "V2ProviderListOK" /\ apiProviders.call = sendV2ProviderList
    BY DEF apiProviders, Typed
  <2>2. sendV2ProviderList \in Calls
    BY DEF Calls
  <2>3. sendV2ProviderList.decode = decodeV2ProviderList
    BY DEF sendV2ProviderList
  <2> QED
    BY <1>2, <2>1, <2>2, <2>3, RequestIs, SuccessesNamed DEF TypedRequest
<1>3. CASE leg = "api models"
  <2>1. apiModels.raw = FALSE /\ apiModels.ok = "V2ModelListOK" /\ apiModels.call = sendV2ModelList
    BY DEF apiModels, Typed
  <2>2. sendV2ModelList \in Calls
    BY DEF Calls
  <2>3. sendV2ModelList.decode = decodeV2ModelList
    BY DEF sendV2ModelList
  <2> QED
    BY <1>3, <2>1, <2>2, <2>3, RequestIs, SuccessesNamed DEF TypedRequest
<1>4. CASE leg = "Sessions"
  <2>1. Sessions.raw = FALSE /\ Sessions.ok = "SessionsResponse" /\ Sessions.call = sendV2SessionList
    BY DEF Sessions, Typed
  <2>2. sendV2SessionList \in Calls
    BY DEF Calls
  <2>3. sendV2SessionList.decode = decodeV2SessionList
    BY DEF sendV2SessionList
  <2> QED
    BY <1>4, <2>1, <2>2, <2>3, RequestIs, SuccessesNamed DEF TypedRequest
<1>5. CASE leg = "CreateSession"
  <2>1. CreateSession.raw = FALSE /\ CreateSession.ok = "Session" /\ CreateSession.call = sendSessionCreate
    BY DEF CreateSession, Typed
  <2>2. sendSessionCreate \in Calls
    BY DEF Calls
  <2>3. sendSessionCreate.decode = decodeSessionCreate
    BY DEF sendSessionCreate
  <2> QED
    BY <1>5, <2>1, <2>2, <2>3, RequestIs, SuccessesNamed DEF TypedRequest
<1>6. CASE leg = "Prompt"
  <2>1. Prompt.raw = FALSE /\ Prompt.ok = "SessionMessageOK" /\ Prompt.call = sendSessionMessage
    BY DEF Prompt, Typed
  <2>2. sendSessionMessage \in Calls
    BY DEF Calls
  <2>3. sendSessionMessage.decode = decodeSessionMessage
    BY DEF sendSessionMessage
  <2> QED
    BY <1>6, <2>1, <2>2, <2>3, RequestIs, SuccessesNamed DEF TypedRequest
<1>7. CASE leg = "Messages"
  <2>1. Messages.raw = FALSE /\ Messages.ok = "SessionMessagesOKApplicationJSON" /\ Messages.call = sendSessionMessages
    BY DEF Messages, Typed
  <2>2. sendSessionMessages \in Calls
    BY DEF Calls
  <2>3. sendSessionMessages.decode = decodeSessionMessages
    BY DEF sendSessionMessages
  <2> QED
    BY <1>7, <2>1, <2>2, <2>3, RequestIs, SuccessesNamed DEF TypedRequest
<1>8. CASE leg = "Context"
  <2>1. Context.raw = FALSE /\ Context.ok = "V2SessionContextOK" /\ Context.call = sendV2SessionContext
    BY DEF Context, Typed
  <2>2. sendV2SessionContext \in Calls
    BY DEF Calls
  <2>3. sendV2SessionContext.decode = decodeV2SessionContext
    BY DEF sendV2SessionContext
  <2> QED
    BY <1>8, <2>1, <2>2, <2>3, RequestIs, SuccessesNamed DEF TypedRequest
<1>9. CASE leg = "Permissions"
  <2>1. Permissions.raw = FALSE /\ Permissions.ok = "V2PermissionRequestListOK" /\ Permissions.call = sendV2PermissionRequestList
    BY DEF Permissions, Typed
  <2>2. sendV2PermissionRequestList \in Calls
    BY DEF Calls
  <2>3. sendV2PermissionRequestList.decode = decodeV2PermissionRequestList
    BY DEF sendV2PermissionRequestList
  <2> QED
    BY <1>9, <2>1, <2>2, <2>3, RequestIs, SuccessesNamed DEF TypedRequest
<1>10. CASE leg = "PermissionReply"
  <2>1. PermissionReply.raw = FALSE /\ PermissionReply.ok = "V2SessionPermissionReplyNoContent" /\ PermissionReply.call = sendV2SessionPermissionReply
    BY DEF PermissionReply, Typed
  <2>2. sendV2SessionPermissionReply \in Calls
    BY DEF Calls
  <2>3. sendV2SessionPermissionReply.decode = decodeV2SessionPermissionReply
    BY DEF sendV2SessionPermissionReply
  <2> QED
    BY <1>10, <2>1, <2>2, <2>3, RequestIs, SuccessesNamed DEF TypedRequest
<1>11. CASE leg = "Questions"
  <2>1. Questions.raw = FALSE /\ Questions.ok = "V2QuestionRequestListOK" /\ Questions.call = sendV2QuestionRequestList
    BY DEF Questions, Typed
  <2>2. sendV2QuestionRequestList \in Calls
    BY DEF Calls
  <2>3. sendV2QuestionRequestList.decode = decodeV2QuestionRequestList
    BY DEF sendV2QuestionRequestList
  <2> QED
    BY <1>11, <2>1, <2>2, <2>3, RequestIs, SuccessesNamed DEF TypedRequest
<1>12. CASE leg = "SessionPermissionRequests"
  <2>1. SessionPermissionRequests.raw = FALSE /\ SessionPermissionRequests.ok = "V2SessionPermissionListOK" /\ SessionPermissionRequests.call = sendV2SessionPermissionList
    BY DEF SessionPermissionRequests, Typed
  <2>2. sendV2SessionPermissionList \in Calls
    BY DEF Calls
  <2>3. sendV2SessionPermissionList.decode = decodeV2SessionPermissionList
    BY DEF sendV2SessionPermissionList
  <2> QED
    BY <1>12, <2>1, <2>2, <2>3, RequestIs, SuccessesNamed DEF TypedRequest
<1>13. CASE leg = "SessionQuestionRequests"
  <2>1. SessionQuestionRequests.raw = FALSE /\ SessionQuestionRequests.ok = "V2QuestionRequestListOK" /\ SessionQuestionRequests.call = sendV2QuestionRequestList
    BY DEF SessionQuestionRequests, Typed
  <2>2. sendV2QuestionRequestList \in Calls
    BY DEF Calls
  <2>3. sendV2QuestionRequestList.decode = decodeV2QuestionRequestList
    BY DEF sendV2QuestionRequestList
  <2> QED
    BY <1>13, <2>1, <2>2, <2>3, RequestIs, SuccessesNamed DEF TypedRequest
<1>14. CASE leg = "Wait"
  <2>1. Wait.raw = FALSE /\ Wait.ok = "V2SessionWaitNoContent" /\ Wait.call = sendV2SessionWait
    BY DEF Wait, Typed
  <2>2. sendV2SessionWait \in Calls
    BY DEF Calls
  <2>3. sendV2SessionWait.decode = decodeV2SessionWait
    BY DEF sendV2SessionWait
  <2> QED
    BY <1>14, <2>1, <2>2, <2>3, RequestIs, SuccessesNamed DEF TypedRequest
<1>15. CASE leg = "QuestionReply"
  <2>1. CASE args.reject
    <3>1. /\ QuestionReply.raw = FALSE /\ QuestionReply.ok = "V2SessionQuestionRejectNoContent"
          /\ QuestionReply.call = sendV2SessionQuestionReject
      BY <2>1 DEF QuestionReply, Typed
    <3>2. sendV2SessionQuestionReject \in Calls
      BY DEF Calls
    <3>3. sendV2SessionQuestionReject.decode = decodeV2SessionQuestionReject
      BY DEF sendV2SessionQuestionReject
    <3> QED
      BY <1>15, <3>1, <3>2, <3>3, RequestIs, SuccessesNamed DEF TypedRequest
  <2>2. CASE ~ args.reject
    <3>1. /\ QuestionReply.raw = FALSE /\ QuestionReply.ok = "V2SessionQuestionReplyNoContent"
          /\ QuestionReply.call = sendV2SessionQuestionReply
      BY <2>2 DEF QuestionReply, Typed
    <3>2. sendV2SessionQuestionReply \in Calls
      BY DEF Calls
    <3>3. sendV2SessionQuestionReply.decode = decodeV2SessionQuestionReply
      BY DEF sendV2SessionQuestionReply
    <3> QED
      BY <1>15, <3>1, <3>2, <3>3, RequestIs, SuccessesNamed DEF TypedRequest
  <2> QED
    BY <2>1, <2>2
<1> QED
  BY <1>1, <1>2, <1>3, <1>4, <1>5, <1>6, <1>7, <1>8, <1>9, <1>10, <1>11, <1>12, <1>13, <1>14, <1>15 DEF Legs, Methods, RawLegs

\* What a typed request may be answered.
LEMMA TypedOffers ==
  ASSUME NEW r, r.raw = FALSE, NEW a \in Offered(r)
  PROVE  \/ a.doc = Broken /\ a.allowed = FALSE /\ a.media # "json"
         \/ /\ a.status \in DOMAIN r.call.decode
            /\ LET t == r.call.decode[a.status] IN
               \/ t.media = "none" /\ a.allowed = TRUE /\ a.media = "none"
               \/ t.media # "none" /\ a.media = "json" /\ a.doc = Broken /\ a.allowed = FALSE
               \/ /\ t.media # "none" /\ a.media = "json" /\ a.doc \in Documents(t.schema, t.rule)
                  /\ a.allowed = Described(t, a.doc)
<1>1. CASE a = NoAnswer
  BY <1>1 DEF NoAnswer
<1>2. CASE \E st : a = Answer(st, "text", Broken, FALSE)
  BY <1>2 DEF Answer
<1>3. ASSUME NEW st \in DOMAIN r.call.decode, a \in TypedAnswers(r.call.decode[st], st) PROVE  \/ a.doc = Broken /\ a.allowed = FALSE /\ a.media # "json"
             \/ /\ a.status \in DOMAIN r.call.decode
                /\ LET t == r.call.decode[a.status] IN
                   \/ t.media = "none" /\ a.allowed = TRUE /\ a.media = "none"
                   \/ t.media # "none" /\ a.media = "json" /\ a.doc = Broken /\ a.allowed = FALSE
                   \/ /\ t.media # "none" /\ a.media = "json" /\ a.doc \in Documents(t.schema, t.rule)
                      /\ a.allowed = Described(t, a.doc)
  <2> DEFINE t == r.call.decode[st]
  <2> HIDE DEF t
  <2>0. a \in TypedAnswers(t, st)
    BY <1>3 DEF t
  <2>1. CASE t.media = "none"
    <3>1. a = Answer(st, "none", Empty, TRUE)
      BY <2>0, <2>1 DEF TypedAnswers
    <3> QED
      BY <2>1, <3>1 DEF Answer, t
  <2>2. CASE t.media # "none" /\ \E d \in Documents(t.schema, t.rule) : a = Answer(st, "json", d, Described(t, d))
    BY <2>2 DEF Answer, t
  <2>3. CASE t.media # "none" /\ (a = Answer(st, "json", Broken, FALSE) \/ a = Answer(st, "text", Broken, FALSE))
    BY <2>3 DEF Answer, t
  <2> QED
    BY <2>0, <2>1, <2>2, <2>3 DEF TypedAnswers
<1>4. a = NoAnswer \/ (\E st : a = Answer(st, "text", Broken, FALSE))
      \/ \E st \in DOMAIN r.call.decode : a \in TypedAnswers(r.call.decode[st], st)
  <2> DEFINE listed == IF r.raw THEN {200} ELSE DOMAIN r.call.decode
             U == UNION {TypedAnswers(r.call.decode[st], st) : st \in listed}
             X == {Answer(st, "text", Broken, FALSE) : st \in {404, 500, 503} \ listed}
  <2>1. Offered(r) = {NoAnswer} \cup (IF r.raw THEN BareAnswers ELSE U) \cup X
    BY Zenon DEF Offered
  <2>2. listed = DOMAIN r.call.decode
    OBVIOUS
  <2> HIDE DEF listed
  <2>3. a \in X => \E st : a = Answer(st, "text", Broken, FALSE)
    OBVIOUS
  <2>4. a \in U => \E st \in listed : a \in TypedAnswers(r.call.decode[st], st)
    OBVIOUS
  <2> HIDE DEF U, X
  <2> QED
    BY <2>1, <2>2, <2>3, <2>4
<1> QED
  BY <1>1, <1>2, <1>3, <1>4

\* A described answer is taken as what its status says.
LEMMA DescribedTaken ==
  ASSUME NEW r, TypedRequest(r), NEW a \in Offered(r), a.allowed
  PROVE  Outcome(r, a).kind = "ok" <=> Success(a.status)
<1> DEFINE t == r.call.decode[a.status]
<1>1. a.status \in DOMAIN r.call.decode /\ (t.media = "none" \/ (a.media = "json" /\ Described(t, a.doc)))
  BY TypedOffers DEF TypedRequest
<1>2. TypeOf(r, a) = t.type
  BY <1>1 DEF TypeOf
<1>3. t.type = r.ok <=> Success(a.status)
  BY <1>1 DEF TypedRequest, OkOnSuccess
<1>4. Ok(Value(r, a)).kind = "ok" /\ Error.kind # "ok" /\ Unexpected.kind # "ok"
  BY DEF Ok, Error, Unexpected
<1> HIDE DEF t
<1>5. r.raw = FALSE
  BY DEF TypedRequest
<1>6. CASE TypeOf(r, a) = r.ok
  <2>1. Outcome(r, a) = Ok(Value(r, a))
    BY <1>5, <1>6 DEF Outcome
  <2> QED
    BY <1>2, <1>3, <1>4, <1>6, <2>1
<1>7. CASE TypeOf(r, a) # r.ok
  <2>1. Outcome(r, a) \in {Error, Unexpected}
    BY <1>5, <1>7 DEF Outcome
  <2> QED
    BY <1>2, <1>3, <1>4, <1>7, <2>1
<1> QED
  BY <1>6, <1>7

LEMMA BareTaken ==
  ASSUME leg \in RawLegs, NEW r, r.raw = TRUE, NEW a \in Offered(r), a.allowed
  PROVE  Outcome(r, a).kind = "ok" <=> Success(a.status)
<1>1. a \in BareAnswers
  BY DEF Answer, Offered, NoAnswer
<1>2. a.status = 200 /\ Success(a.status)
  BY <1>1 DEF Answer, BareAnswers, Success
<1>3. BareOK(a)
  <2>1. CASE leg = "Abort"
    <3>1. \E d \in {True, False, Empty} : a = Answer(200, "json", d, TRUE)
      BY <1>1, <2>1 DEF Answer, BareAnswers
    <3>2. a.doc \in {True, False, Empty}
      BY <3>1 DEF Answer
    <3>3. a.doc.k \in {"bool", "empty"}
      <4>1. True.k = "bool" /\ False.k = "bool" /\ Empty.k = "empty"
        BY DEF True, False, Empty
      <4> QED
        BY <3>2, <4>1
    <3> QED
      BY <1>2, <2>1, <3>3 DEF BareOK
  <2>2. CASE leg = "ProvidersAndModels"
    BY <1>1, <1>2, <2>2 DEF Answer, BareAnswers, BareOK
  <2>3. CASE leg \notin {"Abort", "ProvidersAndModels"}
    BY <1>1, <1>2, <2>3 DEF Answer, BareAnswers, BareOK, JObj
  <2> QED
    BY <2>1, <2>2, <2>3
<1> QED
  BY <1>2, <1>3 DEF Outcome, Ok

LEMMA RawLegsBare ==
  ASSUME leg \in RawLegs
  PROVE  Request.raw = TRUE
<1>1. \A path, where : Bare(path, where).raw = TRUE
  BY DEF Bare
<1> QED
  BY <1>1, RequestIs DEF RawLegs, currentProvidersAndModels, Abort

LEMMA NextTaken == LegInv /\ DescribedAnswerTaken /\ [ClientNext]_clientVars => DescribedAnswerTaken'
<1> SUFFICES ASSUME LegInv, DescribedAnswerTaken, [ClientNext]_clientVars PROVE DescribedAnswerTaken'
  OBVIOUS
<1>1. CASE Call
  <2>1. CASE leg' = method
    BY <2>1 DEF LegInv, Methods, DescribedAnswerTaken
  <2>2. CASE leg' = "done" /\ answer' = answer
    BY <1>1, <2>2 DEF Call, LegInv, NoAnswer, DescribedAnswerTaken
  <2> QED
    BY <1>1, <2>1, <2>2 DEF Call
<1>2. ASSUME InProgress, NEW a \in Offered(Request), Answered(a), FallBack(a) \/ ContinueWithModels(a)
      PROVE  DescribedAnswerTaken'
  BY <1>2 DEF FallBack, ContinueWithModels, DescribedAnswerTaken
<1>3. ASSUME InProgress, NEW a \in Offered(Request), Answered(a), Return(a) PROVE DescribedAnswerTaken'
  <2>1. leg \in Legs
    BY <1>3, LegIs
  <2>2. a.allowed => (Outcome(Request, a).kind = "ok" <=> Success(a.status))
    BY <1>3, <2>1, TypedLegs, RawLegsBare, DescribedTaken, BareTaken
  <2>3. answer' = a /\ outcome' = Outcome(Request, a)
    BY <1>3 DEF Answered, Return
  <2> QED
    BY <2>2, <2>3 DEF DescribedAnswerTaken, Success
<1>4. CASE UNCHANGED clientVars
  BY <1>4 DEF clientVars, DescribedAnswerTaken, Success
<1> QED
  BY <1>1, <1>2, <1>3, <1>4 DEF ClientNext

\* What OpenCode did is reported as done, and what it did not as failed,
\* whichever answer within its API it gives to whichever method.
THEOREM AnswersTaken == ClientSpec => []DescribedAnswerTaken
<1>1. ClientInit => DescribedAnswerTaken
  BY DEF ClientInit, DescribedAnswerTaken
<1> QED
  BY <1>1, LegHolds, NextTaken, PTL DEF ClientSpec

-----------------------------------------------------------------------------
(* Requests *)

SoundBody(r) == Sound(r.call.body.schema, r.body) /\ Sound(r.call.body.rule, r.body)

LEMMA NoBodySound ==
  ASSUME NEW r, r.call.body = NoBody, r.body = JNull
  PROVE  SoundBody(r)
<1>1. NoBody.schema = Raw /\ NoBody.rule = Anything
  BY DEF NoBody
<1>2. JNull.k # "broken"
  BY DEF JNull
<1> QED
  BY <1>1, <1>2, SoundSimple DEF SoundBody

\* A text that is left out when there is none.
LEMMA GivenText ==
  ASSUME NEW text, NEW s, text # "" => Sound(s, JStr(text))
  PROVE  Given(text).k = "null" \/ Sound(s, Given(text))
  BY DEF Given, JNull

LEMMA SoundSessionModel == ModelOfSession.k = "null" \/ Sound(OptNilSessionCreateReqModel, ModelOfSession)
<1>1. CASE args.model = ""
  BY <1>1 DEF ModelOfSession, JNull
<1>2. CASE args.model # ""
  <2> DEFINE req == [id |-> Str, providerID |-> Str]
             opt == [variant |-> OptNilString]
             f   == [providerID |-> JStr("provider"), id |-> JStr(args.model)]
  <2>1. ModelOfSession = JObj(f)
    BY <1>2 DEF ModelOfSession
  <2>2. \A n \in DOMAIN f \cap DOMAIN req : Sound(req[n], f[n])
    BY SoundSimple
  <2>3. DOMAIN f = DOMAIN req /\ DOMAIN f \cap DOMAIN opt = {}
    OBVIOUS
  <2>4. SessionCreateReqModel = Object("refuse", req, opt)
    BY DEF SessionCreateReqModel, Strict
  <2> HIDE DEF req, opt, f
  <2>5. Sound(Object("refuse", req, opt), JObj(f))
    BY <2>2, <2>3, SoundObject
  <2>6. Object("refuse", req, opt).t # "nullable"
    BY DEF Object
  <2> QED
    BY <2>1, <2>4, <2>5, <2>6, SoundNullable DEF OptNilSessionCreateReqModel
<1> QED
  BY <1>1, <1>2

LEMMA SoundRuleset ==
  ASSUME NEW action \in {"ask", "deny", "allow"}
  PROVE  LET rules == JArr(<<Rule(action)>>) IN
         Sound(PermissionRuleset, rules) /\ Sound(ValidatePermissionRuleset, rules)
<1> DEFINE req == [action |-> PermissionAction, pattern |-> Str, permission |-> Str]
           val == [action |-> ValidatePermissionAction]
           f   == [permission |-> JStr("*"), pattern |-> JStr("*"), action |-> JStr(action)]
<1>1. \A n \in DOMAIN f : n \in {"action", "pattern", "permission"} /\ req[n] = Str
  BY DEF PermissionAction
<1>2. \A n \in DOMAIN f \cap DOMAIN req : Sound(req[n], f[n])
  <2>1. \A n \in DOMAIN f : \E x : f[n] = JStr(x)
    OBVIOUS
  <2> QED
    BY <1>1, <2>1, SoundSimple
<1>3. DOMAIN f = DOMAIN req /\ DOMAIN NoFields = {}
  BY DEF NoFields
<1>4. \A n \in DOMAIN f \cap DOMAIN val : Sound(val[n], f[n])
  <2>1. action \in {"allow", "deny", "ask"}
    OBVIOUS
  <2>2. Sound(ValidatePermissionAction, JStr(action))
    BY <2>1, SoundSimple DEF ValidatePermissionAction
  <2>3. \A n \in DOMAIN f \cap DOMAIN val : val[n] = ValidatePermissionAction /\ f[n] = JStr(action)
    OBVIOUS
  <2> QED
    BY <2>2, <2>3
<1>5. Rule(action) = JObj(f) /\ PermissionRule = Object("refuse", req, NoFields) /\ ValidatePermissionRule = Rules(val)
  BY DEF Rule, PermissionRule, Strict, ValidatePermissionRule
<1> HIDE DEF req, val, f
<1>6. Sound(PermissionRule, Rule(action))
  BY <1>2, <1>3, <1>5, SoundObject
<1>7. Sound(ValidatePermissionRule, Rule(action))
  BY <1>4, <1>5, SoundRules
<1> DEFINE s == <<Rule(action)>>
<1>8. \A i \in DOMAIN s : s[i] = Rule(action)
  OBVIOUS
<1> HIDE DEF s
<1>9. Sound(Arr(PermissionRule), JArr(s)) /\ Sound(Each(ValidatePermissionRule), JArr(s))
  BY <1>6, <1>7, <1>8, SoundArr, SoundEach
<1> QED
  BY <1>9 DEF s, PermissionRuleset, ValidatePermissionRuleset

LEMMA SoundCreateSession ==
  ASSUME LegInv, InTermsOfTheAPI
  PROVE  SoundBody(CreateSession)
<1> DEFINE P == IF args.action = "none" THEN JNull ELSE JArr(<<Rule(args.action)>>)
           r == [title |-> JStr("text"), parentID |-> Given(args.parentID), agent |-> Given(args.agent),
                 workspaceID |-> Given(args.workspace), model |-> ModelOfSession, permission |-> P]
           opt == [agent |-> OptNilString, metadata |-> SessionCreateReqMetadata,
                   model |-> OptNilSessionCreateReqModel, parentID |-> Str,
                   permission |-> PermissionRuleset, title |-> Str, workspaceID |-> OptNilString]
           val == [parentID |-> Prefix("ses"), permission |-> ValidatePermissionRuleset,
                   workspaceID |-> Prefix("wrk")]
<1>1. /\ CreateSession.body = Fields(r) /\ CreateSession.call.body.schema = Strict(NoFields, opt)
      /\ CreateSession.call.body.rule = Rules(val)
  BY DEF CreateSession, Typed, sendSessionCreate, SessionCreateReq, ValidateSessionCreateReq
<1>2. P.k = "null" \/ (Sound(PermissionRuleset, P) /\ Sound(ValidatePermissionRuleset, P))
  <2>1. args.action \in {"none", "ask", "deny", "allow"}
    BY OpenCodeClientAssumption DEF LegInv
  <2> QED
    BY <2>1, SoundRuleset DEF JNull
<1>3. \A x : Sound(Str, JStr(x)) /\ Sound(OptNilString, JStr(x))
  BY SoundSimple, SoundNullable DEF OptNilString, Str
<1>4. /\ r["title"].k = "null" \/ Sound(Str, r["title"])
      /\ r["parentID"].k = "null" \/ (Sound(Str, r["parentID"]) /\ Sound(Prefix("ses"), r["parentID"]))
      /\ r["agent"].k = "null" \/ Sound(OptNilString, r["agent"])
      /\ r["workspaceID"].k = "null" \/ (Sound(OptNilString, r["workspaceID"]) /\ Sound(Prefix("wrk"), r["workspaceID"]))
      /\ r["model"].k = "null" \/ Sound(OptNilSessionCreateReqModel, r["model"])
      /\ r["permission"].k = "null" \/ (Sound(PermissionRuleset, r["permission"]) /\ Sound(ValidatePermissionRuleset, r["permission"]))
  <2>1. /\ r["title"] = JStr("text") /\ r["parentID"] = Given(args.parentID) /\ r["agent"] = Given(args.agent)
        /\ r["workspaceID"] = Given(args.workspace) /\ r["model"] = ModelOfSession /\ r["permission"] = P
    OBVIOUS
  <2> HIDE DEF P, r, opt, val
  <2>2. /\ args.parentID # "" => Sound(Prefix("ses"), JStr(args.parentID))
        /\ args.workspace # "" => Sound(Prefix("wrk"), JStr(args.workspace))
    BY SoundSimple DEF InTermsOfTheAPI
  <2>3. Given(args.parentID).k = "null" \/ (Sound(Str, Given(args.parentID)) /\ Sound(Prefix("ses"), Given(args.parentID)))
    BY <1>3, <2>2, GivenText
  <2>4. Given(args.workspace).k = "null" \/ (Sound(OptNilString, Given(args.workspace)) /\ Sound(Prefix("wrk"), Given(args.workspace)))
    BY <1>3, <2>2, GivenText
  <2>5. Given(args.agent).k = "null" \/ Sound(OptNilString, Given(args.agent))
    BY <1>3, GivenText
  <2> QED
    BY <1>2, <1>3, <2>1, <2>3, <2>4, <2>5, SoundSessionModel
<1>5. DOMAIN r = {"title", "parentID", "agent", "workspaceID", "model", "permission"}
  OBVIOUS
<1>6. /\ opt["title"] = Str /\ opt["parentID"] = Str /\ opt["agent"] = OptNilString /\ opt["workspaceID"] = OptNilString
      /\ opt["model"] = OptNilSessionCreateReqModel /\ opt["permission"] = PermissionRuleset
      /\ DOMAIN r \subseteq DOMAIN opt /\ DOMAIN NoFields = {}
  BY DEF NoFields
<1>7. /\ val["parentID"] = Prefix("ses") /\ val["workspaceID"] = Prefix("wrk") /\ val["permission"] = ValidatePermissionRuleset
      /\ DOMAIN val = {"parentID", "workspaceID", "permission"}
  OBVIOUS
<1> HIDE DEF r, opt, val, P
<1>8. \A n \in DOMAIN r : r[n].k = "null" \/ Sound(opt[n], r[n])
  BY <1>4, <1>5, <1>6
<1>9. \A n \in DOMAIN r \cap DOMAIN val : r[n].k = "null" \/ Sound(val[n], r[n])
  BY <1>4, <1>7
<1>10. Sound(Strict(NoFields, opt), Fields(r))
  BY <1>6, <1>8, SoundFields
<1>11. Sound(Rules(val), Fields(r))
  BY <1>9, SoundFieldRules
<1> QED
  BY <1>1, <1>10, <1>11 DEF SoundBody

LEMMA SoundPrompt == SoundBody(Prompt)
<1> DEFINE part == [type |-> JStr("text"), text |-> JStr("task")]
           parts == <<JObj(part)>>
           r == [parts |-> JArr(parts), agent |-> Given(args.agent)]
           preq == [type |-> Str]
           popt == [text |-> Str, name |-> Str, id |-> Str]
           req == [parts |-> Arr(SessionMessageReqPartsItem)]
           opt == [agent |-> Str, messageID |-> Str]
           val == [parts |-> NonNil]
<1>1. /\ Prompt.body = Fields(r) /\ Prompt.call.body.schema = Strict(req, opt)
      /\ Prompt.call.body.rule = Rules(val)
  BY DEF Prompt, Typed, sendSessionMessage, SessionMessageReq, ValidateSessionMessageReq
<1>2. SessionMessageReqPartsItem = Object("keep", preq, popt)
  BY DEF SessionMessageReqPartsItem, Keeping
<1>3. /\ DOMAIN preq \subseteq DOMAIN part
      /\ \A n \in DOMAIN part \cap DOMAIN preq : Sound(preq[n], part[n])
      /\ \A n \in DOMAIN part \cap DOMAIN popt : n \notin DOMAIN preq => Sound(popt[n], part[n])
  BY SoundSimple
<1>4. \A i \in DOMAIN parts : parts[i] = JObj(part)
  OBVIOUS
<1>5. /\ DOMAIN r = {"parts", "agent"} /\ r["parts"] = JArr(parts) /\ r["agent"] = Given(args.agent)
      /\ DOMAIN req = {"parts"} /\ req["parts"] = Arr(SessionMessageReqPartsItem)
      /\ DOMAIN opt = {"agent", "messageID"} /\ opt["agent"] = Str
      /\ DOMAIN val = {"parts"} /\ val["parts"] = NonNil
  OBVIOUS
<1> HIDE DEF part, parts, r, preq, popt, req, opt, val
<1>6. Sound(SessionMessageReqPartsItem, JObj(part))
  BY <1>2, <1>3, SoundObject
<1>7. Sound(Arr(SessionMessageReqPartsItem), JArr(parts))
  BY <1>4, <1>6, SoundArr
<1>8. JArr(parts).k # "null" /\ Sound(NonNil, JArr(parts))
  BY SoundSimple DEF JArr, NonNil
<1>9. Given(args.agent).k = "null" \/ Sound(Str, Given(args.agent))
  BY SoundSimple, GivenText
<1>10. Sound(Strict(req, opt), Fields(r))
  BY <1>5, <1>7, <1>8, <1>9, SoundFields
<1>11. Sound(Rules(val), Fields(r))
  BY <1>5, <1>8, SoundFieldRules
<1> QED
  BY <1>1, <1>10, <1>11 DEF SoundBody

LEMMA SoundPermissionReply ==
  ASSUME InTermsOfTheAPI
  PROVE  SoundBody(PermissionReply)
<1> DEFINE r == [reply |-> JStr(args.reply), message |-> Given(args.message)]
           req == [reply |-> PermissionV2Reply]
           opt == [message |-> Str]
           val == [reply |-> ValidatePermissionV2Reply]
<1>1. /\ PermissionReply.body = Fields(r) /\ PermissionReply.call.body.schema = Strict(req, opt)
      /\ PermissionReply.call.body.rule = Rules(val)
  BY DEF PermissionReply, Typed, sendV2SessionPermissionReply, V2SessionPermissionReplyReq, ValidateV2SessionPermissionReplyReq
<1>2. /\ DOMAIN r = {"reply", "message"} /\ r["reply"] = JStr(args.reply) /\ r["message"] = Given(args.message)
      /\ DOMAIN req = {"reply"} /\ req["reply"] = PermissionV2Reply
      /\ DOMAIN opt = {"message"} /\ opt["message"] = Str
      /\ DOMAIN val = {"reply"} /\ val["reply"] = ValidatePermissionV2Reply
  OBVIOUS
<1> HIDE DEF r, req, opt, val
<1>3. JStr(args.reply).k # "null" /\ Sound(PermissionV2Reply, JStr(args.reply))
  BY SoundSimple DEF JStr, PermissionV2Reply
<1>4. Sound(ValidatePermissionV2Reply, JStr(args.reply))
  BY SoundSimple DEF ValidatePermissionV2Reply, InTermsOfTheAPI
<1>5. Given(args.message).k = "null" \/ Sound(Str, Given(args.message))
  BY SoundSimple, GivenText
<1>6. Sound(Strict(req, opt), Fields(r))
  BY <1>2, <1>3, <1>5, SoundFields
<1>7. Sound(Rules(val), Fields(r))
  BY <1>2, <1>4, SoundFieldRules
<1> QED
  BY <1>1, <1>6, <1>7 DEF SoundBody

LEMMA SoundQuestionReply == SoundBody(QuestionReply)
<1>1. CASE args.reject
  <2>1. /\ QuestionReply.call = sendV2SessionQuestionReject /\ QuestionReply.body = JNull
    BY <1>1 DEF QuestionReply, Typed
  <2>2. sendV2SessionQuestionReject.body = NoBody
    BY DEF sendV2SessionQuestionReject
  <2> QED
    BY <2>1, <2>2, NoBodySound
<1>2. CASE ~ args.reject
  <2> DEFINE f == [answers |-> Labels(args.answers)]
             req == [answers |-> Arr(QuestionV2Answer)]
             val == [answers |-> Each(ValidateQuestionV2Answer)]
             L(i) == [j \in DOMAIN args.answers[i] |-> JStr(args.answers[i][j])]
             s == [i \in DOMAIN args.answers |-> JArr(L(i))]
  <2>1. /\ QuestionReply.body = JObj(f) /\ QuestionReply.call = sendV2SessionQuestionReply
    BY <1>2 DEF QuestionReply, Typed
  <2>2. /\ sendV2SessionQuestionReply.body.schema = Strict(req, NoFields)
        /\ sendV2SessionQuestionReply.body.rule = Rules(val)
    BY DEF sendV2SessionQuestionReply, QuestionV2Reply, ValidateQuestionV2Reply
  <2>3. /\ DOMAIN f = {"answers"} /\ f["answers"] = JArr(s) /\ DOMAIN req = {"answers"}
        /\ req["answers"] = Arr(QuestionV2Answer) /\ DOMAIN val = {"answers"}
        /\ val["answers"] = Each(ValidateQuestionV2Answer) /\ DOMAIN NoFields = {}
    BY DEF Labels, NoFields
  <2>4. \A i \in DOMAIN s : Sound(QuestionV2Answer, s[i]) /\ Sound(ValidateQuestionV2Answer, s[i])
    <3> TAKE i \in DOMAIN s
    <3>1. s[i] = JArr(L(i)) /\ \A j \in DOMAIN L(i) : L(i)[j] = JStr(args.answers[i][j])
      OBVIOUS
    <3> HIDE DEF L
    <3>2. \A j \in DOMAIN L(i) : Sound(Str, L(i)[j])
      BY <3>1, SoundSimple
    <3>3. Sound(Arr(Str), JArr(L(i)))
      BY <3>2, SoundArr
    <3> QED
      BY <3>1, <3>3, SoundSimple DEF QuestionV2Answer, ValidateQuestionV2Answer, NonNil
  <2> HIDE DEF s, f, req, val
  <2>5. Sound(Arr(QuestionV2Answer), JArr(s)) /\ Sound(Each(ValidateQuestionV2Answer), JArr(s))
    BY <2>4, SoundArr, SoundEach
  <2>6. Sound(Object("refuse", req, NoFields), JObj(f))
    BY <2>3, <2>5, SoundObject
  <2>7. Sound(Rules(val), JObj(f))
    BY <2>3, <2>5, SoundRules
  <2> QED
    BY <2>1, <2>2, <2>6, <2>7 DEF SoundBody, Strict
<1> QED
  BY <1>1, <1>2

LEMMA EveryBodySound ==
  ASSUME LegInv, InTermsOfTheAPI, leg \in Legs
  PROVE  SoundBody(Request)
<1>1. CASE leg \in RawLegs
  <2>1. \A path, where : Bare(path, where).body = JNull /\ Bare(path, where).call.body = NoBody
    BY DEF Bare
  <2> QED
    BY <1>1, <2>1, RequestIs, NoBodySound DEF RawLegs, currentProvidersAndModels, Abort
<1>2. CASE leg = "Agents"
  <2>1. Agents.call = sendV2AgentList /\ Agents.body = JNull
    BY DEF Agents, Typed
  <2>2. sendV2AgentList.body = NoBody
    BY DEF sendV2AgentList
  <2> QED
    BY <1>2, <2>1, <2>2, RequestIs, NoBodySound
<1>3. CASE leg = "api providers"
  <2>1. apiProviders.call = sendV2ProviderList /\ apiProviders.body = JNull
    BY DEF apiProviders, Typed
  <2>2. sendV2ProviderList.body = NoBody
    BY DEF sendV2ProviderList
  <2> QED
    BY <1>3, <2>1, <2>2, RequestIs, NoBodySound
<1>4. CASE leg = "api models"
  <2>1. apiModels.call = sendV2ModelList /\ apiModels.body = JNull
    BY DEF apiModels, Typed
  <2>2. sendV2ModelList.body = NoBody
    BY DEF sendV2ModelList
  <2> QED
    BY <1>4, <2>1, <2>2, RequestIs, NoBodySound
<1>5. CASE leg = "Sessions"
  <2>1. Sessions.call = sendV2SessionList /\ Sessions.body = JNull
    BY DEF Sessions, Typed
  <2>2. sendV2SessionList.body = NoBody
    BY DEF sendV2SessionList
  <2> QED
    BY <1>5, <2>1, <2>2, RequestIs, NoBodySound
<1>6. CASE leg = "Messages"
  <2>1. Messages.call = sendSessionMessages /\ Messages.body = JNull
    BY DEF Messages, Typed
  <2>2. sendSessionMessages.body = NoBody
    BY DEF sendSessionMessages
  <2> QED
    BY <1>6, <2>1, <2>2, RequestIs, NoBodySound
<1>7. CASE leg = "Context"
  <2>1. Context.call = sendV2SessionContext /\ Context.body = JNull
    BY DEF Context, Typed
  <2>2. sendV2SessionContext.body = NoBody
    BY DEF sendV2SessionContext
  <2> QED
    BY <1>7, <2>1, <2>2, RequestIs, NoBodySound
<1>8. CASE leg = "Permissions"
  <2>1. Permissions.call = sendV2PermissionRequestList /\ Permissions.body = JNull
    BY DEF Permissions, Typed
  <2>2. sendV2PermissionRequestList.body = NoBody
    BY DEF sendV2PermissionRequestList
  <2> QED
    BY <1>8, <2>1, <2>2, RequestIs, NoBodySound
<1>9. CASE leg = "Questions"
  <2>1. Questions.call = sendV2QuestionRequestList /\ Questions.body = JNull
    BY DEF Questions, Typed
  <2>2. sendV2QuestionRequestList.body = NoBody
    BY DEF sendV2QuestionRequestList
  <2> QED
    BY <1>9, <2>1, <2>2, RequestIs, NoBodySound
<1>10. CASE leg = "SessionPermissionRequests"
  <2>1. SessionPermissionRequests.call = sendV2SessionPermissionList /\ SessionPermissionRequests.body = JNull
    BY DEF SessionPermissionRequests, Typed
  <2>2. sendV2SessionPermissionList.body = NoBody
    BY DEF sendV2SessionPermissionList
  <2> QED
    BY <1>10, <2>1, <2>2, RequestIs, NoBodySound
<1>11. CASE leg = "SessionQuestionRequests"
  <2>1. SessionQuestionRequests.call = sendV2QuestionRequestList /\ SessionQuestionRequests.body = JNull
    BY DEF SessionQuestionRequests, Typed
  <2>2. sendV2QuestionRequestList.body = NoBody
    BY DEF sendV2QuestionRequestList
  <2> QED
    BY <1>11, <2>1, <2>2, RequestIs, NoBodySound
<1>12. CASE leg = "Wait"
  <2>1. Wait.call = sendV2SessionWait /\ Wait.body = JNull
    BY DEF Wait, Typed
  <2>2. sendV2SessionWait.body = NoBody
    BY DEF sendV2SessionWait
  <2> QED
    BY <1>12, <2>1, <2>2, RequestIs, NoBodySound
<1>13. CASE leg \in {"CreateSession", "Prompt", "PermissionReply", "QuestionReply"}
  BY <1>13, RequestIs, SoundCreateSession, SoundPrompt, SoundPermissionReply, SoundQuestionReply
<1> QED
  BY <1>1, <1>2, <1>3, <1>4, <1>5, <1>6, <1>7, <1>8, <1>9, <1>10, <1>11, <1>12, <1>13 DEF Legs, Methods, RawLegs

\* What the client sends is what the description of the API allows, for
\* every argument, as long as its caller passes on identifiers that the API
\* gave it, and one of the three replies.
THEOREM BodiesFollow == ClientSpec => []BodyFollowsDescription
<1>1. LegInv => BodyFollowsDescription
  <2> SUFFICES ASSUME LegInv, InProgress, InTermsOfTheAPI PROVE Described(Request.call.body, Request.body)
    BY DEF BodyFollowsDescription
  <2>1. SoundBody(Request)
    BY LegIs, EveryBodySound
  <2> QED
    BY <2>1, SoundIsTaken DEF SoundBody, Described
<1> QED
  BY <1>1, LegHolds, PTL

-----------------------------------------------------------------------------
(* What is decoded, encoded again *)

\* One level of Encode: of each value, with what is within it done before.
EncodedAt(met, n, before) == [m \in met |-> IF n = 0 THEN m[2] ELSE Rebuilt(m[1], m[2], before)]

Encoding(e, s, d) ==
    /\ Encoded(s, d) = e[Depth][<<s, d>>]
    /\ \A n \in 0 .. Depth : e[n] = EncodedAt(Met(s, d), n, e[n - 1])

LEMMA EncodedLevels ==
  ASSUME NEW s, NEW d
  PROVE  \E e : Encoding(e, s, d)
<1> DEFINE met == Met(s, d)
           Rec(h) == [n \in 0 .. Depth |-> [m \in met |-> IF n = 0 THEN m[2] ELSE Rebuilt(m[1], m[2], h[n - 1])]]
<1>1. Encoded(s, d) = (CHOOSE h : h = Rec(h))[7][<<s, d>>]
  BY DEF Encoded, Depth
<1> HIDE DEF met
<1>2. \E h : h = Rec(h)
  <2> DEFINE e0 == EncodedAt(met, 0, <<>>)
             e1 == EncodedAt(met, 1, e0)
             e2 == EncodedAt(met, 2, e1)
             e3 == EncodedAt(met, 3, e2)
             e4 == EncodedAt(met, 4, e3)
             e5 == EncodedAt(met, 5, e4)
             e6 == EncodedAt(met, 6, e5)
             e7 == EncodedAt(met, 7, e6)
             h  == [n \in 0 .. 7 |-> IF n = 0 THEN e0 ELSE IF n = 1 THEN e1 ELSE IF n = 2 THEN e2
                                     ELSE IF n = 3 THEN e3 ELSE IF n = 4 THEN e4 ELSE IF n = 5 THEN e5
                                     ELSE IF n = 6 THEN e6 ELSE e7]
  <2>1. \A x, y : EncodedAt(met, 0, x) = EncodedAt(met, 0, y)
    BY DEF EncodedAt
  <2>2. e0 = EncodedAt(met, 0, <<>>) /\ e1 = EncodedAt(met, 1, e0) /\ e2 = EncodedAt(met, 2, e1)
        /\ e3 = EncodedAt(met, 3, e2) /\ e4 = EncodedAt(met, 4, e3) /\ e5 = EncodedAt(met, 5, e4)
        /\ e6 = EncodedAt(met, 6, e5) /\ e7 = EncodedAt(met, 7, e6)
    OBVIOUS
  <2> HIDE DEF e0, e1, e2, e3, e4, e5, e6, e7
  <2>3. ASSUME NEW n \in 0 .. 7 PROVE h[n] = EncodedAt(met, n, h[n - 1])
    <3>1. \/ n = 0 \/ (n = 1 /\ n - 1 = 0) \/ (n = 2 /\ n - 1 = 1) \/ (n = 3 /\ n - 1 = 2)
          \/ (n = 4 /\ n - 1 = 3) \/ (n = 5 /\ n - 1 = 4) \/ (n = 6 /\ n - 1 = 5) \/ (n = 7 /\ n - 1 = 6)
      OBVIOUS
    <3>2. /\ h[0] = e0 /\ h[1] = e1 /\ h[2] = e2 /\ h[3] = e3 /\ h[4] = e4 /\ h[5] = e5
          /\ h[6] = e6 /\ h[7] = e7
      OBVIOUS
    <3> HIDE DEF h
    <3> QED
      BY <2>1, <2>2, <3>1, <3>2
  <2>4. h = [n \in 0 .. 7 |-> EncodedAt(met, n, h[n - 1])]
    <3>1. h = [n \in 0 .. 7 |-> h[n]]
      OBVIOUS
    <3> HIDE DEF h
    <3> QED
      BY <2>3, <3>1
  <2> HIDE DEF h
  <2>5. h = Rec(h)
    BY <2>4, Zenon DEF Depth, EncodedAt
  <2> HIDE DEF Rec
  <2> QED
    BY <2>5
<1>3. PICK h : h = Rec(h) /\ Encoded(s, d) = h[7][<<s, d>>]
  <2> HIDE DEF Rec
  <2> QED
    BY <1>1, <1>2
<1>4. \A n \in 0 .. 7 : Rec(h)[n] = EncodedAt(met, n, h[n - 1])
  BY DEF Depth, EncodedAt
<1> HIDE DEF Rec
<1>5. \A n \in 0 .. 7 : h[n] = EncodedAt(met, n, h[n - 1])
  BY <1>3, <1>4
<1> QED
  BY <1>3, <1>5 DEF met, Depth, Encoding

\* A value is what it was if what is within it is.
LEMMA RebuiltSame ==
  ASSUME NEW s, NEW d, NEW w, IsValue(d), NonNull(s).t = "obj" => NonNull(s).rest = "keep",
         \A c \in Inside(s, d) : w[c] = c[2]
  PROVE  Rebuilt(s, d, w) = d
<1> DEFINE t == NonNull(s)
<1> HIDE DEF t
<1>1. CASE t.t = "arr" /\ d.k = "arr"
  <2>1. Rebuilt(s, d, w) = JArr([i \in DOMAIN d.a |-> w[<<t.of, d.a[i]>>]])
    BY <1>1 DEF Rebuilt, t
  <2>2. Inside(s, d) = {<<t.of, d.a[i]>> : i \in DOMAIN d.a}
    BY <1>1 DEF Inside, t
  <2>3. \A i \in DOMAIN d.a : w[<<t.of, d.a[i]>>] = d.a[i]
    BY <2>2
  <2>4. [i \in DOMAIN d.a |-> w[<<t.of, d.a[i]>>]] = [i \in DOMAIN d.a |-> d.a[i]]
    BY <2>3
  <2>5. d = JArr(d.a) /\ d.a = [i \in DOMAIN d.a |-> d.a[i]]
    BY <1>1 DEF IsValue
  <2> QED
    BY <2>1, <2>4, <2>5
<1>2. CASE t.t = "obj" /\ d.k = "obj"
  <2> DEFINE f == [n \in DOMAIN d.f |-> IF n \in Known(t) THEN w[<<Field(t, n), d.f[n]>>] ELSE d.f[n]]
  <2>1. Rebuilt(s, d, w) = JObj(f)
    BY <1>2 DEF Rebuilt, t
  <2>2. Inside(s, d) = {<<Field(t, n), d.f[n]>> : n \in DOMAIN d.f \cap Known(t)}
    BY <1>2 DEF Inside, t
  <2>3. \A n \in DOMAIN d.f \cap Known(t) : w[<<Field(t, n), d.f[n]>>] = d.f[n]
    BY <2>2
  <2>4. f = [n \in DOMAIN d.f |-> d.f[n]]
    BY <2>3
  <2>5. d = JObj([x \in DOMAIN d.f |-> d.f[x]])
    BY <1>2 DEF IsValue
  <2> HIDE DEF f
  <2> QED
    BY <2>1, <2>4, <2>5
<1>3. CASE ~ (t.t = "arr" /\ d.k = "arr") /\ ~ (t.t = "obj" /\ d.k = "obj")
  BY <1>3 DEF Rebuilt, t
<1> QED
  BY <1>1, <1>2, <1>3

\* Nothing is lost of types that keep what they do not know, if the walk
\* reaches the end of them.
LEMMA KeptWhole ==
  ASSUME NEW s, NEW d, NEW g, Levels(g, s, d), Met(s, d) = UNION {g[n] : n \in 0 .. Depth}, g[5] = {},
         \A m \in Met(s, d) : IsValue(m[2]) /\ (NonNull(m[1]).t = "obj" => NonNull(m[1]).rest = "keep")
  PROVE  Encoded(s, d) = d
<1> DEFINE met == Met(s, d)
<1>1. <<s, d>> \in met
  BY DEF Levels, Depth
<1>2. \A m \in met : Inside(m[1], m[2]) \subseteq met
  <2>1. Below({}) = {}
    BY DEF Below
  <2>2. g[6] = {} /\ g[7] = {}
    <3>1. 6 \in 1 .. 7 /\ 7 \in 1 .. 7 /\ 6 - 1 = 5 /\ 7 - 1 = 6
      OBVIOUS
    <3> QED
      BY <2>1, <3>1 DEF Levels, Depth
  <2>3. ASSUME NEW m \in met PROVE \E n \in 0 .. 4 : m \in g[n]
    <3>1. PICK n \in 0 .. 7 : m \in g[n]
      BY DEF Depth
    <3>2. n \in 0 .. 4 \/ n = 5 \/ n = 6 \/ n = 7
      OBVIOUS
    <3> QED
      BY <2>2, <3>1, <3>2
  <2> TAKE m \in met
  <2>4. PICK n \in 0 .. 4 : m \in g[n]
    BY <2>3
  <2>5. n + 1 \in 1 .. 7 /\ n + 1 - 1 = n /\ n + 1 \in 0 .. 7
    OBVIOUS
  <2>6. g[n + 1] = Below(g[n])
    BY <2>5 DEF Levels, Depth
  <2>7. Inside(m[1], m[2]) \subseteq g[n + 1]
    BY <2>4, <2>6 DEF Below
  <2> QED
    BY <2>5, <2>7 DEF Depth
<1> HIDE DEF met
<1>3. PICK e : Encoded(s, d) = e[7][<<s, d>>] /\ \A n \in 0 .. 7 : e[n] = EncodedAt(met, n, e[n - 1])
  <2>1. PICK e : Encoding(e, s, d)
    BY EncodedLevels
  <2> QED
    BY <2>1 DEF met, Depth, Encoding
<1> DEFINE T == {n \in Nat : n \in 0 .. 7 => \A m \in met : e[n][m] = m[2]}
<1>4. 0 \in T
  BY <1>3 DEF EncodedAt
<1>5. ASSUME NEW n \in 0 .. 6, n \in T PROVE n + 1 \in T
  <2>1. n \in 0 .. 7 /\ n + 1 \in 0 .. 7 /\ n + 1 - 1 = n /\ n + 1 \in Nat /\ n + 1 # 0
    OBVIOUS
  <2>2. \A m \in met : e[n][m] = m[2]
    BY <1>5, <2>1
  <2>3. \A m \in met : e[n + 1][m] = Rebuilt(m[1], m[2], e[n])
    BY <1>3, <2>1 DEF EncodedAt
  <2>4. ASSUME NEW m \in met PROVE Rebuilt(m[1], m[2], e[n]) = m[2]
    BY <1>2, <2>2, RebuiltSame DEF met
  <2> QED
    BY <2>1, <2>3, <2>4
<1>6. 0 .. 7 \subseteq T
  <2>1. 7 \in Nat /\ 7 - 1 = 6 /\ T \in SUBSET Nat
    OBVIOUS
  <2> QED
    BY <1>4, <1>5, <2>1, EachNatural
<1> QED
  BY <1>1, <1>3, <1>6

\* What is below an array, or below an object, and what it is decoded with.
LEMMA InsideArr ==
  ASSUME NEW s, NEW d, NEW c \in Inside(Arr(s), d)
  PROVE  d.k = "arr" /\ \E i \in DOMAIN d.a : c = <<s, d.a[i]>>
<1>1. NonNull(Arr(s)) = Arr(s) /\ Arr(s).t = "arr" /\ Arr(s).of = s
  BY DEF NonNull, Arr
<1> QED
  BY <1>1 DEF Inside

LEMMA InsideObject ==
  ASSUME NEW rest, NEW req, NEW opt, NEW d, NEW c \in Inside(Object(rest, req, opt), d)
  PROVE  d.k = "obj" /\ \E n \in DOMAIN d.f \cap (DOMAIN req \cup DOMAIN opt) :
                            c = <<IF n \in DOMAIN req THEN req[n] ELSE opt[n], d.f[n]>>
<1> DEFINE t == Object(rest, req, opt)
<1>1. NonNull(t) = t /\ t.t = "obj" /\ t.req = req /\ t.opt = opt
  BY DEF NonNull, Object
<1> HIDE DEF t
<1>2. d.k = "obj" /\ c \in {<<Field(t, n), d.f[n]>> : n \in DOMAIN d.f \cap Known(t)}
  <2>1. c \in Inside(t, d)
    BY DEF t
  <2> QED
    BY <1>1, <2>1 DEF Inside
<1> QED
  BY <1>1, <1>2 DEF Field, Known

LEMMA InsideRaw ==
  ASSUME NEW d
  PROVE  Inside(Str, d) = {} /\ Inside(Raw, d) = {}
  BY DEF Inside, NonNull, Str, Raw

LEMMA InsideDict ==
  ASSUME NEW s, NEW d, NEW c \in Inside(Dict(s), d)
  PROVE  c[1] = s
<1>1. NonNull(Dict(s)) = Dict(s) /\ Dict(s).t = "dict" /\ Dict(s).of = s
  BY DEF NonNull, Dict
<1> QED
  BY <1>1 DEF Inside

\* The types on each level of messages, and of one.
LEMMA MessageTypes ==
  ASSUME NEW d, NEW g, Levels(g, SessionMessagesOKApplicationJSON, d)
  PROVE  /\ \A m \in g[0] : m[1] = SessionMessagesOKApplicationJSON
         /\ \A m \in g[1] : m[1] = SessionMessagesOKItem
         /\ \A m \in g[2] : m[1] \in {SessionMessagesOKItemInfo, Arr(SessionMessagesOKItemPartsItem)}
         /\ \A m \in g[3] : m[1] \in {Str, SessionMessagesOKItemPartsItem}
         /\ \A m \in g[4] : m[1] = Raw
         /\ g[5] = {}
<1>1. /\ g[0] = {<<SessionMessagesOKApplicationJSON, d>>} /\ g[1] = Below(g[0]) /\ g[2] = Below(g[1])
      /\ g[3] = Below(g[2]) /\ g[4] = Below(g[3]) /\ g[5] = Below(g[4])
  <2>1. /\ 1 \in 1 .. 7 /\ 2 \in 1 .. 7 /\ 3 \in 1 .. 7 /\ 4 \in 1 .. 7 /\ 5 \in 1 .. 7
        /\ 1 - 1 = 0 /\ 2 - 1 = 1 /\ 3 - 1 = 2 /\ 4 - 1 = 3 /\ 5 - 1 = 4
    OBVIOUS
  <2> QED
    BY <2>1 DEF Levels, Depth
<1>2. \A n \in 0 .. 4 : \A c \in Below(g[n]) : \E m \in g[n] : c \in Inside(m[1], m[2])
  BY DEF Below
<1>3. \A m \in g[0] : m[1] = SessionMessagesOKApplicationJSON
  BY <1>1
<1>4. \A m \in g[1] : m[1] = SessionMessagesOKItem
  <2> TAKE c \in g[1]
  <2>1. PICK m \in g[0] : c \in Inside(m[1], m[2])
    BY <1>1, <1>2
  <2>2. m[1] = Arr(SessionMessagesOKItem)
    BY <1>3, <2>1 DEF SessionMessagesOKApplicationJSON
  <2>3. \E i \in DOMAIN m[2].a : c = <<SessionMessagesOKItem, m[2].a[i]>>
    BY <2>1, <2>2, InsideArr
  <2> QED
    BY <2>3
<1>5. \A m \in g[2] : m[1] \in {SessionMessagesOKItemInfo, Arr(SessionMessagesOKItemPartsItem)}
  <2> TAKE c \in g[2]
  <2>1. PICK m \in g[1] : c \in Inside(m[1], m[2])
    BY <1>1, <1>2
  <2> DEFINE req == [info |-> SessionMessagesOKItemInfo, parts |-> Arr(SessionMessagesOKItemPartsItem)]
  <2>2. m[1] = Object("keep", req, NoFields) /\ DOMAIN NoFields = {}
    BY <1>4, <2>1 DEF SessionMessagesOKItem, Keeping, NoFields
  <2>3. \A n \in DOMAIN req : req[n] \in {SessionMessagesOKItemInfo, Arr(SessionMessagesOKItemPartsItem)}
    OBVIOUS
  <2> HIDE DEF req
  <2>4. \E n \in DOMAIN req : c = <<req[n], m[2].f[n]>>
    BY <2>1, <2>2, InsideObject
  <2> QED
    BY <2>3, <2>4
<1>6. \A m \in g[3] : m[1] \in {Str, SessionMessagesOKItemPartsItem}
  <2> TAKE c \in g[3]
  <2>1. PICK m \in g[2] : c \in Inside(m[1], m[2])
    BY <1>1, <1>2
  <2>2. CASE m[1] = Arr(SessionMessagesOKItemPartsItem)
    <3>1. \E i \in DOMAIN m[2].a : c = <<SessionMessagesOKItemPartsItem, m[2].a[i]>>
      BY <2>1, <2>2, InsideArr
    <3> QED
      BY <3>1
  <2>3. CASE m[1] = SessionMessagesOKItemInfo
    <3> DEFINE req == [id |-> Str, role |-> Str]
    <3>1. m[1] = Object("keep", req, NoFields) /\ DOMAIN NoFields = {} /\ \A n \in DOMAIN req : req[n] = Str
      BY <2>3 DEF SessionMessagesOKItemInfo, Keeping, NoFields
    <3> HIDE DEF req
    <3>2. \E n \in DOMAIN req : c = <<req[n], m[2].f[n]>>
      BY <2>1, <3>1, InsideObject
    <3> QED
      BY <3>1, <3>2
  <2> QED
    BY <1>5, <2>1, <2>2, <2>3
<1>7. \A m \in g[4] : m[1] = Raw
  <2> TAKE c \in g[4]
  <2>1. PICK m \in g[3] : c \in Inside(m[1], m[2])
    BY <1>1, <1>2
  <2>2. m[1] # Str
    BY <2>1, InsideRaw
  <2>3. m[1] = Dict(Raw)
    BY <1>6, <2>1, <2>2 DEF SessionMessagesOKItemPartsItem
  <2> QED
    BY <2>1, <2>3, InsideDict
<1>8. g[5] = {}
  <2> SUFFICES ASSUME NEW c \in g[5] PROVE FALSE
    OBVIOUS
  <2>1. PICK m \in g[4] : c \in Inside(m[1], m[2])
    BY <1>1, <1>2
  <2> QED
    BY <1>7, <2>1, InsideRaw
<1> QED
  BY <1>3, <1>4, <1>5, <1>6, <1>7, <1>8

LEMMA PromptTypes ==
  ASSUME NEW d, NEW g, Levels(g, SessionMessageOK, d)
  PROVE  /\ \A m \in g[0] : m[1] = SessionMessageOK
         /\ \A m \in g[1] : m[1] = SessionMessageOKInfo
         /\ \A m \in g[2] : m[1] = Str
         /\ g[3] = {} /\ g[4] = {} /\ g[5] = {}
<1>1. /\ g[0] = {<<SessionMessageOK, d>>} /\ g[1] = Below(g[0]) /\ g[2] = Below(g[1])
      /\ g[3] = Below(g[2]) /\ g[4] = Below(g[3]) /\ g[5] = Below(g[4])
  <2>1. /\ 1 \in 1 .. 7 /\ 2 \in 1 .. 7 /\ 3 \in 1 .. 7 /\ 4 \in 1 .. 7 /\ 5 \in 1 .. 7
        /\ 1 - 1 = 0 /\ 2 - 1 = 1 /\ 3 - 1 = 2 /\ 4 - 1 = 3 /\ 5 - 1 = 4
    OBVIOUS
  <2> QED
    BY <2>1 DEF Levels, Depth
<1>2. \A n \in 0 .. 4 : \A c \in Below(g[n]) : \E m \in g[n] : c \in Inside(m[1], m[2])
  BY DEF Below
<1>3. \A m \in g[0] : m[1] = SessionMessageOK
  BY <1>1
<1>4. \A m \in g[1] : m[1] = SessionMessageOKInfo
  <2> TAKE c \in g[1]
  <2>1. PICK m \in g[0] : c \in Inside(m[1], m[2])
    BY <1>1, <1>2
  <2> DEFINE req == [info |-> SessionMessageOKInfo]
  <2>2. /\ m[1] = Object("keep", req, NoFields) /\ DOMAIN NoFields = {}
        /\ \A n \in DOMAIN req : req[n] = SessionMessageOKInfo
    BY <1>3, <2>1 DEF SessionMessageOK, Keeping, NoFields
  <2> HIDE DEF req
  <2>3. \E n \in DOMAIN req : c = <<req[n], m[2].f[n]>>
    BY <2>1, <2>2, InsideObject
  <2> QED
    BY <2>2, <2>3
<1>5. \A m \in g[2] : m[1] = Str
  <2> TAKE c \in g[2]
  <2>1. PICK m \in g[1] : c \in Inside(m[1], m[2])
    BY <1>1, <1>2
  <2> DEFINE req == [id |-> Str, role |-> Str]
  <2>2. m[1] = Object("keep", req, NoFields) /\ DOMAIN NoFields = {} /\ \A n \in DOMAIN req : req[n] = Str
    BY <1>4, <2>1 DEF SessionMessageOKInfo, Keeping, NoFields
  <2> HIDE DEF req
  <2>3. \E n \in DOMAIN req : c = <<req[n], m[2].f[n]>>
    BY <2>1, <2>2, InsideObject
  <2> QED
    BY <2>2, <2>3
<1>6. g[3] = {}
  <2> SUFFICES ASSUME NEW c \in g[3] PROVE FALSE
    OBVIOUS
  <2>1. PICK m \in g[2] : c \in Inside(m[1], m[2])
    BY <1>1, <1>2
  <2> QED
    BY <1>5, <2>1, InsideRaw
<1>7. Below({}) = {}
  BY DEF Below
<1> QED
  BY <1>1, <1>3, <1>4, <1>5, <1>6, <1>7

LEMMA MessagesEncoded ==
  ASSUME NEW s \in {SessionMessagesOKApplicationJSON, SessionMessageOK}, NEW d,
         \A m \in Met(s, d) : IsValue(m[2])
  PROVE  Encoded(s, d) = d
<1>1. PICK g : Levels(g, s, d) /\ Met(s, d) = UNION {g[n] : n \in 0 .. Depth}
  BY LevelsExist
<1> DEFINE Keeps(t) == NonNull(t).t = "obj" => NonNull(t).rest = "keep"
<1>2. \A req, opt : Keeps(Object("keep", req, opt))
  BY DEF Object, NonNull
<1>3. \A t : Keeps(Arr(t)) /\ Keeps(Dict(t)) /\ Keeps(Str) /\ Keeps(Raw)
  BY DEF Arr, Dict, Str, Raw, NonNull
<1>4. /\ Keeps(SessionMessagesOKApplicationJSON) /\ Keeps(SessionMessagesOKItem) /\ Keeps(SessionMessagesOKItemInfo)
      /\ Keeps(SessionMessagesOKItemPartsItem) /\ Keeps(SessionMessageOK) /\ Keeps(SessionMessageOKInfo)
  <2> HIDE DEF Keeps
  <2> QED
    BY <1>2, <1>3, Zenon DEF SessionMessagesOKApplicationJSON, SessionMessagesOKItem, SessionMessagesOKItemInfo,
                      SessionMessagesOKItemPartsItem, SessionMessageOK, SessionMessageOKInfo, Keeping
<1>5. g[5] = {} /\ \A n \in 0 .. 4 : \A m \in g[n] : Keeps(m[1])
  <2> HIDE DEF Keeps
  <2>0. \A n \in 0 .. 4 : n = 0 \/ n = 1 \/ n = 2 \/ n = 3 \/ n = 4
    OBVIOUS
  <2>1. CASE s = SessionMessagesOKApplicationJSON
    BY <1>1, <1>3, <1>4, <2>0, <2>1, MessageTypes
  <2>2. CASE s = SessionMessageOK
    BY <1>1, <1>3, <1>4, <2>0, <2>2, PromptTypes
  <2> QED
    BY <2>1, <2>2
<1>6. g[6] = {} /\ g[7] = {}
  <2>1. Below({}) = {}
    BY DEF Below
  <2>2. 6 \in 1 .. 7 /\ 7 \in 1 .. 7 /\ 6 - 1 = 5 /\ 7 - 1 = 6
    OBVIOUS
  <2> QED
    BY <1>1, <1>5, <2>1, <2>2 DEF Levels, Depth
<1>7. \A m \in Met(s, d) : Keeps(m[1])
  <2> HIDE DEF Keeps
  <2> TAKE m \in Met(s, d)
  <2>1. PICK n \in 0 .. 7 : m \in g[n]
    BY <1>1 DEF Depth
  <2>2. n \in 0 .. 4 \/ n = 5 \/ n = 6 \/ n = 7
    OBVIOUS
  <2> QED
    BY <1>5, <1>6, <2>1, <2>2
<1> QED
  BY <1>1, <1>5, <1>7, KeptWhole

-----------------------------------------------------------------------------
(* What a method returns *)

LEMMA RootFits ==
  ASSUME NEW s, NEW d, Decodes(s, d)
  PROVE  Fits(s, d)
<1>1. PICK g : Levels(g, s, d) /\ Met(s, d) = UNION {g[n] : n \in 0 .. Depth}
  BY LevelsExist
<1>2. <<s, d>> \in Met(s, d)
  BY <1>1 DEF Levels, Depth
<1> QED
  BY <1>2 DEF Decodes

\* An answer that makes a typed request succeed.
LEMMA OkAnswer ==
  ASSUME NEW r, TypedRequest(r), r.ok # "", NEW a \in Offered(r), Outcome(r, a).kind = "ok",
         NEW t, \A st \in DOMAIN r.call.decode : r.call.decode[st].type = r.ok => r.call.decode[st] = t,
         t.media = "json", t.schema.t \in {"obj", "arr"}
  PROVE  /\ t \in AnswerTypes /\ a.doc \in Documents(t.schema, t.rule) /\ Described(t, a.doc)
         /\ Outcome(r, a) = Ok(Value(r, a)) /\ TypeOf(r, a) = r.ok
         /\ r.call.decode[a.status] = t
<1>1. r.raw = FALSE /\ r.call \in Calls
  BY DEF TypedRequest
<1>2. Error.kind # "ok" /\ Unexpected.kind # "ok"
  BY DEF Error, Unexpected
<1>3. TypeOf(r, a) = r.ok /\ Outcome(r, a) = Ok(Value(r, a))
  BY <1>1, <1>2 DEF Outcome
<1>4. /\ a.status \in DOMAIN r.call.decode /\ r.call.decode[a.status].type = r.ok
      /\ LET u == r.call.decode[a.status] IN u.media = "none" \/ (a.media = "json" /\ Described(u, a.doc))
  BY <1>3 DEF TypeOf
<1>5. r.call.decode[a.status] = t
  BY <1>4
<1>6. a.media = "json" /\ Described(t, a.doc)
  BY <1>4, <1>5
<1>7. a.doc # Broken
  <2>1. Fits(t.schema, a.doc)
    BY <1>6, RootFits DEF Described
  <2>2. ~ Fits(t.schema, Broken)
    BY DEF Fits, FitsNonNull, NonNull, Broken
  <2> QED
    BY <2>1, <2>2
<1>8. a.doc \in Documents(t.schema, t.rule)
  BY <1>1, <1>5, <1>6, <1>7, TypedOffers
<1>9. t \in AnswerTypes
  <2>1. \E call \in Calls : \E st \in DOMAIN call.decode : t = call.decode[st]
    BY <1>1, <1>4, <1>5
  <2> DEFINE D(call) == {call.decode[st] : st \in DOMAIN call.decode}
  <2>2. AnswerTypes = UNION {D(call) : call \in Calls}
    BY DEF AnswerTypes
  <2>3. \A call \in Calls : \A st \in DOMAIN call.decode : call.decode[st] \in D(call)
    OBVIOUS
  <2> HIDE DEF D
  <2>4. \A call \in Calls : D(call) \subseteq AnswerTypes
    BY <2>2
  <2> QED
    BY <2>1, <2>3, <2>4
<1> QED
  BY <1>3, <1>5, <1>6, <1>8, <1>9

LEMMA MessagesReturned ==
  ASSUME leg \in {"Messages", "Prompt"}, NEW a \in Offered(Request), Outcome(Request, a).kind = "ok"
  PROVE  Outcome(Request, a).value = a.doc
<1> DEFINE r == Request
           t == r.call.decode[200]
<1>1. TypedRequest(r)
  BY TypedLegs DEF Legs, Methods, RawLegs
<1>2. /\ r.ok # "" /\ \A st \in DOMAIN r.call.decode : r.call.decode[st].type = r.ok => r.call.decode[st] = t
      /\ t.media = "json" /\ t.schema \in {SessionMessagesOKApplicationJSON, SessionMessageOK}
  <2>1. CASE leg = "Messages"
    <3>1. r.call.decode = decodeSessionMessages /\ r.ok = "SessionMessagesOKApplicationJSON"
      <4>1. Messages.call = sendSessionMessages /\ Messages.ok = "SessionMessagesOKApplicationJSON"
        BY DEF Messages, Typed
      <4>2. sendSessionMessages.decode = decodeSessionMessages
        BY DEF sendSessionMessages
      <4> QED
        BY <2>1, <4>1, <4>2, RequestIs
    <3>2. /\ DOMAIN decodeSessionMessages = {200, 400, 401, 404}
          /\ decodeSessionMessages[200].media = "json"
          /\ decodeSessionMessages[200].schema = SessionMessagesOKApplicationJSON
          /\ decodeSessionMessages[400].type # "SessionMessagesOKApplicationJSON"
          /\ decodeSessionMessages[401].type # "SessionMessagesOKApplicationJSON"
          /\ decodeSessionMessages[404].type # "SessionMessagesOKApplicationJSON"
      BY DEF decodeSessionMessages, Checked, Decoded
    <3> HIDE DEF r
    <3> QED
      BY <3>1, <3>2
  <2>2. CASE leg = "Prompt"
    <3>1. r.call.decode = decodeSessionMessage /\ r.ok = "SessionMessageOK"
      <4>1. Prompt.call = sendSessionMessage /\ Prompt.ok = "SessionMessageOK"
        BY DEF Prompt, Typed
      <4>2. sendSessionMessage.decode = decodeSessionMessage
        BY DEF sendSessionMessage
      <4> QED
        BY <2>2, <4>1, <4>2, RequestIs
    <3>2. /\ DOMAIN decodeSessionMessage = {200, 400, 401, 404, 409}
          /\ decodeSessionMessage[200].media = "json"
          /\ decodeSessionMessage[200].schema = SessionMessageOK
          /\ decodeSessionMessage[400].type # "SessionMessageOK"
          /\ decodeSessionMessage[401].type # "SessionMessageOK"
          /\ decodeSessionMessage[404].type # "SessionMessageOK"
          /\ decodeSessionMessage[409].type # "SessionMessageOK"
      BY DEF decodeSessionMessage, Checked, Decoded
    <3> HIDE DEF r
    <3> QED
      BY <3>1, <3>2
  <2> QED
    BY <2>1, <2>2
<1>3. t.schema.t \in {"obj", "arr"}
  <2>1. SessionMessagesOKApplicationJSON.t = "arr" /\ SessionMessageOK.t = "obj"
    BY DEF SessionMessagesOKApplicationJSON, SessionMessageOK, Arr, Keeping, Object
  <2> QED
    BY <1>2, <2>1
<1> HIDE DEF t, r
<1>4. /\ t \in AnswerTypes /\ a.doc \in Documents(t.schema, t.rule) /\ Described(t, a.doc)
      /\ Outcome(r, a) = Ok(Value(r, a)) /\ TypeOf(r, a) = r.ok /\ r.call.decode[a.status] = t
  <2>1. a \in Offered(r) /\ Outcome(r, a).kind = "ok"
    BY DEF r
  <2> QED
    BY <1>1, <1>2, <1>3, <2>1, OkAnswer
<1>5. \A m \in Met(t.schema, a.doc) : IsValue(m[2])
  BY <1>4, OpenCodeClientAssumption
<1>6. Encoded(t.schema, a.doc) = a.doc
  BY <1>2, <1>5, MessagesEncoded
<1>7. Value(r, a) = Encoded(t.schema, a.doc)
  BY <1>1, <1>2, <1>4 DEF Value, TypedRequest
<1> QED
  BY <1>4, <1>6, <1>7 DEF Ok, r

LEMMA NextMessages == LegInv /\ MessagesUnchanged /\ [ClientNext]_clientVars => MessagesUnchanged'
<1> SUFFICES ASSUME LegInv, MessagesUnchanged, [ClientNext]_clientVars PROVE MessagesUnchanged'
  OBVIOUS
<1>1. CASE Call
  BY <1>1 DEF Call, Error, MessagesUnchanged
<1>2. ASSUME InProgress, NEW a \in Offered(Request), Answered(a), FallBack(a) \/ ContinueWithModels(a)
      PROVE  MessagesUnchanged'
  <2>1. outcome' = None
    BY <1>2 DEF FallBack, ContinueWithModels, LegInv, InProgress
  <2> QED
    BY <2>1 DEF None, MessagesUnchanged
<1>3. ASSUME InProgress, NEW a \in Offered(Request), Answered(a), Return(a) PROVE MessagesUnchanged'
  <2>1. method \in {"Messages", "Prompt"} => leg = method
    BY <1>3, LegIs DEF LegsOf
  <2>2. answer' = a /\ outcome' = Outcome(Request, a) /\ method' = method
    BY <1>3 DEF Answered, Return
  <2> QED
    BY <1>3, <2>1, <2>2, MessagesReturned DEF MessagesUnchanged
<1>4. CASE UNCHANGED clientVars
  BY <1>4 DEF clientVars, MessagesUnchanged
<1> QED
  BY <1>1, <1>2, <1>3, <1>4 DEF ClientNext

\* No field of a message is lost between OpenCode and handoff_check, however
\* much of it the generated types do not know.
THEOREM MessagesWhole == ClientSpec => []MessagesUnchanged
<1>1. ClientInit => MessagesUnchanged
  BY DEF ClientInit, None, MessagesUnchanged
<1> QED
  BY <1>1, LegHolds, NextMessages, PTL DEF ClientSpec

-----------------------------------------------------------------------------
(* A list of requests, and what collectObjects finds in it *)

Asks(z) == z.k = "obj" /\ DOMAIN z.f \subseteq {"header", "options", "question", "custom", "multiple"}

IsRequest(q) ==
    /\ q.k = "obj"
    /\ DOMAIN q.f \subseteq {"id", "sessionID", "action", "resources", "metadata", "save", "source", "questions", "tool"}
    /\ {"id", "sessionID"} \subseteq DOMAIN q.f
    /\ q.f["id"].k = "str" /\ q.f["sessionID"].k = "str" /\ q.f["sessionID"].v # ""
    /\ "questions" \in DOMAIN q.f =>
         /\ q.f["questions"].k = "arr" /\ \E n \in Nat : DOMAIN q.f["questions"].a = 1 .. n
         /\ \A j \in DOMAIN q.f["questions"].a : Asks(q.f["questions"].a[j])

IsRequestList(v) ==
    v.k = "arr" /\ v.a \in Seq({v.a[i] : i \in DOMAIN v.a}) /\ \A i \in DOMAIN v.a : IsRequest(v.a[i])

\* Below a request.
Inner(q) == IF Has(q, "questions") THEN <<Visit(q.f["questions"])>> ELSE <<>>

LEMMA RequestAt ==
  ASSUME NEW q, IsRequest(q)
  PROVE  ItemAt(Visit(q)) = <<Found(q)>> \o Inner(q)
<1> DEFINE c == [i \in DOMAIN ObjectKeys |-> IF Has(q, ObjectKeys[i]) THEN <<Visit(q.f[ObjectKeys[i]])>> ELSE <<>>]
           v == Visit(q.f["questions"])
<1>1. /\ q.k = "obj" /\ Identified(q)
      /\ \A key \in {"data", "items", "messages", "requests", "permissions", "content", "parts"} : ~ Has(q, key)
  <2>1. NotNil(q, "id")
    BY DEF IsRequest, NotNil, Has
  <2> QED
    BY <2>1 DEF IsRequest, Identified, IdentityKeys, Has
<1>2. /\ DOMAIN ObjectKeys = 1 .. 8 /\ ObjectKeys[6] = "questions"
      /\ \A i \in 1 .. 8 : i # 6 => ObjectKeys[i] \in {"data", "items", "messages", "requests", "permissions", "content", "parts"}
  BY DEF ObjectKeys
<1>3. c[6] = Inner(q) /\ \A i \in 1 .. 8 : i # 6 => c[i] = <<>>
  <2>1. \A i \in 1 .. 8 : c[i] = IF Has(q, ObjectKeys[i]) THEN <<Visit(q.f[ObjectKeys[i]])>> ELSE <<>>
    BY <1>2
  <2> HIDE DEF c
  <2> QED
    BY <1>1, <1>2, <2>1 DEF Inner
<1>4. c \in [1 .. 8 -> Seq({v})]
  <2>1. DOMAIN c = 1 .. 8 /\ c = [i \in 1 .. 8 |-> c[i]]
    BY <1>2
  <2>2. \A i \in 1 .. 8 : c[i] \in Seq({v})
    <3>1. \A i \in 1 .. 8 : c[i] = <<v>> \/ c[i] = <<>>
      BY <1>3 DEF Inner
    <3> HIDE DEF c, v
    <3>2. <<v>> \in Seq({v}) /\ <<>> \in Seq({v})
      OBVIOUS
    <3> QED
      BY <3>1, <3>2
  <2> HIDE DEF c
  <2> QED
    BY <2>1, <2>2
<1>5. Children(q, ObjectKeys) = FlattenSeq(c)
  BY DEF Children
<1>6. FlattenSeq(c) = c[6]
  <2> DEFINE k == 6
  <2>1. k \in 1 .. 8 /\ \A i \in 1 .. 8 : i # k => c[i] = <<>>
    BY <1>3
  <2> HIDE DEF c, k, v
  <2>2. PICK S : c \in [1 .. 8 -> Seq(S)]
    BY <1>4
  <2>3. 8 \in Nat
    OBVIOUS
  <2>4. FlattenSeq(c) = c[k]
    BY <2>1, <2>2, <2>3, FlattenSole, ZenonT(30)
  <2> QED
    BY <2>4 DEF k
<1> HIDE DEF c
<1>7. ObjectsAt(q, ObjectKeys) = <<Found(q)>> \o Inner(q)
  BY <1>1, <1>3, <1>5, <1>6 DEF ObjectsAt
<1> QED
  BY <1>7, Marks DEF ItemAt

LEMMA QuestionAt ==
  ASSUME NEW z, Asks(z)
  PROVE  ItemAt(Visit(z)) = <<>>
<1> DEFINE c == [i \in DOMAIN ObjectKeys |-> IF Has(z, ObjectKeys[i]) THEN <<Visit(z.f[ObjectKeys[i]])>> ELSE <<>>]
<1>1. z.k = "obj" /\ \A key : key \notin {"header", "options", "question", "custom", "multiple"} => ~ Has(z, key)
  BY DEF Asks, Has
<1>2. ~ Identified(z)
  <2>1. \A key \in IdentityKeys : ~ NotNil(z, key)
    BY <1>1 DEF IdentityKeys, NotNil
  <2>2. messageRole(z) = ""
    BY <1>1 DEF messageRole, OwnOrInfo, stringField
  <2> QED
    BY <2>1, <2>2 DEF Identified
<1>3. DOMAIN ObjectKeys = 1 .. 8 /\ \A i \in 1 .. 8 : ~ Has(z, ObjectKeys[i])
  <2>1. DOMAIN ObjectKeys = 1 .. 8 /\ \A i \in 1 .. 8 : ObjectKeys[i] \notin {"header", "options", "question", "custom", "multiple"}
    BY DEF ObjectKeys
  <2> QED
    BY <1>1, <2>1
<1>4. c \in [1 .. 8 -> Seq({})] /\ \A i \in 1 .. 8 : c[i] = <<>>
  <2>1. c = [i \in 1 .. 8 |-> <<>>]
    BY <1>3
  <2> HIDE DEF c
  <2> QED
    BY <2>1
<1>5. Children(z, ObjectKeys) = FlattenSeq(c)
  BY DEF Children
<1> HIDE DEF c
<1>6. FlattenSeq(c) = <<>>
  BY <1>4, FlattenNone
<1>7. ObjectsAt(z, ObjectKeys) = <<>> \o <<>>
  BY <1>1, <1>2, <1>5, <1>6 DEF ObjectsAt
<1>8. <<>> \o <<>> = <<>>
  OBVIOUS
<1>9. Visit(z).found = FALSE /\ Visit(z).value = z
  BY Marks
<1> QED
  BY <1>7, <1>8, <1>9 DEF ItemAt

Asking(Q)       == {q \in Q : Has(q, "questions")}
QuestionsOf(q)  == q.f["questions"]
EachQuestion(Q) == UNION {{QuestionsOf(q).a[j] : j \in DOMAIN QuestionsOf(q).a} : q \in Asking(Q)}

\* What the walk meets of the requests in Q.
MetOf(Q) ==
    {Visit(q) : q \in Q} \cup {Found(q) : q \in Q}
    \cup {Visit(QuestionsOf(q)) : q \in Asking(Q)} \cup {Visit(z) : z \in EachQuestion(Q)}

WalkOf(Q) == [x \in MetOf(Q) |-> ItemAt(x)]

Deeper(q) == IF Has(q, "questions") THEN Elements(QuestionsOf(q)) ELSE <<>>

LEMMA Meetings ==
  ASSUME NEW Q, \A q \in Q : IsRequest(q)
  PROVE  /\ \A q \in Q : Visit(q) \in MetOf(Q) /\ Found(q) \in MetOf(Q)
         /\ \A q \in Asking(Q) : Visit(QuestionsOf(q)) \in MetOf(Q)
         /\ \A z \in EachQuestion(Q) : Visit(z) \in MetOf(Q) /\ Asks(z)
         /\ \A q \in Asking(Q) : \A j \in DOMAIN QuestionsOf(q).a : QuestionsOf(q).a[j] \in EachQuestion(Q)
<1>1. \A q \in Asking(Q) : \A j \in DOMAIN QuestionsOf(q).a : QuestionsOf(q).a[j] \in EachQuestion(Q)
  BY DEF EachQuestion
<1>2. \A z \in EachQuestion(Q) : Asks(z)
  <2> TAKE z \in EachQuestion(Q)
  <2>1. PICK q \in Asking(Q) : \E j \in DOMAIN QuestionsOf(q).a : z = QuestionsOf(q).a[j]
    BY DEF EachQuestion
  <2>2. IsRequest(q) /\ "questions" \in DOMAIN q.f
    BY DEF Asking, Has
  <2>3. \A j \in DOMAIN q.f["questions"].a : Asks(q.f["questions"].a[j])
    BY <2>2 DEF IsRequest
  <2> QED
    BY <2>1, <2>3 DEF QuestionsOf
<1> QED
  BY <1>1, <1>2 DEF MetOf

LEMMA QuestionsAt ==
  ASSUME NEW q, IsRequest(q), Has(q, "questions")
  PROVE  /\ ItemAt(Visit(QuestionsOf(q))) = Elements(QuestionsOf(q))
         /\ \E n \in Nat : DOMAIN QuestionsOf(q).a = 1 .. n
<1>1. "questions" \in DOMAIN q.f
  BY DEF Has
<1>2. QuestionsOf(q).k = "arr" /\ \E n \in Nat : DOMAIN QuestionsOf(q).a = 1 .. n
  BY <1>1 DEF IsRequest, QuestionsOf
<1>3. ObjectsAt(QuestionsOf(q), ObjectKeys) = Elements(QuestionsOf(q))
  BY <1>2 DEF ObjectsAt
<1> QED
  BY <1>2, <1>3, Marks DEF ItemAt

LEMMA ElementsMet ==
  ASSUME NEW Q, \A q \in Q : IsRequest(q), NEW q \in Asking(Q)
  PROVE  Elements(QuestionsOf(q)) \in Seq(MetOf(Q))
<1>1. IsRequest(q) /\ Has(q, "questions")
  BY DEF Asking
<1>2. PICK n \in Nat : DOMAIN QuestionsOf(q).a = 1 .. n
  BY <1>1, QuestionsAt
<1>3. \A j \in 1 .. n : Visit(QuestionsOf(q).a[j]) \in MetOf(Q)
  BY <1>2, Meetings
<1>4. Elements(QuestionsOf(q)) = [j \in 1 .. n |-> Visit(QuestionsOf(q).a[j])]
  BY <1>2 DEF Elements
<1> QED
  BY <1>3, <1>4

LEMMA RequestsWalked ==
  ASSUME NEW Q, \A q \in Q : IsRequest(q)
  PROVE  Walks(WalkOf(Q), MetOf(Q))
<1>1. ASSUME NEW x \in MetOf(Q) PROVE ItemAt(x) \in Seq(MetOf(Q))
  <2>1. CASE \E q \in Q : x = Visit(q)
    <3>1. PICK q \in Q : x = Visit(q)
      BY <2>1
    <3>2. ItemAt(x) = <<Found(q)>> \o Inner(q)
      BY <3>1, RequestAt
    <3>3. Inner(q) \in Seq(MetOf(Q))
      <4>1. CASE Has(q, "questions")
        <5>1. Visit(QuestionsOf(q)) \in MetOf(Q)
          BY <4>1, Meetings DEF Asking
        <5>2. Inner(q) = <<Visit(QuestionsOf(q))>>
          BY <4>1 DEF Inner, QuestionsOf
        <5> QED
          BY <5>1, <5>2
      <4>2. CASE ~ Has(q, "questions")
        <5>1. Inner(q) = <<>>
          BY <4>2 DEF Inner
        <5> QED
          BY <5>1
      <4> QED
        BY <4>1, <4>2
    <3>4. <<Found(q)>> \in Seq(MetOf(Q))
      <4>1. Found(q) \in MetOf(Q)
        BY Meetings
      <4> QED
        BY <4>1
    <3> QED
      BY <3>2, <3>3, <3>4
  <2>2. CASE \E q \in Q : x = Found(q)
    <3>1. x.found = TRUE
      BY <2>2, Marks
    <3>2. ItemAt(x) = <<x>>
      BY <3>1 DEF ItemAt
    <3> QED
      BY <3>2
  <2>3. CASE \E q \in Asking(Q) : x = Visit(QuestionsOf(q))
    <3>1. PICK q \in Asking(Q) : x = Visit(QuestionsOf(q))
      BY <2>3
    <3>2. IsRequest(q) /\ Has(q, "questions")
      BY DEF Asking
    <3>3. ItemAt(x) = Elements(QuestionsOf(q))
      BY <3>1, <3>2, QuestionsAt
    <3> QED
      BY <3>3, ElementsMet
  <2>4. CASE \E z \in EachQuestion(Q) : x = Visit(z)
    <3>1. ItemAt(x) = <<>>
      BY <2>4, Meetings, QuestionAt
    <3> QED
      BY <3>1
  <2> QED
    BY <2>1, <2>2, <2>3, <2>4 DEF MetOf
<1> QED
  BY <1>1 DEF WalkOf, Walks

\* The walk below one request, level by level.
LEMMA RequestWalked ==
  ASSUME NEW Q, \A q \in Q : IsRequest(q), NEW q \in Q
  PROVE  /\ MapJoin(WalkOf(Q), <<Visit(q)>>) = <<Found(q)>> \o Inner(q)
         /\ MapJoin(WalkOf(Q), <<Found(q)>> \o Inner(q)) = <<Found(q)>> \o Deeper(q)
         /\ MapJoin(WalkOf(Q), <<Found(q)>> \o Deeper(q)) = <<Found(q)>>
         /\ MapJoin(WalkOf(Q), <<Found(q)>>) = <<Found(q)>>
         /\ <<Visit(q)>> \in Seq(MetOf(Q)) /\ <<Found(q)>> \o Inner(q) \in Seq(MetOf(Q))
         /\ <<Found(q)>> \o Deeper(q) \in Seq(MetOf(Q)) /\ <<Found(q)>> \in Seq(MetOf(Q))
<1> DEFINE W == WalkOf(Q)
           S == MetOf(Q)
           b == Found(q)
<1>1. Walks(W, S)
  BY RequestsWalked
<1>2. Visit(q) \in S /\ b \in S /\ IsRequest(q)
  BY Meetings
<1>3. W \in [S -> Seq(S)] /\ \A x \in S : W[x] = ItemAt(x)
  BY <1>1 DEF Walks
<1>4. W[b] = <<b>>
  <2>1. b.found = TRUE
    BY Marks
  <2> HIDE DEF b, W, S
  <2> QED
    BY <1>2, <1>3, <2>1 DEF ItemAt
<1>5. W[Visit(q)] = <<b>> \o Inner(q)
  BY <1>2, <1>3, RequestAt
<1>6. Inner(q) \in Seq(S) /\ Deeper(q) \in Seq(S) /\ MapJoin(W, Inner(q)) = Deeper(q) /\ MapJoin(W, Deeper(q)) = <<>>
  <2>1. CASE Has(q, "questions")
    <3> DEFINE a == Visit(QuestionsOf(q))
               e == Elements(QuestionsOf(q))
    <3>0. q \in Asking(Q)
      BY <2>1 DEF Asking
    <3>1. a \in S
      BY <3>0, Meetings
    <3>2. Inner(q) = <<a>> /\ Deeper(q) = e
      BY <2>1 DEF Inner, Deeper, QuestionsOf
    <3>3. e \in Seq(S)
      BY <3>0, ElementsMet
    <3>4. W[a] = e
      BY <1>2, <1>3, <2>1, <3>1, QuestionsAt
    <3>5. MapJoin(W, e) = <<>>
      <4>1. PICK n \in Nat : DOMAIN QuestionsOf(q).a = 1 .. n
        BY <1>2, <2>1, QuestionsAt
      <4>2. e = [j \in 1 .. n |-> Visit(QuestionsOf(q).a[j])]
        BY <4>1 DEF Elements
      <4>3. \A j \in 1 .. n : W[Visit(QuestionsOf(q).a[j])] = <<>>
        <5> TAKE j \in 1 .. n
        <5>1. QuestionsOf(q).a[j] \in EachQuestion(Q)
          BY <3>0, <4>1, Meetings
        <5>2. Visit(QuestionsOf(q).a[j]) \in S /\ Asks(QuestionsOf(q).a[j])
          BY <5>1, Meetings
        <5> QED
          BY <1>3, <5>2, QuestionAt
      <4> DEFINE f == [j \in DOMAIN e |-> W[e[j]]]
      <4>4. f = [j \in 1 .. n |-> <<>>]
        BY <4>2, <4>3
      <4> HIDE DEF f
      <4>5. f \in [1 .. n -> Seq({})] /\ \A j \in 1 .. n : f[j] = <<>>
        BY <4>4
      <4>6. FlattenSeq(f) = <<>>
        BY <4>5, FlattenNone
      <4> QED
        BY <4>6 DEF MapJoin, f
    <3> HIDE DEF a, e, W, S
    <3>6. <<a>> \in Seq(S)
      BY <3>1
    <3>7. MapJoin(W, <<a>>) = e
      BY <1>3, <3>1, <3>4, MapOne
    <3> QED
      BY <3>2, <3>3, <3>5, <3>6, <3>7
  <2>2. CASE ~ Has(q, "questions")
    <3>1. Inner(q) = <<>> /\ Deeper(q) = <<>>
      BY <2>2 DEF Inner, Deeper
    <3>2. <<>> \in Seq(S)
      OBVIOUS
    <3> QED
      BY <3>1, <3>2, MapNone
  <2> QED
    BY <2>1, <2>2
<1> DEFINE u == Inner(q)
           w == Deeper(q)
           a == Visit(q)
           s == <<b>>
<1> HIDE DEF u, w, a, b, W, S
<1>7. s \in Seq(S) /\ <<a>> \in Seq(S) /\ MapJoin(W, s) = s /\ MapJoin(W, <<a>>) = s \o u
  <2>1. <<b>> \in Seq(S) /\ <<a>> \in Seq(S)
    BY <1>2 DEF a
  <2>2. MapJoin(W, <<b>>) = W[b] /\ MapJoin(W, <<a>>) = W[a]
    BY <1>2, <1>3, MapOne DEF a
  <2> QED
    BY <1>4, <1>5, <2>1, <2>2 DEF a, u
<1> HIDE DEF s
<1>8. u \in Seq(S) /\ w \in Seq(S) /\ MapJoin(W, u) = w /\ MapJoin(W, w) = <<>>
  BY <1>6 DEF u, w
<1>9. MapJoin(W, s \o u) = MapJoin(W, s) \o MapJoin(W, u)
  <2>1. W \in [S -> Seq(S)] /\ s \in Seq(S) /\ u \in Seq(S)
    BY <1>3, <1>7, <1>8
  <2> QED
    BY ONLY <2>1, MapConcat
<1>10. MapJoin(W, s \o w) = MapJoin(W, s) \o MapJoin(W, w)
  <2>1. W \in [S -> Seq(S)] /\ s \in Seq(S) /\ w \in Seq(S)
    BY <1>3, <1>7, <1>8
  <2> QED
    BY ONLY <2>1, MapConcat
<1>11. s \o <<>> = s /\ s \o u \in Seq(S) /\ s \o w \in Seq(S)
  BY <1>7, <1>8
<1> QED
  BY <1>7, <1>8, <1>9, <1>10, <1>11 DEF u, w, a, b, s, W, S

\* Of a list of requests, just these are found.
LEMMA RequestsFound ==
  ASSUME NEW v, IsRequestList(v)
  PROVE  collectObjects(v) = v.a
<1> DEFINE n  == Len(v.a)
           Q  == {v.a[i] : i \in DOMAIN v.a}
           W  == WalkOf(Q)
           S  == MetOf(Q)
           l1 == [i \in 1 .. n |-> <<Visit(v.a[i])>>]
           l2 == [i \in 1 .. n |-> <<Found(v.a[i])>> \o Inner(v.a[i])]
           l3 == [i \in 1 .. n |-> <<Found(v.a[i])>> \o Deeper(v.a[i])]
           l4 == [i \in 1 .. n |-> <<Found(v.a[i])>>]
<1>1. /\ v.k = "arr" /\ v.a \in Seq(Q) /\ (\A q \in Q : IsRequest(q))
      /\ n \in Nat /\ DOMAIN v.a = 1 .. n /\ \A i \in 1 .. n : v.a[i] \in Q
  <2>1. v.k = "arr" /\ v.a \in Seq(Q) /\ \A q \in Q : IsRequest(q)
    BY DEF IsRequestList
  <2> QED
    BY <2>1
<1> HIDE DEF Q, W, S, n
<1>2. ASSUME NEW i \in 1 .. n
      PROVE  /\ MapJoin(W, l1[i]) = l2[i] /\ MapJoin(W, l2[i]) = l3[i]
             /\ MapJoin(W, l3[i]) = l4[i] /\ MapJoin(W, l4[i]) = l4[i]
             /\ l1[i] \in Seq(S) /\ l2[i] \in Seq(S) /\ l3[i] \in Seq(S) /\ l4[i] \in Seq(S)
  BY <1>1, RequestWalked DEF W, S
<1>3. {l1, l2, l3, l4} \subseteq [1 .. n -> Seq(S)]
  BY <1>2
<1>4. \A i \in 1 .. n : l1[i] = <<Visit(v.a[i])>> /\ Visit(v.a[i]) \in S
  BY <1>1, Meetings DEF S
<1>5. Walks(W, S)
  BY <1>1, RequestsWalked DEF W, S
<1> DEFINE V == [i \in 1 .. n |-> Found(v.a[i])]
<1>6. FlattenSeq(l4) = V
  <2>1. l4 = [i \in DOMAIN V |-> <<V[i]>>]
    OBVIOUS
  <2>2. V \in Seq(S)
    BY <1>1, Meetings DEF S
  <2> HIDE DEF V
  <2> QED
    BY <2>1, <2>2, FlattenSingles
<1>7. AllFound(V) = v.a
  <2>1. AllFound(V) = [i \in 1 .. n |-> V[i].value]
    BY DEF AllFound
  <2>2. \A i \in 1 .. n : V[i].value = v.a[i]
    BY Marks
  <2> HIDE DEF V
  <2>3. AllFound(V) = [i \in 1 .. n |-> v.a[i]]
    BY <2>1, <2>2
  <2>4. v.a = [i \in 1 .. n |-> v.a[i]]
    BY <1>1
  <2> QED
    BY <2>3, <2>4
<1> HIDE DEF l1, l2, l3, l4
<1>8. StepsTo(W, n, l1, l2) /\ StepsTo(W, n, l2, l3) /\ StepsTo(W, n, l3, l4) /\ StepsTo(W, n, l4, l4)
  BY <1>2 DEF StepsTo
<1>9. WalksOver(v, n, W, S, l1, l2, l3, l4)
  BY <1>1, <1>3, <1>4, <1>5, <1>8 DEF WalksOver
<1>10. collectObjects(v) = AllFound(FlattenSeq(l4))
  BY <1>9, ListWalk
<1> QED
  BY <1>6, <1>7, <1>10

-----------------------------------------------------------------------------
(* The summaries of a list of requests *)

\* Some of the elements of a sequence, counted.
LEMMA ThoseCounted ==
  ASSUME NEW S, NEW s \in Seq(S), NEW B \in SUBSET DOMAIN s
  PROVE  LET f == [i \in DOMAIN s |-> IF i \in B THEN <<s[i]>> ELSE <<>>] IN
         /\ FlattenSeq(f) \in Seq(S)
         /\ Len(FlattenSeq(f)) = Cardinality(B)
<1> DEFINE n == Len(s)
           f == [i \in DOMAIN s |-> IF i \in B THEN <<s[i]>> ELSE <<>>]
           Upto(k) == {i \in B : i <= k}
           T == {k \in Nat : k \in 0 .. n =>
                   IsFiniteSet(Upto(k)) /\ Len(FlattenSeq(FirstOf(f, k))) = Cardinality(Upto(k))}
<1>1. n \in Nat /\ DOMAIN s = 1 .. n /\ B \subseteq 1 .. n
  OBVIOUS
<1>2. f \in [1 .. n -> Seq(S)] /\ \A i \in 1 .. n : f[i] = IF i \in B THEN <<s[i]>> ELSE <<>>
  <2>1. \A i \in 1 .. n : <<s[i]>> \in Seq(S) /\ <<>> \in Seq(S)
    OBVIOUS
  <2> QED
    BY <1>1, <2>1
<1> HIDE DEF n, f
<1>3. 0 \in T
  <2>1. FirstOf(f, 0) = <<>>
    BY <1>1, <1>2, FlattenWhole
  <2>2. FlattenSeq(FirstOf(f, 0)) = <<>>
    BY <2>1, FlattenEmpty
  <2>3. Upto(0) = {}
    BY <1>1
  <2>4. IsFiniteSet({}) /\ Cardinality({}) = 0
    BY FS_EmptySet
  <2> HIDE DEF Upto
  <2> QED
    BY <2>2, <2>3, <2>4
<1>4. ASSUME NEW k \in 0 .. n - 1, k \in T PROVE k + 1 \in T
  <2>1. k \in 0 .. n /\ k + 1 \in 1 .. n /\ k + 1 \in Nat
    BY <1>1
  <2>2. IsFiniteSet(Upto(k)) /\ Len(FlattenSeq(FirstOf(f, k))) = Cardinality(Upto(k))
    BY <1>4, <2>1
  <2>3. /\ FlattenSeq(FirstOf(f, k + 1)) = FlattenSeq(FirstOf(f, k)) \o f[k + 1]
        /\ FlattenSeq(FirstOf(f, k)) \in Seq(S) /\ f[k + 1] \in Seq(S)
    BY <1>1, <1>2, FlattenNext
  <2>4. Len(FlattenSeq(FirstOf(f, k + 1))) = Len(FlattenSeq(FirstOf(f, k))) + Len(f[k + 1])
    BY <2>3
  <2>5. Upto(k + 1) = IF k + 1 \in B THEN Upto(k) \cup {k + 1} ELSE Upto(k)
    <3>1. \A i \in B : i <= k + 1 <=> i <= k \/ i = k + 1
      BY <1>1
    <3> QED
      BY <3>1
  <2>6. k + 1 \notin Upto(k)
    OBVIOUS
  <2> HIDE DEF Upto
  <2>7. CASE k + 1 \in B
    <3>1. Len(f[k + 1]) = 1
      BY <1>2, <2>1, <2>7
    <3>2. IsFiniteSet(Upto(k + 1)) /\ Cardinality(Upto(k + 1)) = Cardinality(Upto(k)) + 1
      BY <2>2, <2>5, <2>6, <2>7, FS_AddElement
    <3> QED
      BY <2>1, <2>2, <2>4, <3>1, <3>2
  <2>8. CASE k + 1 \notin B
    <3>1. Len(f[k + 1]) = 0
      BY <1>2, <2>1, <2>8
    <3>2. Len(FlattenSeq(FirstOf(f, k))) \in Nat
      BY <2>3
    <3> QED
      BY <2>1, <2>2, <2>4, <2>5, <2>8, <3>1, <3>2
  <2> QED
    BY <2>7, <2>8
<1>5. 0 .. n \subseteq T
  BY <1>1, <1>3, <1>4, EachNatural
<1>6. Upto(n) = B
  BY <1>1
<1>7. FirstOf(f, n) = f
  BY <1>1, <1>2, FlattenWhole
<1>8. Len(FlattenSeq(f)) = Cardinality(B)
  <2>1. n \in 0 .. n /\ n \in T
    BY <1>1, <1>5
  <2>2. Len(FlattenSeq(FirstOf(f, n))) = Cardinality(Upto(n))
    BY <2>1
  <2> HIDE DEF Upto
  <2> QED
    BY <1>6, <1>7, <2>2
<1>9. FlattenSeq(f) \in Seq(S)
  BY <1>1, <1>2, FlattenTyped
<1> QED
  BY <1>8, <1>9 DEF f

LEMMA RequestNames ==
  ASSUME NEW q, IsRequest(q)
  PROVE  /\ RequestSession(q) = q.f["sessionID"].v /\ stringField(q, "sessionID") = q.f["sessionID"].v
         /\ stringField(q, "session_id") = "" /\ q.f["sessionID"].v # ""
<1> DEFINE keys == <<"sessionID", "session_id">>
           given == {i \in DOMAIN keys : stringField(q, keys[i]) # ""}
<1>1. stringField(q, "sessionID") = q.f["sessionID"].v /\ q.f["sessionID"].v # ""
  BY DEF IsRequest, stringField, Has
<1>2. stringField(q, "session_id") = ""
  BY DEF IsRequest, stringField, Has
<1>3. DOMAIN keys = {1, 2} /\ keys[1] = "sessionID" /\ keys[2] = "session_id"
  OBVIOUS
<1> HIDE DEF keys
<1>4. given = {1}
  BY <1>1, <1>2, <1>3
<1>5. Min(given) = 1
  <2> HIDE DEF given
  <2>1. 1 \in given /\ \A y \in given : 1 <= y
    BY <1>4
  <2>2. \A x \in given : x = 1
    BY <1>4
  <2> QED
    BY <2>1, <2>2 DEF Min
<1>6. firstStringField(q, keys) = stringField(q, keys[1])
  BY <1>4, <1>5 DEF firstStringField
<1> QED
  BY <1>1, <1>2, <1>3, <1>6 DEF RequestSession, keys

LEMMA FunctionLength ==
  ASSUME NEW R, NEW k \in Nat, NEW G \in [1 .. k -> R]
  PROVE  Len(G) = k
  OBVIOUS

\* The requests that name the session.
Naming(v, session) == {i \in DOMAIN v.a : v.a[i].f["sessionID"].v = session}

\* Each request of a session is summarised once, whatever the kind.
LEMMA SummariesCounted ==
  ASSUME NEW v, IsRequestList(v), NEW kind, NEW session, session # ""
  PROVE  /\ Len(summarizeRequests(v, kind, session)) = Cardinality(Naming(v, session))
         /\ Len(OfSession(v, session)) = Cardinality(Naming(v, session))
<1> DEFINE B == {i \in DOMAIN v.a : v.a[i].f["sessionID"].v = session}
           S == {v.a[i] : i \in DOMAIN v.a}
           f == [i \in DOMAIN v.a |-> IF i \in B THEN <<v.a[i]>> ELSE <<>>]
           g == [i \in DOMAIN v.a |-> IF RequestOf(v.a[i], session) THEN <<v.a[i]>> ELSE <<>>]
           h == [i \in DOMAIN v.a |-> IF stringField(v.a[i], "sessionID") = session \/ stringField(v.a[i], "session_id") = session
                                      THEN <<v.a[i]>> ELSE <<>>]
<1>1. v.a \in Seq(S) /\ \A i \in DOMAIN v.a : IsRequest(v.a[i])
  BY DEF IsRequestList
<1>2. ASSUME NEW i \in DOMAIN v.a
      PROVE  /\ RequestOf(v.a[i], session) <=> i \in B
             /\ stringField(v.a[i], "sessionID") = session \/ stringField(v.a[i], "session_id") = session <=> i \in B
  <2>1. IsRequest(v.a[i])
    BY <1>1
  <2> QED
    BY <2>1, RequestNames DEF RequestOf
<1>3. g = f /\ h = f
  BY <1>2
<1>4. FlattenSeq(f) \in Seq(S) /\ Len(FlattenSeq(f)) = Cardinality(B)
  <2>1. B \in SUBSET DOMAIN v.a
    OBVIOUS
  <2> HIDE DEF B, S
  <2> QED
    BY <1>1, <2>1, ThoseCounted
<1>5. OfSession(v, session) = FlattenSeq(h)
  BY DEF OfSession, Those
<1>6. collectObjects(v) = v.a
  BY RequestsFound
<1>7. summarizeRequests(v, kind, session) =
        [i \in DOMAIN FlattenSeq(g) |->
            [kind  |-> kind,
             title |-> firstStringField(FlattenSeq(g)[i], <<"title", "tool", "type", "action">>),
             text  |-> collectText(FlattenSeq(g)[i])]]
  BY <1>6 DEF summarizeRequests, Those
<1> HIDE DEF f, g, h, B, S
<1>8. Len(summarizeRequests(v, kind, session)) = Len(FlattenSeq(f))
  <2> DEFINE w == FlattenSeq(f)
             k == Len(w)
             G == [i \in 1 .. k |-> [kind  |-> kind,
                                     title |-> firstStringField(w[i], <<"title", "tool", "type", "action">>),
                                     text  |-> collectText(w[i])]]
  <2>1. w \in Seq(S)
    BY <1>4
  <2>2. summarizeRequests(v, kind, session)
          = [i \in DOMAIN w |-> [kind  |-> kind,
                                 title |-> firstStringField(w[i], <<"title", "tool", "type", "action">>),
                                 text  |-> collectText(w[i])]]
    BY <1>3, <1>7
  <2> HIDE DEF w
  <2>3. k \in Nat /\ DOMAIN w = 1 .. k
    BY <2>1, SeqFunction
  <2>4. summarizeRequests(v, kind, session) = G
    BY <2>2, <2>3
  <2>5. DOMAIN G = 1 .. k /\ G = [i \in 1 .. k |-> G[i]]
    OBVIOUS
  <2> HIDE DEF k, G
  <2>6. Len(G) = k
    <3> DEFINE R == {G[i] : i \in 1 .. k}
    <3>1. G \in [1 .. k -> R]
      BY <2>5
    <3> HIDE DEF R
    <3> QED
      BY <2>3, <3>1, FunctionLength
  <2> QED
    BY <2>4, <2>6 DEF k, w
<1> QED
  BY <1>3, <1>4, <1>5, <1>8 DEF B, Naming

-----------------------------------------------------------------------------
(* What is decoded, level by level, and what it is encoded to *)

Reading(g, s, d) == Levels(g, s, d) /\ Met(s, d) = UNION {g[n] : n \in 0 .. Depth} /\ Decodes(s, d)

LEMMA Reads ==
  ASSUME NEW s, NEW d, Decodes(s, d)
  PROVE  \E g : Reading(g, s, d)
  BY LevelsExist DEF Reading

\* The values on a level fit their types, and are followed by what is in them.
LEMMA OnLevel ==
  ASSUME NEW g, NEW s, NEW d, Reading(g, s, d), NEW n \in 0 .. 7, NEW t, NEW x, <<t, x>> \in g[n]
  PROVE  /\ <<t, x>> \in Met(s, d) /\ Fits(t, x)
         /\ n < 7 => \A c \in Inside(t, x) : c \in g[n + 1]
<1> DEFINE m == <<t, x>>
<1>1. m \in Met(s, d)
  BY DEF Reading, Depth
<1>2. Fits(t, x)
  BY <1>1 DEF Reading, Decodes
<1>3. ASSUME n < 7, NEW c \in Inside(t, x) PROVE c \in g[n + 1]
  <2>1. n + 1 \in 1 .. 7 /\ n + 1 - 1 = n
    BY <1>3
  <2>2. g[n + 1] = Below(g[n])
    BY <2>1 DEF Reading, Levels, Depth
  <2>3. m[1] = t /\ m[2] = x /\ m \in g[n]
    OBVIOUS
  <2> HIDE DEF m
  <2>4. c \in Below(g[n])
    BY <1>3, <2>3 DEF Below
  <2> QED
    BY <2>2, <2>4
<1> QED
  BY <1>1, <1>2, <1>3

FieldOf(req, opt, n) == IF n \in DOMAIN req THEN req[n] ELSE opt[n]

LEMMA ObjectOnLevel ==
  ASSUME NEW g, NEW s, NEW d, Reading(g, s, d), NEW n \in 0 .. 6, NEW req, NEW opt, NEW x,
         <<Strict(req, opt), x>> \in g[n]
  PROVE  /\ <<Strict(req, opt), x>> \in Met(s, d)
         /\ x.k = "obj" /\ DOMAIN req \subseteq DOMAIN x.f /\ DOMAIN x.f \subseteq DOMAIN req \cup DOMAIN opt
         /\ \A key \in DOMAIN x.f : <<FieldOf(req, opt, key), x.f[key]>> \in g[n + 1]
<1> DEFINE t == Strict(req, opt)
<1>1. t.t = "obj" /\ t.rest = "refuse" /\ t.req = req /\ t.opt = opt
  BY DEF Strict, Object
<1> HIDE DEF t
<1>2. NonNull(t) = t /\ Known(t) = DOMAIN req \cup DOMAIN opt /\ \A key : Field(t, key) = FieldOf(req, opt, key)
  BY <1>1 DEF NonNull, Known, Field, FieldOf
<1>3. <<t, x>> \in Met(s, d) /\ Fits(t, x) /\ \A c \in Inside(t, x) : c \in g[n + 1]
  <2>1. <<t, x>> \in g[n] /\ n \in 0 .. 7 /\ n < 7
    BY DEF t
  <2> QED
    BY <2>1, OnLevel
<1>4. x.k = "obj" /\ DOMAIN req \subseteq DOMAIN x.f /\ DOMAIN x.f \subseteq DOMAIN req \cup DOMAIN opt
  BY <1>1, <1>2, <1>3 DEF Fits, FitsNonNull
<1>5. Inside(t, x) = {<<Field(t, key), x.f[key]>> : key \in DOMAIN x.f \cap Known(t)}
  BY <1>1, <1>2, <1>4 DEF Inside
<1>6. \A key \in DOMAIN x.f : <<FieldOf(req, opt, key), x.f[key]>> \in Inside(t, x)
  BY <1>2, <1>4, <1>5
<1> QED
  BY <1>3, <1>4, <1>6 DEF t

LEMMA ArrayOnLevel ==
  ASSUME NEW g, NEW s, NEW d, Reading(g, s, d), NEW n \in 0 .. 6, NEW of, NEW x, <<Arr(of), x>> \in g[n]
  PROVE  /\ <<Arr(of), x>> \in Met(s, d) /\ x.k = "arr"
         /\ \A i \in DOMAIN x.a : <<of, x.a[i]>> \in g[n + 1]
<1> DEFINE t == Arr(of)
<1>1. t.t = "arr" /\ t.of = of
  BY DEF Arr
<1> HIDE DEF t
<1>2. NonNull(t) = t
  BY <1>1 DEF NonNull
<1>3. <<t, x>> \in Met(s, d) /\ Fits(t, x) /\ \A c \in Inside(t, x) : c \in g[n + 1]
  <2>1. <<t, x>> \in g[n] /\ n \in 0 .. 7 /\ n < 7
    BY DEF t
  <2> QED
    BY <2>1, OnLevel
<1>4. x.k = "arr"
  BY <1>1, <1>2, <1>3 DEF Fits, FitsNonNull
<1>5. Inside(t, x) = {<<of, x.a[i]>> : i \in DOMAIN x.a}
  BY <1>1, <1>2, <1>4 DEF Inside
<1> QED
  BY <1>3, <1>4, <1>5 DEF t

LEMMA TextOnLevel ==
  ASSUME NEW g, NEW s, NEW d, Reading(g, s, d), NEW n \in 0 .. 7, NEW x, <<Str, x>> \in g[n]
  PROVE  <<Str, x>> \in Met(s, d) /\ x.k = "str"
<1>1. <<Str, x>> \in Met(s, d) /\ Fits(Str, x)
  BY OnLevel
<1> QED
  BY <1>1 DEF Fits, FitsNonNull, NonNull, Str

\* Encode, of an object, of an array, and of a text.
ObjectOf(req, opt, x, w) == JObj([key \in DOMAIN x.f |-> w[<<FieldOf(req, opt, key), x.f[key]>>]])
ArrayOf(of, x, w)        == JArr([i \in DOMAIN x.a |-> w[<<of, x.a[i]>>]])

LEMMA ObjectEncoded ==
  ASSUME NEW e, NEW s, NEW d, Encoding(e, s, d), NEW k \in 1 .. 7, NEW req, NEW opt, NEW x,
         <<Strict(req, opt), x>> \in Met(s, d), x.k = "obj", DOMAIN x.f \subseteq DOMAIN req \cup DOMAIN opt
  PROVE  e[k][<<Strict(req, opt), x>>] = ObjectOf(req, opt, x, e[k - 1])
<1> DEFINE t == Strict(req, opt)
           w == e[k - 1]
<1>1. t.t = "obj" /\ t.rest = "refuse" /\ t.req = req /\ t.opt = opt
  BY DEF Strict, Object
<1>0. e[k] = EncodedAt(Met(s, d), k, w) /\ k # 0
  BY DEF Encoding, Depth
<1> HIDE DEF t, w
<1>2. NonNull(t) = t /\ Known(t) = DOMAIN req \cup DOMAIN opt /\ \A key : Field(t, key) = FieldOf(req, opt, key)
  BY <1>1 DEF NonNull, Known, Field, FieldOf
<1> DEFINE m == <<t, x>>
<1>3. m \in Met(s, d) /\ m[1] = t /\ m[2] = x
  BY DEF t
<1> HIDE DEF m
<1>4. e[k][m] = Rebuilt(t, x, w)
  BY <1>0, <1>3 DEF EncodedAt
<1>5. Rebuilt(t, x, w) = JObj([key \in DOMAIN x.f \cap Known(t) |-> IF key \in Known(t) THEN w[<<Field(t, key), x.f[key]>>] ELSE x.f[key]])
  BY <1>1, <1>2 DEF Rebuilt
<1>6. [key \in DOMAIN x.f \cap Known(t) |-> IF key \in Known(t) THEN w[<<Field(t, key), x.f[key]>>] ELSE x.f[key]]
        = [key \in DOMAIN x.f |-> w[<<FieldOf(req, opt, key), x.f[key]>>]]
  BY <1>2
<1> QED
  BY <1>4, <1>5, <1>6, Zenon DEF m, t, w, ObjectOf

LEMMA ArrayEncoded ==
  ASSUME NEW e, NEW s, NEW d, Encoding(e, s, d), NEW k \in 1 .. 7, NEW of, NEW x, <<Arr(of), x>> \in Met(s, d), x.k = "arr"
  PROVE  e[k][<<Arr(of), x>>] = ArrayOf(of, x, e[k - 1])
<1> DEFINE t == Arr(of)
           w == e[k - 1]
<1>1. t.t = "arr" /\ t.of = of
  BY DEF Arr
<1>0. e[k] = EncodedAt(Met(s, d), k, w) /\ k # 0
  BY DEF Encoding, Depth
<1> HIDE DEF t, w
<1>2. NonNull(t) = t
  BY <1>1 DEF NonNull
<1> DEFINE m == <<t, x>>
<1>3. m \in Met(s, d) /\ m[1] = t /\ m[2] = x
  BY DEF t
<1> HIDE DEF m
<1>4. e[k][m] = Rebuilt(t, x, w)
  BY <1>0, <1>3 DEF EncodedAt
<1>5. Rebuilt(t, x, w) = JArr([i \in DOMAIN x.a |-> w[<<of, x.a[i]>>]])
  BY <1>1, <1>2 DEF Rebuilt
<1> QED
  BY <1>4, <1>5, Zenon DEF m, t, w, ArrayOf

LEMMA TextEncoded ==
  ASSUME NEW e, NEW s, NEW d, Encoding(e, s, d), NEW k \in 1 .. 7, NEW x, <<Str, x>> \in Met(s, d)
  PROVE  e[k][<<Str, x>>] = x
<1> DEFINE w == e[k - 1]
           m == <<Str, x>>
<1>0. e[k] = EncodedAt(Met(s, d), k, w) /\ k # 0
  BY DEF Encoding, Depth
<1>3. m \in Met(s, d) /\ m[1] = Str /\ m[2] = x
  OBVIOUS
<1> HIDE DEF m, w
<1>4. e[k][m] = Rebuilt(Str, x, w)
  BY <1>0, <1>3 DEF EncodedAt
<1>5. Rebuilt(Str, x, w) = x
  BY DEF Rebuilt, NonNull, Str
<1> QED
  BY <1>4, <1>5 DEF m

LEMMA RulesOnLevel ==
  ASSUME NEW g, NEW s, NEW d, Reading(g, s, d), NEW n \in 0 .. 6, NEW r, NEW x, <<Rules(r), x>> \in g[n], x.k = "obj"
  PROVE  \A key \in DOMAIN x.f \cap DOMAIN r : <<r[key], x.f[key]>> \in g[n + 1]
<1> DEFINE t == Rules(r)
           u == Keeping(NoFields, r)
<1>1. u.t = "obj" /\ u.req = NoFields /\ u.opt = r /\ DOMAIN NoFields = {}
  BY DEF Keeping, Object, NoFields
<1>2. NonNull(t) = u
  BY DEF NonNull, Rules, Nullable
<1> HIDE DEF t, u
<1>3. \A key \in DOMAIN r : key \in Known(u) /\ Field(u, key) = r[key]
  BY <1>1 DEF Known, Field
<1>4. \A c \in Inside(t, x) : c \in g[n + 1]
  <2>1. <<t, x>> \in g[n] /\ n \in 0 .. 7 /\ n < 7
    BY DEF t
  <2> QED
    BY <2>1, OnLevel
<1>5. Inside(t, x) = {<<Field(u, key), x.f[key]>> : key \in DOMAIN x.f \cap Known(u)}
  BY <1>1, <1>2 DEF Inside
<1> QED
  BY <1>3, <1>4, <1>5

LEMMA EachOnLevel ==
  ASSUME NEW g, NEW s, NEW d, Reading(g, s, d), NEW n \in 0 .. 6, NEW r, NEW x, <<Each(r), x>> \in g[n], x.k = "arr"
  PROVE  \A i \in DOMAIN x.a : <<r, x.a[i]>> \in g[n + 1]
<1> DEFINE t == Each(r)
           u == Arr(r)
<1>1. u.t = "arr" /\ u.of = r
  BY DEF Arr
<1>2. NonNull(t) = u
  BY DEF NonNull, Each, Nullable
<1> HIDE DEF t, u
<1>4. \A c \in Inside(t, x) : c \in g[n + 1]
  <2>1. <<t, x>> \in g[n] /\ n \in 0 .. 7 /\ n < 7
    BY DEF t
  <2> QED
    BY <2>1, OnLevel
<1>5. Inside(t, x) = {<<r, x.a[i]>> : i \in DOMAIN x.a}
  BY <1>1, <1>2 DEF Inside
<1> QED
  BY <1>4, <1>5

LEMMA PrefixOnLevel ==
  ASSUME NEW g, NEW s, NEW d, Reading(g, s, d), NEW n \in 0 .. 7, NEW p, NEW x, <<Prefix(p), x>> \in g[n], x.k = "str"
  PROVE  x.v \in Identifiers[p]
<1>1. Fits(Prefix(p), x)
  BY OnLevel
<1> QED
  BY <1>1 DEF Fits, FitsNonNull, NonNull, Prefix, Nullable

-----------------------------------------------------------------------------
(* The pending requests that a method returns *)

\* The types of a request: what the model relies on of the generated ones.
RequestType(req, opt) ==
    /\ {"id", "sessionID"} \subseteq DOMAIN req /\ req["id"] = Str /\ req["sessionID"] = Str
    /\ DOMAIN req \cup DOMAIN opt
          \subseteq {"id", "sessionID", "action", "resources", "metadata", "save", "source", "questions", "tool"}
    /\ "questions" \in DOMAIN req \cup DOMAIN opt => FieldOf(req, opt, "questions") = Arr(QuestionV2Info)

LEMMA QuestionEncoded ==
  ASSUME NEW e, NEW g, NEW s, NEW d, Encoding(e, s, d), Reading(g, s, d), NEW n \in 0 .. 6, NEW k \in 1 .. 7,
         NEW z, <<QuestionV2Info, z>> \in g[n]
  PROVE  Asks(e[k][<<QuestionV2Info, z>>])
<1> DEFINE req == [header |-> Str, options |-> Arr(QuestionV2Option), question |-> Str]
           opt == [custom |-> Bool, multiple |-> Bool]
<1>1. QuestionV2Info = Strict(req, opt)
  BY DEF QuestionV2Info
<1>2. DOMAIN req \cup DOMAIN opt = {"header", "options", "question", "custom", "multiple"}
  OBVIOUS
<1> HIDE DEF req, opt
<1>3. /\ <<Strict(req, opt), z>> \in Met(s, d)
      /\ z.k = "obj" /\ DOMAIN z.f \subseteq DOMAIN req \cup DOMAIN opt
  BY <1>1, ObjectOnLevel
<1>4. e[k][<<Strict(req, opt), z>>] = ObjectOf(req, opt, z, e[k - 1])
  BY <1>3, ObjectEncoded
<1> DEFINE f == [key \in DOMAIN z.f |-> e[k - 1][<<FieldOf(req, opt, key), z.f[key]>>]]
<1>5. DOMAIN f \subseteq {"header", "options", "question", "custom", "multiple"}
  BY <1>2, <1>3
<1> HIDE DEF f
<1>6. Asks(JObj(f))
  BY <1>5 DEF Asks, JObj
<1> QED
  BY <1>1, <1>4, <1>6 DEF f, ObjectOf

LEMMA RequestEncoded ==
  ASSUME NEW e, NEW g, NEW s, NEW d, Encoding(e, s, d), Reading(g, s, d), \A m \in Met(s, d) : IsValue(m[2]),
         NEW n \in 0 .. 4, NEW k \in 3 .. 7, NEW req, NEW opt, RequestType(req, opt),
         NEW x, <<Strict(req, opt), x>> \in g[n], x.f["sessionID"].v # ""
  PROVE  IsRequest(e[k][<<Strict(req, opt), x>>])
<1>a. n \in 0 .. 4 /\ k \in 3 .. 7
  OBVIOUS
<1>0. /\ n + 1 \in 0 .. 6 /\ k - 1 \in 1 .. 7 /\ n \in 0 .. 6 /\ k \in 1 .. 7 /\ n + 1 \in 0 .. 7
      /\ n + 1 + 1 \in 0 .. 6 /\ k - 1 - 1 \in 1 .. 7
  BY ONLY <1>a
<1>1. /\ <<Strict(req, opt), x>> \in Met(s, d)
      /\ x.k = "obj" /\ DOMAIN req \subseteq DOMAIN x.f /\ DOMAIN x.f \subseteq DOMAIN req \cup DOMAIN opt
      /\ \A key \in DOMAIN x.f : <<FieldOf(req, opt, key), x.f[key]>> \in g[n + 1]
  BY <1>0, ObjectOnLevel
<1>b. e[k][<<Strict(req, opt), x>>] = ObjectOf(req, opt, x, e[k - 1])
  <2>1. /\ Encoding(e, s, d) /\ k \in 1 .. 7 /\ <<Strict(req, opt), x>> \in Met(s, d)
        /\ x.k = "obj" /\ DOMAIN x.f \subseteq DOMAIN req \cup DOMAIN opt
    BY <1>0, <1>1
  <2> QED
    BY ONLY <2>1, ObjectEncoded
<1> DEFINE f == [key \in DOMAIN x.f |-> e[k - 1][<<FieldOf(req, opt, key), x.f[key]>>]]
<1>2. e[k][<<Strict(req, opt), x>>] = JObj(f)
  BY <1>b DEF ObjectOf
<1>3. DOMAIN f = DOMAIN x.f /\ \A key \in DOMAIN x.f : f[key] = e[k - 1][<<FieldOf(req, opt, key), x.f[key]>>]
  OBVIOUS
<1> HIDE DEF f
<1>4. ASSUME NEW key \in {"id", "sessionID"}
      PROVE  key \in DOMAIN x.f /\ x.f[key].k = "str" /\ f[key] = x.f[key]
  <2>1. key \in DOMAIN x.f /\ FieldOf(req, opt, key) = Str
    BY <1>1 DEF RequestType, FieldOf
  <2>2. <<Str, x.f[key]>> \in g[n + 1]
    BY <1>1, <2>1
  <2>3. <<Str, x.f[key]>> \in Met(s, d) /\ x.f[key].k = "str"
    BY <1>0, <2>2, TextOnLevel
  <2>4. e[k - 1][<<Str, x.f[key]>>] = x.f[key]
    BY <1>0, <2>3, TextEncoded
  <2> QED
    BY <1>3, <2>1, <2>3, <2>4
<1>5. ASSUME "questions" \in DOMAIN x.f
      PROVE  /\ f["questions"].k = "arr" /\ \E j \in Nat : DOMAIN f["questions"].a = 1 .. j
             /\ \A j \in DOMAIN f["questions"].a : Asks(f["questions"].a[j])
  <2> DEFINE qs == x.f["questions"]
             h  == [i \in DOMAIN qs.a |-> e[k - 1 - 1][<<QuestionV2Info, qs.a[i]>>]]
  <2>1. FieldOf(req, opt, "questions") = Arr(QuestionV2Info)
    BY <1>1, <1>5 DEF RequestType
  <2>2. <<Arr(QuestionV2Info), qs>> \in g[n + 1]
    BY <1>1, <1>5, <2>1
  <2> HIDE DEF qs
  <2>3. <<Arr(QuestionV2Info), qs>> \in Met(s, d) /\ qs.k = "arr" /\ \A i \in DOMAIN qs.a : <<QuestionV2Info, qs.a[i]>> \in g[n + 1 + 1]
    BY <1>0, <2>2, ArrayOnLevel
  <2>4. e[k - 1][<<Arr(QuestionV2Info), qs>>] = ArrayOf(QuestionV2Info, qs, e[k - 1 - 1])
    <3>1. /\ Encoding(e, s, d) /\ k - 1 \in 1 .. 7 /\ <<Arr(QuestionV2Info), qs>> \in Met(s, d) /\ qs.k = "arr"
      BY <1>0, <2>3
    <3> QED
      BY ONLY <3>1, ArrayEncoded
  <2>5. f["questions"] = JArr(h)
    BY <1>3, <1>5, <2>1, <2>4 DEF qs, ArrayOf
  <2>6. \E j \in Nat : DOMAIN qs.a = 1 .. j
    <3> DEFINE m == <<Arr(QuestionV2Info), qs>>
    <3>1. m \in Met(s, d) /\ m[2] = qs
      BY <2>3
    <3> HIDE DEF m
    <3>2. IsValue(qs)
      BY <3>1
    <3>3. qs.a \in Seq({qs.a[i] : i \in DOMAIN qs.a})
      BY <2>3, <3>2 DEF IsValue
    <3>4. DOMAIN qs.a = 1 .. Len(qs.a) /\ Len(qs.a) \in Nat
      BY <3>3, SeqFunction
    <3> QED
      BY <3>4
  <2>7. \A i \in DOMAIN qs.a : Asks(e[k - 1 - 1][<<QuestionV2Info, qs.a[i]>>])
    <3> QED
      BY <1>0, <2>3, QuestionEncoded
  <2>8. DOMAIN h = DOMAIN qs.a /\ \A i \in DOMAIN h : Asks(h[i])
    BY <2>7
  <2> HIDE DEF h
  <2>9. JArr(h).k = "arr" /\ JArr(h).a = h
    BY DEF JArr
  <2> QED
    BY <2>5, <2>6, <2>8, <2>9
<1>6. JObj(f).k = "obj" /\ JObj(f).f = f
  BY DEF JObj
<1> DEFINE q == JObj(f)
<1> HIDE DEF q
<1>7. q.k = "obj" /\ q.f = f
  BY <1>6 DEF q
<1>8. DOMAIN f \subseteq {"id", "sessionID", "action", "resources", "metadata", "save", "source", "questions", "tool"}
  BY <1>1, <1>3 DEF RequestType
<1>9. /\ {"id", "sessionID"} \subseteq DOMAIN f
      /\ f["id"].k = "str" /\ f["sessionID"].k = "str" /\ f["sessionID"].v # ""
  BY <1>3, <1>4
<1>10. IsRequest(q)
  BY <1>3, <1>5, <1>7, <1>8, <1>9 DEF IsRequest
<1> QED
  BY <1>2, <1>10 DEF q

\* A list of requests as OpenCode answers with it: its type and its rule.
RequestList(R)     == Strict([data |-> Arr(R), location |-> LocationInfo], NoFields)
RequestListRule(r) == Rules([data |-> Each(Rules(r)), location |-> ValidateLocationInfo])

\* Each request of a valid list names a session.
LEMMA SessionsNamed ==
  ASSUME NEW d, NEW r, Validates(RequestListRule(r), d), "sessionID" \in DOMAIN r, r["sessionID"] = Prefix("ses"),
         d.k = "obj", "data" \in DOMAIN d.f, d.f["data"].k = "arr",
         NEW i \in DOMAIN d.f["data"].a, d.f["data"].a[i].k = "obj",
         "sessionID" \in DOMAIN d.f["data"].a[i].f, d.f["data"].a[i].f["sessionID"].k = "str"
  PROVE  d.f["data"].a[i].f["sessionID"].v # ""
<1> DEFINE s  == RequestListRule(r)
           c  == d.f["data"]
           q  == c.a[i]
           x  == q.f["sessionID"]
           n0 == 0
           n1 == 1
           n2 == 2
           n3 == 3
           n4 == 4
<1>1. n0 = 0 /\ n0 \in 0 .. 6 /\ n1 \in 0 .. 6 /\ n2 \in 0 .. 6 /\ n3 \in 0 .. 7
      /\ n0 + 1 = n1 /\ n1 + 1 = n2 /\ n2 + 1 = n3
  OBVIOUS
<1>2. PICK g : Reading(g, s, d)
  BY Reads DEF Validates, Decodes
<1> HIDE DEF n0, n1, n2, n3, n4
<1>3. <<s, d>> \in g[n0]
  BY <1>1, <1>2 DEF Reading, Levels
<1> DEFINE u == [data |-> Each(Rules(r)), location |-> ValidateLocationInfo]
<1>4. s = Rules(u) /\ "data" \in DOMAIN u /\ u["data"] = Each(Rules(r))
  BY DEF RequestListRule
<1> HIDE DEF u, s
<1>5. <<Each(Rules(r)), c>> \in g[n1]
  <2>1. \A key \in DOMAIN d.f \cap DOMAIN u : <<u[key], d.f[key]>> \in g[n0 + 1]
    BY <1>1, <1>2, <1>3, <1>4, RulesOnLevel
  <2> QED
    BY <1>1, <1>4, <2>1
<1>6. <<Rules(r), q>> \in g[n2]
  <2>1. \A j \in DOMAIN c.a : <<Rules(r), c.a[j]>> \in g[n1 + 1]
    BY <1>1, <1>2, <1>5, EachOnLevel
  <2> QED
    BY <1>1, <2>1
<1>7. <<Prefix("ses"), x>> \in g[n3]
  <2>1. \A key \in DOMAIN q.f \cap DOMAIN r : <<r[key], q.f[key]>> \in g[n2 + 1]
    BY <1>1, <1>2, <1>6, RulesOnLevel
  <2> QED
    BY <1>1, <2>1
<1>8. x.v \in Identifiers["ses"]
  <2>1. n3 \in 0 .. 7 /\ Reading(g, s, d) /\ <<Prefix("ses"), x>> \in g[n3] /\ x.k = "str"
    BY <1>1, <1>2, <1>7
  <2> QED
    BY ONLY <2>1, PrefixOnLevel
<1>9. "" \notin Identifiers["ses"]
  BY IdentifiersAssumption DEF IdPrefixes
<1> QED
  BY <1>8, <1>9

\* What a method returns of a list of requests that fits its type and its rule.
LEMMA ListReturned ==
  ASSUME NEW d, NEW req, NEW opt, RequestType(req, opt), Decodes(RequestList(Strict(req, opt)), d),
         NEW r, Validates(RequestListRule(r), d), "sessionID" \in DOMAIN r, r["sessionID"] = Prefix("ses"),
         \A m \in Met(RequestList(Strict(req, opt)), d) : IsValue(m[2])
  PROVE  IsRequestList(Under(Encoded(RequestList(Strict(req, opt)), d), "data"))
<1> DEFINE R  == Strict(req, opt)
           s  == RequestList(R)
           u  == [data |-> Arr(R), location |-> LocationInfo]
           c  == d.f["data"]
           n0 == 0
           n1 == 1
           n2 == 2
           k5 == 5
           k6 == 6
           k7 == 7
<1>1. /\ n0 = 0 /\ n0 \in 0 .. 6 /\ n1 \in 0 .. 6 /\ n2 \in 0 .. 6 /\ n2 \in 0 .. 4 /\ n0 + 1 = n1 /\ n1 + 1 = n2
      /\ k7 = Depth /\ k7 \in 1 .. 7 /\ k6 \in 1 .. 7 /\ k5 \in 3 .. 7 /\ k7 - 1 = k6 /\ k6 - 1 = k5
  BY DEF Depth
<1> HIDE DEF n0, n1, n2, k5, k6, k7
<1>2. PICK g : Reading(g, s, d)
  BY Reads
<1>3. PICK e : Encoding(e, s, d)
  BY EncodedLevels
<1>4. s = Strict(u, NoFields) /\ DOMAIN u = {"data", "location"} /\ u["data"] = Arr(R)
  BY DEF RequestList
<1>5. \A m \in Met(s, d) : IsValue(m[2])
  OBVIOUS
<1> HIDE DEF R, s, u
<1>6. <<Strict(u, NoFields), d>> \in g[n0]
  BY <1>1, <1>2, <1>4 DEF Reading, Levels
<1>7. /\ <<Strict(u, NoFields), d>> \in Met(s, d)
      /\ d.k = "obj" /\ DOMAIN u \subseteq DOMAIN d.f /\ DOMAIN d.f \subseteq DOMAIN u \cup DOMAIN NoFields
      /\ \A key \in DOMAIN d.f : <<FieldOf(u, NoFields, key), d.f[key]>> \in g[n0 + 1]
  <2>1. Reading(g, s, d) /\ n0 \in 0 .. 6 /\ <<Strict(u, NoFields), d>> \in g[n0]
    BY <1>1, <1>2, <1>6
  <2> QED
    BY ONLY <2>1, ObjectOnLevel
<1>8. "data" \in DOMAIN d.f /\ FieldOf(u, NoFields, "data") = Arr(R) /\ <<Arr(R), c>> \in g[n1]
  BY <1>1, <1>4, <1>7 DEF FieldOf
<1> HIDE DEF c
<1>9. <<Arr(R), c>> \in Met(s, d) /\ c.k = "arr" /\ \A i \in DOMAIN c.a : <<R, c.a[i]>> \in g[n2]
  <2>1. Reading(g, s, d) /\ n1 \in 0 .. 6 /\ <<Arr(R), c>> \in g[n1]
    BY <1>1, <1>2, <1>8
  <2>2. <<Arr(R), c>> \in Met(s, d) /\ c.k = "arr" /\ \A i \in DOMAIN c.a : <<R, c.a[i]>> \in g[n1 + 1]
    BY ONLY <2>1, ArrayOnLevel
  <2> QED
    BY <1>1, <2>2
<1> DEFINE h == [i \in DOMAIN c.a |-> e[k5][<<R, c.a[i]>>]]
<1>10. Under(Encoded(s, d), "data") = JArr(h)
  <2>1. Encoded(s, d) = e[k7][<<Strict(u, NoFields), d>>]
    BY <1>1, <1>3, <1>4 DEF Encoding
  <2>2. e[k7][<<Strict(u, NoFields), d>>] = ObjectOf(u, NoFields, d, e[k7 - 1])
    <3>1. /\ Encoding(e, s, d) /\ k7 \in 1 .. 7 /\ <<Strict(u, NoFields), d>> \in Met(s, d)
          /\ d.k = "obj" /\ DOMAIN d.f \subseteq DOMAIN u \cup DOMAIN NoFields
      BY <1>1, <1>3, <1>7
    <3> QED
      BY ONLY <3>1, ObjectEncoded
  <2> DEFINE f == [key \in DOMAIN d.f |-> e[k6][<<FieldOf(u, NoFields, key), d.f[key]>>]]
  <2>3. Encoded(s, d) = JObj(f)
    BY <1>1, <2>1, <2>2 DEF ObjectOf
  <2>4. "data" \in DOMAIN f /\ f["data"] = e[k6][<<Arr(R), c>>]
    BY <1>8 DEF c
  <2>5. e[k6][<<Arr(R), c>>] = ArrayOf(R, c, e[k6 - 1])
    <3>1. Encoding(e, s, d) /\ k6 \in 1 .. 7 /\ <<Arr(R), c>> \in Met(s, d) /\ c.k = "arr"
      BY <1>1, <1>3, <1>9
    <3> QED
      BY ONLY <3>1, ArrayEncoded
  <2> HIDE DEF f
  <2>6. f["data"] = JArr(h) /\ f["data"].k = "arr"
    BY <1>1, <2>4, <2>5 DEF ArrayOf, JArr
  <2> HIDE DEF h
  <2>7. JObj(f).k = "obj" /\ JObj(f).f = f
    BY DEF JObj
  <2> QED
    BY <2>3, <2>4, <2>6, <2>7 DEF Under, NotNil, Has
<1>11. ASSUME NEW i \in DOMAIN c.a PROVE IsRequest(h[i])
  <2> DEFINE x == c.a[i]
  <2>1. <<Strict(req, opt), x>> \in g[n2]
    BY <1>9 DEF R
  <2> HIDE DEF x
  <2>2. /\ x.k = "obj" /\ "sessionID" \in DOMAIN x.f /\ <<Str, x.f["sessionID"]>> \in g[n2 + 1]
    <3>1. /\ x.k = "obj" /\ DOMAIN req \subseteq DOMAIN x.f
          /\ \A key \in DOMAIN x.f : <<FieldOf(req, opt, key), x.f[key]>> \in g[n2 + 1]
      <4>1. Reading(g, s, d) /\ n2 \in 0 .. 6 /\ <<Strict(req, opt), x>> \in g[n2]
        BY <1>1, <1>2, <2>1
      <4> QED
        BY ONLY <4>1, ObjectOnLevel
    <3>2. "sessionID" \in DOMAIN req /\ FieldOf(req, opt, "sessionID") = Str
      BY DEF RequestType, FieldOf
    <3> QED
      BY <3>1, <3>2
  <2>3. x.f["sessionID"].k = "str"
    <3>1. n2 + 1 \in 0 .. 7
      BY ONLY <1>1
    <3>2. Reading(g, s, d) /\ n2 + 1 \in 0 .. 7 /\ <<Str, x.f["sessionID"]>> \in g[n2 + 1]
      BY <1>2, <2>2, <3>1
    <3> QED
      BY ONLY <3>2, TextOnLevel
  <2>4. x.f["sessionID"].v # ""
    <3>1. /\ d.k = "obj" /\ "data" \in DOMAIN d.f /\ d.f["data"].k = "arr"
          /\ i \in DOMAIN d.f["data"].a /\ d.f["data"].a[i] = x
      BY <1>7, <1>8, <1>9 DEF c, x
    <3> QED
      BY <2>2, <2>3, <3>1, SessionsNamed
  <2>5. IsRequest(e[k5][<<Strict(req, opt), x>>])
    <3>1. /\ Encoding(e, s, d) /\ Reading(g, s, d) /\ \A m \in Met(s, d) : IsValue(m[2])
          /\ n2 \in 0 .. 4 /\ k5 \in 3 .. 7 /\ RequestType(req, opt)
          /\ <<Strict(req, opt), x>> \in g[n2] /\ x.f["sessionID"].v # ""
      BY <1>1, <1>2, <1>3, <1>5, <2>1, <2>4
    <3> QED
      BY ONLY <3>1, RequestEncoded
  <2> QED
    BY <2>5 DEF x, R
<1>12. DOMAIN h = DOMAIN c.a /\ \E j \in Nat : DOMAIN c.a = 1 .. j
  <2> DEFINE m == <<Arr(R), c>>
  <2>1. m \in Met(s, d) /\ m[2] = c
    BY <1>9
  <2> HIDE DEF m
  <2>2. IsValue(c)
    BY <1>5, <2>1
  <2>3. c.a \in Seq({c.a[i] : i \in DOMAIN c.a})
    BY <1>9, <2>2 DEF IsValue
  <2>4. DOMAIN c.a = 1 .. Len(c.a) /\ Len(c.a) \in Nat
    BY <2>3, SeqFunction
  <2> QED
    BY <2>4
<1>13. h \in Seq({h[i] : i \in DOMAIN h})
  <2>1. PICK j \in Nat : DOMAIN c.a = 1 .. j
    BY <1>12
  <2>2. h = [i \in 1 .. j |-> h[i]] /\ DOMAIN h = 1 .. j
    BY <2>1
  <2> DEFINE T == {h[i] : i \in DOMAIN h}
  <2>3. \A i \in 1 .. j : h[i] \in T
    BY <2>2
  <2> HIDE DEF h, T
  <2>4. h \in [1 .. j -> T]
    BY <2>2, <2>3
  <2>5. h \in Seq(T)
    BY <2>1, <2>4
  <2> QED
    BY <2>5 DEF T
<1>14. \A i \in DOMAIN h : IsRequest(h[i])
  BY <1>11, <1>12
<1> HIDE DEF h
<1>15. JArr(h).k = "arr" /\ JArr(h).a = h
  BY DEF JArr
<1>16. IsRequestList(JArr(h))
  BY <1>13, <1>14, <1>15 DEF IsRequestList
<1> QED
  BY <1>10, <1>16 DEF s, R

LEMMA PermissionsListed ==
  ASSUME NEW d, Decodes(V2PermissionRequestListOK, d), Validates(ValidateV2PermissionRequestListOK, d),
         \A m \in Met(V2PermissionRequestListOK, d) : IsValue(m[2])
  PROVE  IsRequestList(Under(Encoded(V2PermissionRequestListOK, d), "data"))
<1> DEFINE req == [action |-> Str, id |-> Str, resources |-> Arr(Str), sessionID |-> Str]
           opt == [metadata |-> PermissionV2RequestMetadata, save |-> Arr(Str), source |-> PermissionV2Source]
           r   == [id |-> Prefix("per"), resources |-> NonNil, sessionID |-> Prefix("ses"),
                   source |-> ValidatePermissionV2Source]
<1>1. RequestType(req, opt)
  BY DEF RequestType
<1>2. "sessionID" \in DOMAIN r /\ r["sessionID"] = Prefix("ses")
  OBVIOUS
<1>3. V2PermissionRequestListOK = RequestList(Strict(req, opt))
  BY DEF V2PermissionRequestListOK, PermissionV2Request, RequestList
<1>4. ValidateV2PermissionRequestListOK = RequestListRule(r)
  BY DEF ValidateV2PermissionRequestListOK, ValidatePermissionV2Request, RequestListRule
<1> HIDE DEF req, opt, r
<1> QED
  BY <1>1, <1>2, <1>3, <1>4, ListReturned

LEMMA QuestionsListed ==
  ASSUME NEW d, Decodes(V2QuestionRequestListOK, d), Validates(ValidateV2QuestionRequestListOK, d),
         \A m \in Met(V2QuestionRequestListOK, d) : IsValue(m[2])
  PROVE  IsRequestList(Under(Encoded(V2QuestionRequestListOK, d), "data"))
<1> DEFINE req == [id |-> Str, questions |-> Arr(QuestionV2Info), sessionID |-> Str]
           opt == [tool |-> QuestionV2Tool]
           r   == [id |-> Prefix("que"), questions |-> Each(ValidateQuestionV2Info), sessionID |-> Prefix("ses")]
<1>1. RequestType(req, opt)
  BY DEF RequestType, FieldOf
<1>2. "sessionID" \in DOMAIN r /\ r["sessionID"] = Prefix("ses")
  OBVIOUS
<1>3. V2QuestionRequestListOK = RequestList(Strict(req, opt))
  BY DEF V2QuestionRequestListOK, QuestionV2Request, RequestList
<1>4. ValidateV2QuestionRequestListOK = RequestListRule(r)
  BY DEF ValidateV2QuestionRequestListOK, ValidateQuestionV2Request, RequestListRule
<1> HIDE DEF req, opt, r
<1> QED
  BY <1>1, <1>2, <1>3, <1>4, ListReturned

LEMMA RequestsReturned ==
  ASSUME leg \in {"Permissions", "Questions"}, NEW a \in Offered(Request), Outcome(Request, a).kind = "ok"
  PROVE  IsRequestList(Outcome(Request, a).value)
<1> DEFINE r == Request
           t == r.call.decode[200]
<1>1. TypedRequest(r)
  BY TypedLegs DEF Legs, Methods, RawLegs
<1>2. /\ r.ok # "" /\ \A st \in DOMAIN r.call.decode : r.call.decode[st].type = r.ok => r.call.decode[st] = t
      /\ t.media = "json"
      /\ \/ t.schema = V2PermissionRequestListOK /\ t.rule = ValidateV2PermissionRequestListOK
         \/ t.schema = V2QuestionRequestListOK /\ t.rule = ValidateV2QuestionRequestListOK
  <2>1. CASE leg = "Permissions"
    <3>1. r.call.decode = decodeV2PermissionRequestList /\ r.ok = "V2PermissionRequestListOK"
      <4>1. Permissions.call = sendV2PermissionRequestList /\ Permissions.ok = "V2PermissionRequestListOK"
        BY DEF Permissions, Typed
      <4>2. sendV2PermissionRequestList.decode = decodeV2PermissionRequestList
        BY DEF sendV2PermissionRequestList
      <4> QED
        BY <2>1, <4>1, <4>2, RequestIs
    <3>2. /\ DOMAIN decodeV2PermissionRequestList = {200, 400, 401}
          /\ decodeV2PermissionRequestList[200].media = "json"
          /\ decodeV2PermissionRequestList[200].schema = V2PermissionRequestListOK
          /\ decodeV2PermissionRequestList[200].rule = ValidateV2PermissionRequestListOK
          /\ decodeV2PermissionRequestList[400].type # "V2PermissionRequestListOK"
          /\ decodeV2PermissionRequestList[401].type # "V2PermissionRequestListOK"
      BY DEF decodeV2PermissionRequestList, Checked
    <3> HIDE DEF r
    <3> QED
      BY <3>1, <3>2
  <2>2. CASE leg = "Questions"
    <3>1. r.call.decode = decodeV2QuestionRequestList /\ r.ok = "V2QuestionRequestListOK"
      <4>1. Questions.call = sendV2QuestionRequestList /\ Questions.ok = "V2QuestionRequestListOK"
        BY DEF Questions, Typed
      <4>2. sendV2QuestionRequestList.decode = decodeV2QuestionRequestList
        BY DEF sendV2QuestionRequestList
      <4> QED
        BY <2>2, <4>1, <4>2, RequestIs
    <3>2. /\ DOMAIN decodeV2QuestionRequestList = {200, 400, 401}
          /\ decodeV2QuestionRequestList[200].media = "json"
          /\ decodeV2QuestionRequestList[200].schema = V2QuestionRequestListOK
          /\ decodeV2QuestionRequestList[200].rule = ValidateV2QuestionRequestListOK
          /\ decodeV2QuestionRequestList[400].type # "V2QuestionRequestListOK"
          /\ decodeV2QuestionRequestList[401].type # "V2QuestionRequestListOK"
      BY DEF decodeV2QuestionRequestList, Checked
    <3> HIDE DEF r
    <3> QED
      BY <3>1, <3>2
  <2> QED
    BY <2>1, <2>2
<1>3. t.schema.t \in {"obj", "arr"}
  <2>1. V2PermissionRequestListOK.t = "obj" /\ V2QuestionRequestListOK.t = "obj"
    BY DEF V2PermissionRequestListOK, V2QuestionRequestListOK, Strict, Object
  <2> QED
    BY <1>2, <2>1
<1> HIDE DEF t, r
<1>4. /\ t \in AnswerTypes /\ a.doc \in Documents(t.schema, t.rule) /\ Described(t, a.doc)
      /\ Outcome(r, a) = Ok(Value(r, a)) /\ TypeOf(r, a) = r.ok /\ r.call.decode[a.status] = t
  <2>1. a \in Offered(r) /\ Outcome(r, a).kind = "ok"
    BY DEF r
  <2> QED
    BY <1>1, <1>2, <1>3, <2>1, OkAnswer
<1>5. \A m \in Met(t.schema, a.doc) : IsValue(m[2])
  BY <1>4, OpenCodeClientAssumption
<1>6. IsRequestList(Under(Encoded(t.schema, a.doc), "data"))
  BY <1>2, <1>4, <1>5, PermissionsListed, QuestionsListed DEF Described
<1>7. Value(r, a) = Under(Encoded(t.schema, a.doc), "data")
  BY <1>1, <1>2, <1>4 DEF Value, TypedRequest
<1> QED
  BY <1>4, <1>6, <1>7 DEF Ok, r

\* What the two methods return, whatever OpenCode answers: the inductive
\* invariant of the theorems below.
RequestsListed ==
    method \in {"Permissions", "Questions"} /\ outcome.kind = "ok" => IsRequestList(outcome.value)

LEMMA NextRequests == LegInv /\ RequestsListed /\ [ClientNext]_clientVars => RequestsListed'
<1> SUFFICES ASSUME LegInv, RequestsListed, [ClientNext]_clientVars PROVE RequestsListed'
  OBVIOUS
<1>1. CASE Call
  BY <1>1 DEF Call, Error, RequestsListed
<1>2. ASSUME InProgress, NEW a \in Offered(Request), Answered(a), FallBack(a) \/ ContinueWithModels(a)
      PROVE  RequestsListed'
  <2>1. outcome' = None
    BY <1>2 DEF FallBack, ContinueWithModels, LegInv, InProgress
  <2> QED
    BY <2>1 DEF None, RequestsListed
<1>3. ASSUME InProgress, NEW a \in Offered(Request), Answered(a), Return(a) PROVE RequestsListed'
  <2>1. method \in {"Permissions", "Questions"} => leg = method
    BY <1>3, LegIs DEF LegsOf
  <2>2. outcome' = Outcome(Request, a) /\ method' = method
    BY <1>3 DEF Answered, Return
  <2> QED
    BY <1>3, <2>1, <2>2, RequestsReturned DEF RequestsListed
<1>4. CASE UNCHANGED clientVars
  BY <1>4 DEF clientVars, RequestsListed
<1> QED
  BY <1>1, <1>2, <1>3, <1>4 DEF ClientNext

LEMMA RequestsHold == ClientSpec => []RequestsListed
<1>1. ClientInit => RequestsListed
  BY DEF ClientInit, None, RequestsListed
<1> QED
  BY <1>1, LegHolds, NextRequests, PTL DEF ClientSpec

LEMMA ListCounted ==
  ASSUME NEW v, IsRequestList(v), NEW session \in Identifiers["ses"], NEW kind
  PROVE  /\ Len(summarizeRequests(v, kind, session))
              = Cardinality({i \in DOMAIN v.a : v.a[i].f["sessionID"].v = session})
         /\ Len(summarizeRequests(v, kind, session)) = Len(OfSession(v, session))
<1>1. IsRequestList(v) /\ session # ""
  BY IdentifiersAssumption DEF IdPrefixes
<1>2. Len(summarizeRequests(v, kind, session)) = Cardinality(Naming(v, session))
      /\ Len(OfSession(v, session)) = Cardinality(Naming(v, session))
  BY ONLY <1>1, SummariesCounted
<1> QED
  BY <1>2 DEF Naming

\* handoff_check shows each pending request of a session once, and none of
\* another session: the walk for anything with an id finds the requests, and
\* not what they refer to or ask.
THEOREM RequestsOnce == ClientSpec => []RequestsShownOnce
<1>1. RequestsListed => RequestsShownOnce
  <2>1. PICK v : v = outcome.value
    OBVIOUS
  <2>2. IsRequestList(v) =>
          \A session \in Identifiers["ses"] :
              Len(summarizeRequests(v, "kind", session))
                = Cardinality({i \in DOMAIN v.a : v.a[i].f["sessionID"].v = session})
    BY ListCounted
  <2> QED
    BY <2>1, <2>2 DEF RequestsListed, RequestsShownOnce
<1> QED
  BY <1>1, RequestsHold, PTL

\* Of the questions of a session handoff_check shows as many as
\* handoff_question_reply has to choose from.
THEOREM QuestionsAnswerable == ClientSpec => []ShownQuestionCanBeAnswered
<1>1. RequestsListed => ShownQuestionCanBeAnswered
  <2>1. PICK v : v = outcome.value
    OBVIOUS
  <2>2. IsRequestList(v) =>
          \A session \in Identifiers["ses"] :
              Len(summarizeRequests(v, "question", session)) = Len(OfSession(v, session))
    BY ListCounted
  <2> QED
    BY <2>1, <2>2 DEF RequestsListed, ShownQuestionCanBeAnswered
<1> QED
  BY <1>1, RequestsHold, PTL
=============================================================================
