--------------------------- MODULE WorkspaceProofs ---------------------------
(* Theorems about Workspace, for any sets of sessions, places and calls, any *)
(* number of results and crashes, and any of the failures: its invariants,   *)
(* and that it implements WorkspaceLifecycle.                                *)
EXTENDS Workspace, SequenceTheorems, TLAPS

-----------------------------------------------------------------------------
(* Type correctness *)

Locals == [pc : Steps, on : Sessions \cup {Nobody}, rec : Record, out : Record,
           tidy : BOOLEAN, force : BOOLEAN, changes : BOOLEAN]

LEMMA RecordTypes ==
  /\ NoRecord \in Record /\ NoCall \in Locals
  /\ \A rec \in Record :
        /\ rec.place \in Places \cup {Source} /\ rec.git \in BOOLEAN
        /\ rec.cleaned \in BOOLEAN /\ rec.checks \in Seq(Nat)
        /\ [rec EXCEPT !.git = TRUE] \in Record /\ [rec EXCEPT !.cleaned = TRUE] \in Record
  /\ \A l \in Locals : /\ l.pc \in Steps /\ l.on \in Sessions \cup {Nobody}
                       /\ l.rec \in Record /\ l.out \in Record
                       /\ l.tidy \in BOOLEAN /\ l.force \in BOOLEAN /\ l.changes \in BOOLEAN
                       /\ \A where \in Steps : [l EXCEPT !.pc = where] \in Locals
<1>1. NoRecord \in Record
  BY DEF NoRecord, Record
<1>2. NoCall \in Locals
  BY <1>1 DEF NoCall, Locals, Steps
<1>3. ASSUME NEW rec \in Record
      PROVE  /\ rec.place \in Places \cup {Source} /\ rec.git \in BOOLEAN
             /\ rec.cleaned \in BOOLEAN /\ rec.checks \in Seq(Nat)
             /\ [rec EXCEPT !.git = TRUE] \in Record /\ [rec EXCEPT !.cleaned = TRUE] \in Record
  BY DEF Record
<1>4. ASSUME NEW l \in Locals
      PROVE  /\ l.pc \in Steps /\ l.on \in Sessions \cup {Nobody} /\ l.rec \in Record /\ l.out \in Record
             /\ l.tidy \in BOOLEAN /\ l.force \in BOOLEAN /\ l.changes \in BOOLEAN
             /\ \A where \in Steps : [l EXCEPT !.pc = where] \in Locals
  BY DEF Locals
<1> QED
  BY <1>1, <1>2, <1>3, <1>4

\* A result is added and old ones dropped.
LEMMA RecordedType ==
  ASSUME NEW now \in Record, NEW copy, NEW r \in Nat
  PROVE  /\ Recorded(now, copy, r) \in Record
         /\ Recorded(now, copy, r).place = now.place /\ Recorded(now, copy, r).cleaned = now.cleaned
<1> DEFINE all == Append(now.checks, r)
           from == IF Len(all) > MaxHistory THEN Len(all) - MaxHistory + 1 ELSE 1
<1>1. all \in Seq(Nat) /\ Len(all) \in Nat
  BY DEF Record
<1>2. from \in 1 .. Len(all) + 1
  BY <1>1, WorkspaceBounds
<1>3. SubSeq(all, from, Len(all)) \in Seq(Nat)
  BY <1>1, <1>2, SubSeqProperties
<1>4. Recorded(now, copy, r) = [now EXCEPT !.checks = SubSeq(all, from, Len(all))]
  BY DEF Recorded
<1> QED
  BY <1>3, <1>4 DEF Record

LEMMA InitType == Init => TypeOK
  BY RecordTypes DEF Init, TypeOK, Locals

\* A step of call c, which leaves it with locals l.
LEMMA CallType ==
  ASSUME TypeOK, NEW c \in Calls, NEW l \in Locals, call' = [call EXCEPT ![c] = l]
  PROVE  call' \in [Calls -> Locals]
  BY DEF TypeOK, Locals

LEMMA LocalsOf == ASSUME TypeOK, NEW c \in Calls PROVE call[c] \in Locals
  BY DEF TypeOK, Locals

\* A call past its first step has a session, but for an Open that has none yet;
\* and what a call does to a place is what is done to places of that kind.
Anonymous == {"idle", "opening", "undoTree", "undoBranch"}
Tidying == {"decide", "removeTree", "removeBranch", "empty", "removeAll", "mark"}
CallOK(l) ==
    /\ l.pc \notin Anonymous => l.on \in Sessions
    /\ l.tidy \/ l.pc = "undoTree" => l.rec.place \in Places
    /\ l.pc \in Tidying => l.tidy
    /\ l.pc \in {"undoBranch", "removeTree", "removeBranch"} => l.rec.place \in Slots
    /\ l.pc \in {"empty", "removeAll"} => l.rec.place \in Paths
CallsOK == \A c \in Calls : CallOK(call[c])

TypeInv == TypeOK /\ CallsOK

\* Everything but the calls and the counters of crashes.
StoreType ==
    /\ known \subseteq Sessions /\ saved \subseteq Sessions
    /\ records \in [Sessions -> Record] /\ disk \in [Sessions -> Record]
    /\ tree \in [Places -> {"none", "missing", "clean", "work"}]
    /\ history \in [Places -> {"none", "base", "ahead"}]
    /\ used \subseteq Slots \cup Sessions
    /\ ran \in [Sessions -> Nat]
    /\ discarded \subseteq Places /\ strayed \subseteq Places

LEMMA StoreTyped == ASSUME TypeInv PROVE StoreType
  BY DEF TypeInv, TypeOK, StoreType

LEMMA StepType ==
  ASSUME TypeInv, StoreType', UNCHANGED crashes, NEW c \in Calls, NEW l \in Locals,
         call' = [call EXCEPT ![c] = l], CallOK(l)
  PROVE  TypeInv'
<1>1. call' \in [Calls -> Locals]
  BY CallType DEF TypeInv
<1>2. TypeOK'
  BY <1>1 DEF TypeInv, TypeOK, StoreType, Locals
<1>3. call \in [Calls -> Locals]
  BY DEF TypeInv, TypeOK, Locals
<1>4. CallsOK'
  BY <1>3 DEF TypeInv, CallsOK
<1> QED
  BY <1>2, <1>4 DEF TypeInv

LEMMA GotoType ==
  ASSUME TypeInv, StoreType', UNCHANGED crashes, NEW c \in Calls, NEW where \in Steps, Goto(c, where),
         CallOK([call[c] EXCEPT !.pc = where])
  PROVE  TypeInv'
<1>1. [call[c] EXCEPT !.pc = where] \in Locals
  BY LocalsOf, RecordTypes DEF TypeInv
<1>2. call' = [call EXCEPT ![c] = [call[c] EXCEPT !.pc = where]]
  BY DEF Goto, TypeInv, TypeOK
<1> QED
  BY <1>1, <1>2, StepType

LEMMA ReturnType ==
  ASSUME TypeInv, StoreType', UNCHANGED crashes, NEW c \in Calls, Return(c)
  PROVE  TypeInv'
  BY RecordTypes, StepType DEF Return, NoCall, Anonymous, CallOK, Tidying

LEMMA SaveType ==
  ASSUME TypeInv, NEW c \in Calls, NEW at \in Steps \ Anonymous, NEW l \in Locals, NEW m \in Locals,
         CallOK(l), CallOK(m), Save(c, at, l, m)
  PROVE  TypeInv'
<1>1. call[c].out \in Record /\ call[c].on \in Sessions
  BY LocalsOf, RecordTypes DEF TypeInv, CallsOK, CallOK, Tidying, Save
<1>2. StoreType'
  BY <1>1, StoreTyped DEF Save, StoreType, memVars, fsVars, ghosts, diskVars
<1>3. UNCHANGED crashes /\ (call' = [call EXCEPT ![c] = l] \/ call' = [call EXCEPT ![c] = m])
  BY DEF Save
<1> QED
  BY <1>1, <1>2, <1>3, StepType

LEMMA OpenType ==
  ASSUME TypeInv, NEW c \in Calls, Open(c) \/ AddInterrupted(c)
  PROVE  TypeInv'
<1> USE StoreTyped DEF StoreType, memVars, diskVars, fsVars, ghosts
<1>1. ASSUME NEW place \in Places \cup {Source}, NEW git \in BOOLEAN, OpensIn(c, place, git),
             StoreType', UNCHANGED crashes
      PROVE  TypeInv'
  <2> DEFINE l == [NoCall EXCEPT !.pc = "opening",
                                 !.rec = [NoRecord EXCEPT !.place = place, !.git = git]]
  <2>1. l \in Locals /\ CallOK(l)
    <3>1. [NoRecord EXCEPT !.place = place, !.git = git] \in Record
      BY RecordTypes DEF Record
    <3>2. [NoCall EXCEPT !.pc = "opening"] \in Locals
      BY RecordTypes DEF Steps
    <3> QED
      BY <3>1, <3>2 DEF Locals, CallOK, Tidying, Anonymous, NoCall
  <2>2. call' = [call EXCEPT ![c] = l]
    BY <1>1 DEF OpensIn
  <2> HIDE DEF l
  <2> QED
    BY <1>1, <2>1, <2>2, StepType
<1>2. CASE OpenDirect(c)
  BY <1>1, <1>2 DEF OpenDirect
<1>3. CASE OpenWorktree(c)
  <2>1. PICK p \in Slots \ used : /\ used' = used \cup {p}
                                  /\ tree' = [tree EXCEPT ![p] = "clean"]
                                  /\ history' = [history EXCEPT ![p] = "base"]
                                  /\ OpensIn(c, p, TRUE)
    BY <1>3 DEF OpenWorktree
  <2>2. StoreType' /\ UNCHANGED crashes
    BY <1>3, <2>1 DEF OpenWorktree, Places
  <2> QED
    BY <1>1, <2>1, <2>2 DEF Places
<1>4. CASE OpenGreenfield(c)
  <2>1. PICK p \in Paths : tree' = [tree EXCEPT ![p] = "clean"] /\ OpensIn(c, p, FALSE)
    BY <1>4 DEF OpenGreenfield
  <2>2. StoreType' /\ UNCHANGED crashes
    BY <1>4, <2>1 DEF OpenGreenfield, Places
  <2> QED
    BY <1>1, <2>1, <2>2 DEF Places
<1>5. CASE AddInterrupted(c)
  <2>1. PICK p \in Slots \ used : /\ used' = used \cup {p}
                                  /\ tree' \in {tree, [tree EXCEPT ![p] = "clean"]}
                                  /\ history' = [history EXCEPT ![p] = "base"]
                                  /\ strayed' = strayed \cup {p}
    BY <1>5 DEF AddInterrupted
  <2>2. StoreType'
    BY <1>5, <2>1 DEF AddInterrupted, Places
  <2> QED
    BY <1>5, <2>2 DEF AddInterrupted, TypeInv, TypeOK, CallsOK
<1> QED
  BY <1>2, <1>3, <1>4, <1>5 DEF Open

LEMMA OpeningType ==
  ASSUME TypeInv, NEW c \in Calls,
         \/ SessionOpened(c) \/ SessionRefused(c) \/ RollbackTree(c) \/ RollbackBranch(c)
         \/ Bind(c) \/ SaveNew(c)
  PROVE  TypeInv'
<1> USE DEF memVars, diskVars, fsVars, ghosts
<1>0. /\ StoreType /\ call \in [Calls -> Locals] /\ call[c] \in Locals /\ CallOK(call[c])
      /\ call[c].rec \in Record /\ call[c].rec.place \in Places \cup {Source}
  BY StoreTyped, LocalsOf, RecordTypes DEF TypeInv, CallsOK, TypeOK, Locals
<1>1. CASE SessionOpened(c)
  <2>1. PICK s \in Sessions : used' = used \cup {s} /\ call' = [call EXCEPT ![c].pc = "bind", ![c].on = s]
    BY <1>1 DEF SessionOpened
  <2> DEFINE l == [call[c] EXCEPT !.pc = "bind", !.on = s]
  <2>2. l \in Locals /\ CallOK(l)
    BY <1>0, <1>1 DEF Locals, Steps, CallOK, Tidying, SessionOpened
  <2>3. call' = [call EXCEPT ![c] = l]
    BY <1>0, <2>1
  <2>4. StoreType' /\ UNCHANGED crashes
    BY <1>0, <1>1, <2>1 DEF SessionOpened, StoreType
  <2> HIDE DEF l
  <2> QED
    BY <2>2, <2>3, <2>4, StepType
<1>2. CASE SessionRefused(c)
  <2>1. StoreType' /\ UNCHANGED crashes
    BY <1>0, <1>2 DEF SessionRefused, StoreType
  <2>2. CASE call[c].rec.place = Source
    BY <1>2, <2>1, <2>2, ReturnType DEF SessionRefused
  <2>3. CASE call[c].rec.place # Source
    <3>1. CallOK([call[c] EXCEPT !.pc = "undoTree"])
      BY <1>0, <2>3 DEF CallOK, Tidying, Anonymous, Locals
    <3> QED
      BY <1>2, <2>1, <2>3, <3>1, GotoType DEF SessionRefused, Steps
  <2> QED
    BY <2>2, <2>3
<1>3. CASE RollbackTree(c)
  <2> DEFINE p == call[c].rec.place
  <2>1. p \in Places
    BY <1>0, <1>3 DEF RollbackTree, CallOK, Tidying
  <2>2. tree' \in [Places -> {"none", "missing", "clean", "work"}] /\ strayed' \subseteq Places
    BY <1>0, <1>3, <2>1 DEF RollbackTree, StoreType
  <2>3. CASE p \in Slots
    <3>1. StoreType' /\ UNCHANGED crashes /\ Goto(c, "undoBranch")
      BY <1>0, <1>3, <2>2, <2>3 DEF RollbackTree, StoreType
    <3>2. CallOK([call[c] EXCEPT !.pc = "undoBranch"])
      BY <1>0, <2>1, <2>3 DEF CallOK, Tidying, Anonymous, Locals
    <3> QED
      BY <3>1, <3>2, GotoType DEF Steps
  <2>4. CASE p \notin Slots
    <3>1. StoreType' /\ UNCHANGED crashes /\ Return(c)
      BY <1>0, <1>3, <2>1, <2>2, <2>4 DEF RollbackTree, StoreType
    <3> QED
      BY <3>1, ReturnType
  <2> QED
    BY <2>3, <2>4
<1>4. CASE RollbackBranch(c)
  <2>1. call[c].rec.place \in Places
    BY <1>0, <1>4 DEF RollbackBranch, CallOK, Tidying, Places
  <2>2. StoreType' /\ UNCHANGED crashes /\ Return(c)
    BY <1>0, <1>4, <2>1 DEF RollbackBranch, StoreType
  <2> QED
    BY <2>2, ReturnType
<1>5. CASE Bind(c)
  <2> DEFINE l == [call[c] EXCEPT !.pc = "saveNew", !.out = call[c].rec]
  <2>1. l \in Locals /\ CallOK(l) /\ call[c].on \in Sessions
    BY <1>0, <1>5 DEF Locals, Steps, CallOK, Tidying, Anonymous, Bind
  <2>2. call' = [call EXCEPT ![c] = l]
    BY <1>0, <1>5 DEF Bind
  <2>3. StoreType' /\ UNCHANGED crashes
    BY <1>0, <1>5, <2>1 DEF Bind, StoreType
  <2> HIDE DEF l
  <2> QED
    BY <2>1, <2>2, <2>3, StepType
<1>6. CASE SaveNew(c)
  BY <1>6, SaveType, RecordTypes DEF SaveNew, NoCall, Anonymous, Steps, CallOK, Tidying
<1> QED
  BY <1>1, <1>2, <1>3, <1>4, <1>5, <1>6

\* What a call begins with, and what is left of it after an inspection.
LEMMA BeginType ==
  ASSUME TypeInv, NEW c \in Calls, NEW s \in Sessions, NEW at \in {"check", "stat"},
         NEW tidy \in BOOLEAN, NEW force \in BOOLEAN, Begin(c, s, at, tidy, force),
         tidy => records[s].place \in Places,
         UNCHANGED <<memVars, diskVars, fsVars, used, ran, ghosts, crashes>>
  PROVE  TypeInv'
<1> DEFINE l == [NoCall EXCEPT !.pc = at, !.on = s, !.rec = records[s], !.tidy = tidy, !.force = force]
<1>1. l \in Locals /\ CallOK(l)
  <2>1. records[s] \in Record
    BY StoreTyped DEF StoreType
  <2>2. \A m \in Locals :
           LET k == [m EXCEPT !.pc = at, !.on = s, !.rec = records[s], !.tidy = tidy, !.force = force]
           IN  k \in Locals /\ k.pc = at /\ k.on = s /\ k.rec = records[s] /\ k.tidy = tidy
    BY <2>1 DEF Locals, Steps
  <2>3. l \in Locals /\ l.pc = at /\ l.on = s /\ l.rec = records[s] /\ l.tidy = tidy
    BY <2>2, RecordTypes
  <2> HIDE DEF l
  <2> QED
    BY <2>3 DEF CallOK, Tidying
<1>2. call' = [call EXCEPT ![c] = l]
  BY DEF Begin
<1>3. StoreType' /\ UNCHANGED crashes
  BY StoreTyped DEF StoreType, memVars, diskVars, fsVars, ghosts
<1> HIDE DEF l
<1> QED
  BY <1>1, <1>2, <1>3, StepType

LEMMA ReportedType ==
  ASSUME NEW l \in Locals, CallOK(l), l.pc \notin Anonymous, NEW changes \in BOOLEAN
  PROVE  Reported(l, changes) \in Locals /\ CallOK(Reported(l, changes))
<1>1. CASE l.tidy
  <2> DEFINE m == [l EXCEPT !.pc = "decide", !.changes = changes]
  <2>1. m \in Locals /\ m.pc = "decide" /\ m.on = l.on /\ m.tidy = l.tidy /\ m.rec = l.rec
    BY DEF Locals, Steps
  <2>2. l.on \in Sessions /\ l.rec.place \in Places
    BY <1>1 DEF CallOK, Tidying
  <2>3. Reported(l, changes) = m
    BY <1>1 DEF Reported
  <2> HIDE DEF m
  <2>4. CallOK(m)
    BY <1>1, <2>1, <2>2 DEF CallOK, Tidying
  <2> QED
    BY <2>1, <2>3, <2>4
<1>2. CASE ~l.tidy
  BY <1>2, RecordTypes DEF Reported, CallOK, Tidying, NoCall, Anonymous
<1> QED
  BY <1>1, <1>2

\* The two halves of discoverGreenfieldGit: what they leave of the call, and of
\* the record.
Looking(c, l) ==
    /\ l \in Locals /\ call' = [call EXCEPT ![c] = l]
    /\ l.on = call[c].on /\ l.tidy = call[c].tidy /\ l.force = call[c].force
    /\ l.rec.place = call[c].rec.place /\ l.rec.cleaned = call[c].rec.cleaned
    /\ l.rec.checks = call[c].rec.checks
Discovers(c, l) ==
    /\ call[c].pc = "discover" /\ l.pc \in {"scan", "recordGit"} /\ l.out = call[c].out
    /\ UNCHANGED <<memVars, diskVars, fsVars, used, ran, ghosts, crashes>>
WithGit(rec) == [rec EXCEPT !.git = TRUE]
RecordsGit(c, l) ==
    /\ call[c].pc = "recordGit"
    /\ UNCHANGED <<known, diskVars, fsVars, used, ran, ghosts, crashes>>
    /\ \/ l.pc = "scan" /\ l.out = call[c].out /\ UNCHANGED records
       \/ /\ l.pc \in {"scan", "saveGit"} /\ l.out = WithGit(records[call[c].on])
          /\ records' = [records EXCEPT ![call[c].on] = WithGit(records[call[c].on])]
          /\ ~records[call[c].on].cleaned

LEMMA WithGitType ==
  ASSUME NEW rec \in Record
  PROVE  /\ WithGit(rec) \in Record /\ WithGit(rec).place = rec.place
         /\ WithGit(rec).cleaned = rec.cleaned /\ WithGit(rec).checks = rec.checks
  BY DEF WithGit, Record

LEMMA DiscoverLooks ==
  ASSUME TypeInv, NEW c \in Calls, Discover(c)
  PROVE  \E l : Looking(c, l) /\ Discovers(c, l)
<1>0. /\ call \in [Calls -> Locals] /\ call[c] \in Locals /\ call[c].rec \in Record
      /\ call[c].out \in Record
  BY LocalsOf, RecordTypes DEF TypeInv, TypeOK, Locals
<1> DEFINE at(where, rec) == [call[c] EXCEPT !.pc = where, !.rec = rec, !.out = call[c].out]
<1>1. \A where \in Steps, rec \in Record :
        /\ at(where, rec) \in Locals /\ at(where, rec).pc = where /\ at(where, rec).rec = rec
        /\ at(where, rec).out = call[c].out /\ at(where, rec).on = call[c].on
        /\ at(where, rec).tidy = call[c].tidy /\ at(where, rec).force = call[c].force
  BY <1>0 DEF Locals
<1>2. call[c].pc = "discover" /\ UNCHANGED <<memVars, diskVars, fsVars, used, ran, ghosts, crashes>>
  BY DEF Discover
<1>3. \/ call' = [call EXCEPT ![c] = at("scan", call[c].rec)]
      \/ call' = [call EXCEPT ![c] = at("recordGit", WithGit(call[c].rec))]
  BY <1>0 DEF Discover, Goto, WithGit, Locals
<1>4. {"scan", "recordGit"} \subseteq Steps
  BY DEF Steps
<1>5. WithGit(call[c].rec) \in Record
  BY <1>0, WithGitType
<1> HIDE DEF at
<1>6. ASSUME NEW where \in {"scan", "recordGit"}, NEW rec \in {call[c].rec, WithGit(call[c].rec)},
             call' = [call EXCEPT ![c] = at(where, rec)]
      PROVE  Looking(c, at(where, rec)) /\ Discovers(c, at(where, rec))
  <2>1. rec \in Record /\ rec.place = call[c].rec.place /\ rec.cleaned = call[c].rec.cleaned
        /\ rec.checks = call[c].rec.checks
    BY <1>0, WithGitType
  <2> QED
    BY <1>1, <1>2, <1>4, <1>6, <2>1 DEF Looking, Discovers
<1> QED
  BY <1>3, <1>6

LEMMA RecordGitLooks ==
  ASSUME TypeInv, NEW c \in Calls, RecordGit(c)
  PROVE  /\ call[c].on \in Sessions /\ records[call[c].on] \in Record
         /\ \E l : Looking(c, l) /\ RecordsGit(c, l)
<1>0. /\ call \in [Calls -> Locals] /\ call[c] \in Locals /\ call[c].rec \in Record
      /\ call[c].out \in Record /\ CallOK(call[c]) /\ StoreType
  BY LocalsOf, RecordTypes, StoreTyped DEF TypeInv, TypeOK, Locals, CallsOK
<1> DEFINE s == call[c].on
           at(where, out) == [call[c] EXCEPT !.pc = where, !.rec = call[c].rec, !.out = out]
<1>1. \A where \in Steps, out \in Record :
        /\ at(where, out) \in Locals /\ at(where, out).pc = where /\ at(where, out).rec = call[c].rec
        /\ at(where, out).out = out /\ at(where, out).on = call[c].on
        /\ at(where, out).tidy = call[c].tidy /\ at(where, out).force = call[c].force
  BY <1>0 DEF Locals
<1>2. /\ call[c].pc = "recordGit" /\ UNCHANGED <<known, diskVars, fsVars, used, ran, ghosts, crashes>>
  BY DEF RecordGit
<1>3. s \in Sessions /\ records[s] \in Record /\ WithGit(records[s]) \in Record
  BY <1>0, <1>2, WithGitType DEF CallOK, Anonymous, StoreType
<1>4. \/ call' = [call EXCEPT ![c] = at("scan", call[c].out)] /\ UNCHANGED records
      \/ /\ ~records[s].cleaned /\ records' = [records EXCEPT ![s] = WithGit(records[s])]
         /\ \E where \in {"scan", "saveGit"} :
              call' = [call EXCEPT ![c] = at(where, WithGit(records[s]))]
  <2>1. CASE records[s].cleaned
    BY <1>0, <2>1 DEF RecordGit, Goto, Locals
  <2>2. CASE ~records[s].cleaned
    BY <1>0, <2>2 DEF RecordGit, WithGit, Locals
  <2> QED
    BY <2>1, <2>2
<1>5. {"scan", "saveGit"} \subseteq Steps
  BY DEF Steps
<1> HIDE DEF at
<1>6. ASSUME NEW where \in Steps, NEW out \in Record, call' = [call EXCEPT ![c] = at(where, out)]
      PROVE  Looking(c, at(where, out))
  BY <1>1, <1>6 DEF Looking
<1>7. CASE call' = [call EXCEPT ![c] = at("scan", call[c].out)] /\ UNCHANGED records
  <2>1. RecordsGit(c, at("scan", call[c].out))
    BY <1>0, <1>1, <1>2, <1>5, <1>7 DEF RecordsGit
  <2> QED
    BY <1>0, <1>3, <1>5, <1>6, <1>7, <2>1
<1>8. ASSUME NEW where \in {"scan", "saveGit"}, call' = [call EXCEPT ![c] = at(where, WithGit(records[s]))],
             ~records[s].cleaned, records' = [records EXCEPT ![s] = WithGit(records[s])]
      PROVE  \E l : Looking(c, l) /\ RecordsGit(c, l)
  <2>1. RecordsGit(c, at(where, WithGit(records[s])))
    BY <1>1, <1>2, <1>3, <1>5, <1>8 DEF RecordsGit
  <2> QED
    BY <1>3, <1>5, <1>6, <1>8, <2>1
<1> QED
  BY <1>3, <1>4, <1>7, <1>8

LEMMA LookingType ==
  ASSUME TypeInv, NEW c \in Calls,
         \/ CheckRuns(c) \/ SaveCheck(c) \/ VerifyEnds(c)
         \/ Stat(c) \/ Discover(c) \/ RecordGit(c) \/ SaveGit(c) \/ Scan(c)
  PROVE  TypeInv'
<1> USE DEF memVars, diskVars, fsVars, ghosts
<1>0. /\ StoreType /\ call \in [Calls -> Locals] /\ call[c] \in Locals /\ CallOK(call[c])
      /\ call[c].rec \in Record /\ call[c].rec.place \in Places \cup {Source}
  BY StoreTyped, LocalsOf, RecordTypes DEF TypeInv, CallsOK, TypeOK, Locals
<1>1. ASSUME NEW l \in Locals, CallOK(l), call' = [call EXCEPT ![c] = l],
             UNCHANGED <<memVars, diskVars, fsVars, used, ran, ghosts, crashes>>
      PROVE  TypeInv'
  <2>1. StoreType'
    BY <1>0, <1>1 DEF StoreType
  <2> QED
    BY <1>1, <2>1, StepType
<1>2. CASE CheckRuns(c)
  <2> DEFINE s == call[c].on
             now == Recorded(records[s], call[c].rec, ran[s] + 1)
             l == [call[c] EXCEPT !.pc = "saveCheck", !.out = now]
  <2>1. s \in Sessions
    BY <1>0, <1>2 DEF CheckRuns, CallOK, Tidying, Anonymous
  <2>2. now \in Record
    BY <1>0, <2>1, RecordedType DEF StoreType
  <2>3. l \in Locals /\ CallOK(l)
    BY <1>0, <1>2, <2>1, <2>2 DEF Locals, Steps, CallOK, Tidying, Anonymous, CheckRuns
  <2>4. /\ call' = [call EXCEPT ![c] = l] /\ records' = [records EXCEPT ![s] = now]
        /\ ran' = [ran EXCEPT ![s] = @ + 1]
        /\ UNCHANGED <<known, diskVars, fsVars, used, ghosts, crashes>>
    BY <1>0, <1>2 DEF CheckRuns
  <2> HIDE DEF l, now
  <2>5. StoreType'
    BY <1>0, <2>1, <2>2, <2>4 DEF StoreType
  <2> QED
    BY <2>3, <2>4, <2>5, StepType
<1>3. CASE SaveCheck(c)
  <2>1. [call[c] EXCEPT !.pc = "check"] \in Locals /\ NoCall \in Locals
    BY <1>0, RecordTypes DEF Steps
  <2>2. CallOK(NoCall) /\ (call[c].pc = "saveCheck" => CallOK([call[c] EXCEPT !.pc = "check"]))
    BY <1>0 DEF CallOK, Tidying, Locals, Anonymous, NoCall
  <2>3. call[c].pc = "saveCheck"
    BY <1>3 DEF SaveCheck, Save
  <2> QED
    BY <1>3, <2>1, <2>2, <2>3, SaveType DEF SaveCheck, Steps, Anonymous
<1>4. CASE VerifyEnds(c)
  BY <1>1, <1>4, RecordTypes DEF VerifyEnds, Return, NoCall, CallOK, Tidying, Anonymous
<1>5. CASE Stat(c)
  <2> DEFINE p == call[c].rec.place
             l == IF p \in Places /\ tree[p] \notin Present THEN Reported(call[c], FALSE)
                  ELSE [call[c] EXCEPT !.pc = IF p \in Paths THEN "discover" ELSE "scan"]
  <2>1. l \in Locals /\ CallOK(l)
    <3>1. CASE p \in Places /\ tree[p] \notin Present
      BY <1>0, <1>5, <3>1, ReportedType DEF Stat, Anonymous
    <3>2. CASE ~(p \in Places /\ tree[p] \notin Present)
      BY <1>0, <1>5, <3>2 DEF Stat, Locals, Steps, CallOK, Tidying, Anonymous
    <3> QED
      BY <3>1, <3>2
  <2>2. call' = [call EXCEPT ![c] = l]
    BY <1>0, <1>5 DEF Stat
  <2> HIDE DEF l
  <2> QED
    BY <1>1, <1>5, <2>1, <2>2 DEF Stat
<1>6. CASE Discover(c)
  <2>1. PICK l : Looking(c, l) /\ Discovers(c, l)
    BY <1>6, DiscoverLooks
  <2>2. CallOK(l)
    BY <1>0, <2>1 DEF Looking, Discovers, CallOK, Tidying, Anonymous
  <2> QED
    BY <1>1, <2>1, <2>2 DEF Looking, Discovers
<1>9. CASE RecordGit(c)
  <2>1. PICK l : Looking(c, l) /\ RecordsGit(c, l)
    BY <1>9, RecordGitLooks
  <2>2. CallOK(l)
    BY <1>0, <2>1 DEF Looking, RecordsGit, CallOK, Tidying, Anonymous
  <2>3. call[c].on \in Sessions /\ WithGit(records[call[c].on]) \in Record
    BY <1>9, RecordGitLooks, WithGitType
  <2>4. StoreType'
    BY <1>0, <2>1, <2>3 DEF RecordsGit, StoreType
  <2> QED
    BY <2>1, <2>2, <2>4, StepType DEF Looking, RecordsGit
<1>7. CASE SaveGit(c)
  <2>1. [call[c] EXCEPT !.pc = "scan"] \in Locals
    BY <1>0, RecordTypes DEF Steps
  <2>2. call[c].pc = "saveGit"
    BY <1>7 DEF SaveGit, Save
  <2>3. CallOK([call[c] EXCEPT !.pc = "scan"])
    BY <1>0, <2>2 DEF CallOK, Tidying, Locals, Anonymous
  <2> QED
    BY <1>7, <2>1, <2>3, SaveType DEF SaveGit, Steps, Anonymous
<1>8. CASE Scan(c)
  <2> DEFINE p == call[c].rec.place
             l == IF p = Source \/ ~call[c].rec.git THEN Reported(call[c], FALSE)
                  ELSE IF tree[p] \notin Present \/ history[p] = "none" THEN NoCall
                  ELSE Reported(call[c], tree[p] = "work" \/ history[p] = "ahead")
  <2>1. l \in Locals /\ CallOK(l)
    <3>1. call[c].pc \notin Anonymous
      BY <1>8 DEF Scan, Anonymous
    <3>2. \A changes \in BOOLEAN : Reported(call[c], changes) \in Locals /\ CallOK(Reported(call[c], changes))
      BY <1>0, <3>1, ReportedType
    <3>3. NoCall \in Locals /\ CallOK(NoCall)
      BY RecordTypes DEF CallOK, Tidying, NoCall, Anonymous
    <3> QED
      BY <3>2, <3>3
  <2>2. call' = [call EXCEPT ![c] = l]
    BY <1>0, <1>8 DEF Scan
  <2> HIDE DEF l
  <2> QED
    BY <1>1, <1>8, <2>1, <2>2 DEF Scan
<1> QED
  BY <1>2, <1>3, <1>4, <1>5, <1>6, <1>7, <1>8, <1>9

LEMMA TidyType ==
  ASSUME TypeInv, NEW c \in Calls,
         \/ Decide(c) \/ RemoveTree(c) \/ RemoveBranch(c) \/ CheckEmpty(c) \/ RemoveAll(c)
         \/ MarkCleaned(c) \/ SaveMark(c)
  PROVE  TypeInv'
<1> USE DEF memVars, diskVars, fsVars, ghosts
<1> DEFINE p == call[c].rec.place
<1>0. /\ StoreType /\ call \in [Calls -> Locals] /\ call[c] \in Locals /\ CallOK(call[c])
      /\ call[c].rec \in Record /\ p \in Places \cup {Source}
  BY StoreTyped, LocalsOf, RecordTypes DEF TypeInv, CallsOK, TypeOK, Locals
\* Past its decision a cleanup goes on to a step that fits the place.
<1>1. ASSUME NEW where \in {"removeTree", "removeBranch", "empty", "removeAll", "mark"},
             Goto(c, where), StoreType', UNCHANGED crashes, call[c].pc \notin Anonymous,
             where \in {"removeTree", "removeBranch"} => p \in Slots,
             where \in {"empty", "removeAll"} => p \in Paths,
             call[c].tidy
      PROVE  TypeInv'
  <2>1. CallOK([call[c] EXCEPT !.pc = where])
    BY <1>0, <1>1 DEF CallOK, Tidying, Locals
  <2> QED
    BY <1>1, <2>1, GotoType DEF Steps
<1>2. CASE Decide(c)
  <2>1. StoreType' /\ UNCHANGED crashes /\ call[c].pc = "decide"
    BY <1>0, <1>2 DEF Decide, StoreType
  <2>2. call[c].tidy /\ p \in Places
    BY <1>0, <2>1 DEF CallOK, Tidying
  <2>3. \/ Goto(c, "mark") \/ Return(c)
        \/ Goto(c, "removeTree") /\ p \in Slots
        \/ Goto(c, "removeAll") /\ p \in Paths
        \/ Goto(c, "empty") /\ p \in Paths
    BY <1>0, <1>2, <2>2 DEF Decide, Goto, Return, Places
  <2> QED
    BY <1>0, <1>1, <2>1, <2>2, <2>3, ReturnType DEF Anonymous, CallOK, Tidying
<1>3. CASE RemoveTree(c)
  <2>1. p \in Slots /\ call[c].pc = "removeTree"
    BY <1>0, <1>3 DEF RemoveTree, CallOK, Tidying
  <2>2. StoreType' /\ UNCHANGED crashes
    BY <1>0, <1>3, <2>1 DEF RemoveTree, Forgotten, StoreType, Places
  <2>3. Goto(c, "removeBranch") \/ Return(c)
    BY <1>3 DEF RemoveTree
  <2> QED
    BY <1>0, <1>1, <2>1, <2>2, <2>3, ReturnType DEF Anonymous, CallOK, Tidying
<1>4. CASE RemoveBranch(c)
  <2>1. p \in Slots /\ call[c].pc = "removeBranch"
    BY <1>0, <1>4 DEF RemoveBranch, CallOK, Tidying
  <2>2. StoreType' /\ UNCHANGED crashes
    BY <1>0, <1>4, <2>1 DEF RemoveBranch, StoreType, Places, Forgotten
  <2>3. Goto(c, "mark") \/ Return(c)
    BY <1>4 DEF RemoveBranch
  <2> QED
    BY <1>0, <1>1, <2>1, <2>2, <2>3, ReturnType DEF Anonymous, CallOK, Tidying
<1>5. CASE CheckEmpty(c)
  <2>1. p \in Paths /\ call[c].pc = "empty"
    BY <1>0, <1>5 DEF CheckEmpty, CallOK, Tidying
  <2>2. StoreType' /\ UNCHANGED crashes
    BY <1>0, <1>5 DEF CheckEmpty, StoreType
  <2>3. Goto(c, "removeAll") \/ Return(c)
    BY <1>5 DEF CheckEmpty
  <2> QED
    BY <1>0, <1>1, <2>1, <2>2, <2>3, ReturnType DEF Anonymous, CallOK, Tidying
<1>6. CASE RemoveAll(c)
  <2>1. p \in Paths /\ call[c].pc = "removeAll"
    BY <1>0, <1>6 DEF RemoveAll, CallOK, Tidying
  <2>2. StoreType' /\ UNCHANGED crashes
    BY <1>0, <1>6, <2>1 DEF RemoveAll, StoreType, Places, Forgotten
  <2>3. Goto(c, "mark") \/ Return(c)
    BY <1>6 DEF RemoveAll
  <2> QED
    BY <1>0, <1>1, <2>1, <2>2, <2>3, ReturnType DEF Anonymous, CallOK, Tidying
<1>7. CASE MarkCleaned(c)
  <2> DEFINE rec == [call[c].rec EXCEPT !.cleaned = TRUE]
             l == [call[c] EXCEPT !.pc = "saveMark", !.out = rec]
  <2>1. call[c].pc = "mark" /\ call[c].on \in Sessions /\ rec \in Record
    BY <1>0, <1>7, RecordTypes DEF MarkCleaned, CallOK, Tidying, Anonymous
  <2>2. call' = [call EXCEPT ![c] = l] /\ records' = [records EXCEPT ![call[c].on] = rec]
    BY <1>0, <1>7 DEF MarkCleaned
  <2>3. l \in Locals /\ CallOK(l)
    BY <1>0, <2>1 DEF CallOK, Tidying, Locals, Steps, Anonymous
  <2> HIDE DEF l, rec
  <2>4. StoreType' /\ UNCHANGED crashes
    BY <1>0, <1>7, <2>1, <2>2 DEF MarkCleaned, StoreType
  <2> QED
    BY <2>2, <2>3, <2>4, StepType
<1>8. CASE SaveMark(c)
  <2>1. CallOK(NoCall) /\ NoCall \in Locals
    BY RecordTypes DEF NoCall, CallOK, Tidying, Anonymous
  <2> QED
    BY <1>8, <2>1, SaveType DEF SaveMark, Steps, Anonymous
<1> QED
  BY <1>2, <1>3, <1>4, <1>5, <1>6, <1>7, <1>8

LEMMA OutsideType ==
  ASSUME TypeInv, NEW p \in Places, Outside(p)
  PROVE  TypeInv'
<1>1. /\ tree' \in [Places -> {"none", "missing", "clean", "work"}]
      /\ history' \in [Places -> {"none", "base", "ahead"}]
  BY StoreTyped DEF StoreType, Outside, Works, InitsRepository, Commits, Vanishes
<1> QED
  BY <1>1 DEF TypeInv, TypeOK, CallsOK, Outside, memVars, diskVars, ghosts

LEMMA CrashType == ASSUME TypeInv, Crash PROVE TypeInv'
<1>0. StoreType
  BY StoreTyped
<1>1. call' \in [Calls -> Locals] /\ CallsOK'
  <2>1. \A c \in Calls : call'[c] = NoCall
    BY DEF Crash
  <2>2. call' \in [Calls -> Locals]
    BY RecordTypes DEF Crash
  <2>3. CallOK(NoCall)
    BY DEF NoCall, CallOK, Tidying, Anonymous
  <2> QED
    BY <2>1, <2>2, <2>3 DEF CallsOK
<1>2. ran' \in [Sessions -> Nat]
  <2>1. ASSUME NEW s \in Sessions
        PROVE  (IF disk[s].checks = <<>> THEN 0 ELSE disk[s].checks[Len(disk[s].checks)]) \in Nat
    <3>1. disk[s].checks \in Seq(Nat)
      BY <1>0 DEF StoreType, Record
    <3> QED
      BY <3>1
  <2> QED
    BY <2>1 DEF Crash
<1>3. known' \subseteq Sessions /\ records' \in [Sessions -> Record] /\ strayed' \subseteq Places
      /\ crashes' \in Nat
  BY <1>0 DEF Crash, StoreType, TypeInv, TypeOK
<1> QED
  BY <1>0, <1>1, <1>2, <1>3 DEF Crash, TypeInv, TypeOK, StoreType, Locals, diskVars, fsVars

LEMMA NextType == ASSUME TypeInv, [Next]_vars PROVE TypeInv'
<1> USE DEF memVars, diskVars, fsVars, ghosts
<1>1. CASE UNCHANGED vars
  BY <1>1 DEF vars, TypeInv, TypeOK, CallsOK
<1>2. ASSUME NEW c \in Calls, NEW s \in Sessions, VerifyBegin(c, s) \/ InspectBegin(c, s)
      PROVE  TypeInv'
  BY <1>2, BeginType DEF VerifyBegin, InspectBegin
<1>3. ASSUME NEW c \in Calls, NEW s \in Sessions, NEW force \in BOOLEAN, CleanupBegin(c, s, force)
      PROVE  TypeInv'
  <2>1. records[s].place \in Places
    BY <1>3, StoreTyped, RecordTypes DEF CleanupBegin, StoreType
  <2> QED
    BY <1>3, <2>1, BeginType DEF CleanupBegin
<1>4. ASSUME NEW c \in Calls, Step(c) PROVE TypeInv'
  BY <1>4, OpeningType, LookingType, TidyType DEF Step
<1> QED
  BY <1>1, <1>2, <1>3, <1>4, OpenType, OutsideType, CrashType DEF Next

LEMMA TypeInvariant == Spec => []TypeInv
<1>1. Init => TypeInv
  <2>1. Init => CallsOK
    BY DEF Init, CallsOK, CallOK, Tidying, NoCall, Anonymous
  <2> QED
    BY <2>1, InitType DEF TypeInv
<1> QED
  BY <1>1, NextType, PTL DEF Spec

\* Every variable keeps its type.
THEOREM TypeCorrect == Spec => []TypeOK
<1>1. TypeInv => TypeOK
  BY DEF TypeInv
<1> QED
  BY <1>1, TypeInvariant, PTL

-----------------------------------------------------------------------------
(* What a cleanup leaves of a worktree                                      *)

\* A worktree id is used once: what has been removed of it does not come back.
NotBack(p) == /\ tree[p] = "none" => tree'[p] = "none"
              /\ ~OnDisk(p) => tree'[p] = "none" /\ history'[p] = "none"

LEMMA RemovedStaysRemoved ==
  ASSUME TypeInv, [Next]_vars
  PROVE  used \subseteq used' /\ \A p \in Slots \cap used : NotBack(p)
<1> USE StoreTyped DEF NotBack, OnDisk, StoreType, Places, memVars, diskVars, fsVars, ghosts
<1>1. CASE UNCHANGED <<tree, history, used>>
  BY <1>1
<1>2. ASSUME NEW q \in Places, Outside(q) PROVE used' = used /\ \A p \in Slots \cap used : NotBack(p)
  BY <1>2 DEF Outside, Works, InitsRepository, Commits, Vanishes, Present
<1>3. ASSUME NEW c \in Calls, OpenWorktree(c) \/ AddInterrupted(c)
      PROVE  used \subseteq used' /\ \A p \in Slots \cap used : NotBack(p)
  BY <1>3 DEF OpenWorktree, AddInterrupted
<1>4. ASSUME NEW c \in Calls, OpenGreenfield(c)
      PROVE  used' = used /\ \A p \in Slots \cap used : NotBack(p)
  BY <1>4, PlacesAssumption DEF OpenGreenfield
<1>5. ASSUME NEW c \in Calls, SessionOpened(c) PROVE used \subseteq used' /\ UNCHANGED fsVars
  BY <1>5 DEF SessionOpened
<1>6. ASSUME NEW c \in Calls, RollbackTree(c) \/ RollbackBranch(c) \/ RemoveTree(c)
                              \/ RemoveBranch(c) \/ RemoveAll(c)
      PROVE  used' = used /\ \A p \in Slots \cap used : NotBack(p)
  <2>1. CASE RollbackTree(c) BY <2>1 DEF RollbackTree
  <2>2. CASE RollbackBranch(c) BY <2>2 DEF RollbackBranch
  <2>3. CASE RemoveTree(c) BY <2>3 DEF RemoveTree
  <2>4. CASE RemoveBranch(c) BY <2>4 DEF RemoveBranch
  <2>5. CASE RemoveAll(c) BY <2>5 DEF RemoveAll
  <2> QED
    BY <1>6, <2>1, <2>2, <2>3, <2>4, <2>5
<1>7. ASSUME NEW c \in Calls,
             \/ OpenDirect(c) \/ SessionRefused(c) \/ Bind(c) \/ SaveNew(c)
             \/ CheckRuns(c) \/ SaveCheck(c) \/ VerifyEnds(c)
             \/ Stat(c) \/ Discover(c) \/ RecordGit(c) \/ SaveGit(c) \/ Scan(c)
             \/ Decide(c) \/ CheckEmpty(c) \/ MarkCleaned(c) \/ SaveMark(c)
      PROVE  UNCHANGED <<tree, history, used>>
  BY <1>7 DEF OpenDirect, SessionRefused, Bind, SaveNew, CheckRuns, SaveCheck, VerifyEnds,
              Stat, Discover, RecordGit, SaveGit, Scan, Decide, CheckEmpty, MarkCleaned, SaveMark, Save
<1>8. ASSUME NEW c \in Calls, NEW s \in Sessions,
             VerifyBegin(c, s) \/ InspectBegin(c, s) \/ \E force \in BOOLEAN : CleanupBegin(c, s, force)
      PROVE  UNCHANGED <<tree, history, used>>
  BY <1>8 DEF VerifyBegin, InspectBegin, CleanupBegin
<1>9. CASE Crash
  BY <1>9 DEF Crash
<1>10. CASE UNCHANGED vars
  BY <1>10 DEF vars
<1> HIDE DEF NotBack, OnDisk, StoreType, Places, memVars, diskVars, fsVars, ghosts
<1> QED
  BY <1>1, <1>2, <1>3, <1>4, <1>5, <1>6, <1>7, <1>8, <1>9, <1>10
  DEF Next, Open, Step, NotBack, fsVars, OnDisk

\* The worktree of a record was made for it; of a cleaned one nothing is left.
GoneRec(rec) == rec.place \in Slots =>
    rec.place \in used /\ (rec.cleaned => ~OnDisk(rec.place))
\* A cleanup that has removed the directory, or all there is to a worktree.
GoneCall(l) ==
    /\ GoneRec(l.rec) /\ GoneRec(l.out)
    /\ l.pc = "removeBranch" => tree[l.rec.place] = "none"
    /\ l.pc = "mark" /\ l.rec.place \in Slots => ~OnDisk(l.rec.place)
GoneInv ==
    /\ \A s \in Sessions : GoneRec(records[s]) /\ GoneRec(disk[s])
    /\ \A c \in Calls : GoneCall(call[c])

\* The same, said of the next state.
GoneNext(rec) == rec.place \in Slots =>
    rec.place \in used' /\ (rec.cleaned => tree'[rec.place] = "none" /\ history'[rec.place] = "none")
GoneCallNext(l) ==
    /\ GoneNext(l.rec) /\ GoneNext(l.out)
    /\ l.pc = "removeBranch" => tree'[l.rec.place] = "none"
    /\ l.pc = "mark" /\ l.rec.place \in Slots =>
          tree'[l.rec.place] = "none" /\ history'[l.rec.place] = "none"

LEMMA GoneLasts ==
  ASSUME TypeInv, [Next]_vars
  PROVE  /\ \A rec : GoneRec(rec) => GoneNext(rec)
         /\ \A l \in Locals : CallOK(l) /\ GoneCall(l) => GoneCallNext(l)
<1>1. used \subseteq used' /\ \A p \in Slots \cap used : NotBack(p)
  BY RemovedStaysRemoved
<1>2. ASSUME NEW rec, GoneRec(rec) PROVE GoneNext(rec)
  BY <1>1, <1>2 DEF GoneRec, GoneNext, NotBack
<1>3. ASSUME NEW l \in Locals, CallOK(l), GoneCall(l) PROVE GoneCallNext(l)
  BY <1>1, <1>2, <1>3 DEF GoneCall, GoneCallNext, GoneRec, NotBack, CallOK
<1> QED
  BY <1>2, <1>3

\* What is to be shown of a step of call c.
LEMMA GoneStep ==
  ASSUME TypeInv, GoneInv, [Next]_vars, NEW c \in Calls, NEW l \in Locals,
         call' = [call EXCEPT ![c] = l], GoneCallNext(l),
         \/ UNCHANGED <<memVars, diskVars>>
         \/ \A s \in Sessions : GoneNext(records'[s]) /\ GoneNext(disk'[s])
  PROVE  GoneInv'
<1>0. call \in [Calls -> Locals] /\ call' \in [Calls -> Locals] /\ CallsOK
  BY CallType DEF TypeInv, TypeOK, Locals
<1>1. \A s \in Sessions : GoneNext(records'[s]) /\ GoneNext(disk'[s])
  BY GoneLasts DEF GoneInv, memVars, diskVars
<1>2. ASSUME NEW d \in Calls PROVE GoneCallNext(call'[d])
  BY <1>0, GoneLasts DEF GoneInv, CallsOK
<1> QED
  BY <1>1, <1>2 DEF GoneInv, GoneRec, GoneCall, GoneNext, GoneCallNext, OnDisk

LEMMA NothingGone == GoneNext(NoRecord) /\ GoneCallNext(NoCall)
  BY PlacesAssumption DEF GoneNext, GoneCallNext, NoRecord, NoCall

LEMMA GoneReturn ==
  ASSUME TypeInv, GoneInv, [Next]_vars, NEW c \in Calls, Return(c), UNCHANGED <<memVars, diskVars>>
  PROVE  GoneInv'
  BY NothingGone, GoneStep, RecordTypes DEF Return

\* A call that only goes on keeps its records.
LEMMA GoneGoto ==
  ASSUME TypeInv, GoneInv, [Next]_vars, NEW c \in Calls, NEW l \in Locals,
         call' = [call EXCEPT ![c] = l], l.rec = call[c].rec, l.out = call[c].out,
         l.pc \notin {"removeBranch", "mark"}, UNCHANGED <<memVars, diskVars>>
  PROVE  GoneInv'
<1>1. GoneCallNext(call[c])
  BY LocalsOf, GoneLasts DEF TypeInv, CallsOK, GoneInv
<1>2. GoneCallNext(l)
  BY <1>1 DEF GoneCallNext
<1> QED
  BY <1>2, GoneStep

LEMMA GoneSave ==
  ASSUME TypeInv, GoneInv, [Next]_vars, NEW c \in Calls, NEW at, NEW l \in Locals, NEW m \in Locals,
         Save(c, at, l, m), GoneCallNext(l), GoneCallNext(m)
  PROVE  GoneInv'
<1>1. GoneCallNext(call[c]) /\ \A s \in Sessions : GoneNext(records[s]) /\ GoneNext(disk[s])
  BY LocalsOf, GoneLasts DEF TypeInv, CallsOK, GoneInv
<1>2. disk \in [Sessions -> Record]
  BY StoreTyped DEF StoreType
<1>3. \A s \in Sessions : GoneNext(records'[s]) /\ GoneNext(disk'[s])
  BY <1>1, <1>2 DEF Save, GoneCallNext, memVars, diskVars
<1>4. call' = [call EXCEPT ![c] = l] \/ call' = [call EXCEPT ![c] = m]
  BY DEF Save
<1> QED
  BY <1>3, <1>4, GoneStep

LEMMA GoneOpening ==
  ASSUME TypeInv, GoneInv, [Next]_vars, NEW c \in Calls,
         \/ Open(c) \/ AddInterrupted(c)
         \/ SessionOpened(c) \/ SessionRefused(c) \/ RollbackTree(c) \/ RollbackBranch(c)
         \/ Bind(c) \/ SaveNew(c)
  PROVE  GoneInv'
<1> USE DEF memVars, diskVars, fsVars, ghosts
<1>0. call \in [Calls -> Locals] /\ call[c] \in Locals /\ GoneCallNext(call[c])
  BY LocalsOf, GoneLasts DEF TypeInv, CallsOK, GoneInv, TypeOK, Locals
<1>1. ASSUME NEW place \in Places \cup {Source}, NEW git \in BOOLEAN, OpensIn(c, place, git),
             place \in Slots => place \in used', UNCHANGED <<memVars, diskVars>>
      PROVE  GoneInv'
  <2> DEFINE l == [NoCall EXCEPT !.pc = "opening",
                                 !.rec = [NoRecord EXCEPT !.place = place, !.git = git]]
  <2>1. l \in Locals /\ l.pc = "opening" /\ l.rec.place = place /\ ~l.rec.cleaned /\ l.out = NoRecord
    <3>1. [NoRecord EXCEPT !.place = place, !.git = git] \in Record
      BY RecordTypes DEF Record
    <3>2. [NoCall EXCEPT !.pc = "opening"] \in Locals
      BY RecordTypes DEF Steps
    <3> QED
      BY <3>1, <3>2 DEF Locals, NoCall, NoRecord
  <2>2. call' = [call EXCEPT ![c] = l]
    BY <1>1 DEF OpensIn
  <2>3. GoneCallNext(l)
    BY <1>1, <2>1, NothingGone DEF GoneCallNext, GoneNext
  <2> HIDE DEF l
  <2> QED
    BY <1>1, <2>1, <2>2, <2>3, GoneStep
<1>2. CASE Open(c)
  <2>1. CASE OpenDirect(c)
    BY <1>1, <2>1, PlacesAssumption DEF OpenDirect
  <2>2. CASE OpenWorktree(c)
    BY <1>1, <2>2 DEF OpenWorktree, Places
  <2>3. CASE OpenGreenfield(c)
    BY <1>1, <2>3, PlacesAssumption DEF OpenGreenfield, Places
  <2> QED
    BY <1>2, <2>1, <2>2, <2>3 DEF Open
<1>3. CASE AddInterrupted(c)
  <2>1. call' = [call EXCEPT ![c] = call[c]] /\ UNCHANGED <<memVars, diskVars>>
    BY <1>0, <1>3 DEF AddInterrupted
  <2> QED
    BY <1>0, <2>1, GoneStep
<1>4. CASE SessionOpened(c)
  <2>1. PICK s \in Sessions : call' = [call EXCEPT ![c].pc = "bind", ![c].on = s]
    BY <1>4 DEF SessionOpened
  <2> DEFINE l == [call[c] EXCEPT !.pc = "bind", !.on = s]
  <2>2. l \in Locals /\ l.pc = "bind" /\ l.rec = call[c].rec /\ l.out = call[c].out
    BY <1>0 DEF Locals, Steps
  <2>3. call' = [call EXCEPT ![c] = l]
    BY <1>0, <2>1
  <2> HIDE DEF l
  <2> QED
    BY <1>4, <2>2, <2>3, GoneGoto DEF SessionOpened
<1>5. ASSUME NEW where \in {"undoTree", "undoBranch"}, Goto(c, where), UNCHANGED <<memVars, diskVars>>
      PROVE  GoneInv'
  <2> DEFINE l == [call[c] EXCEPT !.pc = where]
  <2>1. l \in Locals /\ l.pc = where /\ l.rec = call[c].rec /\ l.out = call[c].out
    BY <1>0 DEF Locals, Steps
  <2>2. call' = [call EXCEPT ![c] = l]
    BY <1>0, <1>5 DEF Goto
  <2> HIDE DEF l
  <2> QED
    BY <1>5, <2>1, <2>2, GoneGoto
<1>6. CASE SessionRefused(c)
  BY <1>5, <1>6, GoneReturn DEF SessionRefused
<1>7. CASE RollbackTree(c)
  <2>1. (Goto(c, "undoBranch") \/ Return(c)) /\ UNCHANGED <<memVars, diskVars>>
    BY <1>7 DEF RollbackTree
  <2> QED
    BY <1>5, <2>1, GoneReturn
<1>8. CASE RollbackBranch(c)
  <2>1. Return(c) /\ UNCHANGED <<memVars, diskVars>>
    BY <1>8 DEF RollbackBranch
  <2> QED
    BY <2>1, GoneReturn
<1>9. CASE Bind(c)
  <2> DEFINE l == [call[c] EXCEPT !.pc = "saveNew", !.out = call[c].rec]
  <2>1. l \in Locals /\ GoneCallNext(l)
    BY <1>0 DEF Locals, Steps, GoneCallNext
  <2>2. call' = [call EXCEPT ![c] = l]
    BY <1>0, <1>9 DEF Bind
  <2>3. \A s \in Sessions : GoneNext(records[s]) /\ GoneNext(disk[s])
    BY GoneLasts DEF GoneInv
  <2>4. records \in [Sessions -> Record]
    BY StoreTyped DEF StoreType
  <2>5. \A s \in Sessions : GoneNext(records'[s]) /\ GoneNext(disk'[s])
    BY <1>0, <1>9, <2>3, <2>4 DEF Bind, GoneCallNext
  <2> HIDE DEF l
  <2> QED
    BY <2>1, <2>2, <2>5, GoneStep
<1>10. CASE SaveNew(c)
  BY <1>10, GoneSave, RecordTypes, NothingGone DEF SaveNew
<1> QED
  BY <1>2, <1>3, <1>4, <1>6, <1>7, <1>8, <1>9, <1>10

LEMMA GoneReported ==
  ASSUME NEW l \in Locals, GoneCallNext(l), NEW changes \in BOOLEAN
  PROVE  GoneCallNext(Reported(l, changes))
<1>1. CASE l.tidy
  BY <1>1 DEF Reported, Locals, GoneCallNext
<1>2. CASE ~l.tidy
  BY <1>2, NothingGone DEF Reported
<1> QED
  BY <1>1, <1>2

LEMMA GoneLooking ==
  ASSUME TypeInv, TypeInv', GoneInv, [Next]_vars, NEW c \in Calls,
         \/ CheckRuns(c) \/ SaveCheck(c) \/ VerifyEnds(c)
         \/ Stat(c) \/ Discover(c) \/ RecordGit(c) \/ SaveGit(c) \/ Scan(c)
  PROVE  GoneInv'
<1> USE DEF memVars, diskVars, fsVars, ghosts
<1>0. /\ StoreType /\ call \in [Calls -> Locals] /\ call[c] \in Locals /\ GoneCallNext(call[c])
      /\ CallOK(call[c])
  BY StoreTyped, LocalsOf, GoneLasts DEF TypeInv, CallsOK, GoneInv, TypeOK, Locals
<1>1. \A s \in Sessions : GoneNext(records[s]) /\ GoneNext(disk[s])
  BY GoneLasts DEF GoneInv
\* Another result, or what git says, changes nothing of a record that matters here.
<1>2. ASSUME NEW s \in Sessions, NEW now, GoneNext(now), records' = [records EXCEPT ![s] = now],
             UNCHANGED diskVars
      PROVE  \A t \in Sessions : GoneNext(records'[t]) /\ GoneNext(disk'[t])
  BY <1>0, <1>1, <1>2 DEF StoreType
<1>3. CASE CheckRuns(c)
  <2> DEFINE s == call[c].on
             now == Recorded(records[s], call[c].rec, ran[s] + 1)
             l == [call[c] EXCEPT !.pc = "saveCheck", !.out = now]
  <2>1. s \in Sessions
    BY <1>0, <1>3 DEF CheckRuns, CallOK, Anonymous
  <2>2. now \in Record /\ now.place = records[s].place /\ now.cleaned = records[s].cleaned
    BY <1>0, <2>1, RecordedType DEF StoreType
  <2>3. GoneNext(now)
    BY <1>1, <2>1, <2>2 DEF GoneNext
  <2>4. call' = [call EXCEPT ![c] = l] /\ records' = [records EXCEPT ![s] = now] /\ UNCHANGED diskVars
    BY <1>0, <1>3 DEF CheckRuns
  <2> HIDE DEF now
  <2>5. l \in Locals /\ GoneCallNext(l)
    BY <1>0, <2>2, <2>3 DEF Locals, Steps, GoneCallNext
  <2> HIDE DEF l
  <2> QED
    BY <1>2, <2>1, <2>3, <2>4, <2>5, GoneStep
<1>4. CASE SaveCheck(c)
  <2>1. [call[c] EXCEPT !.pc = "check"] \in Locals /\ GoneCallNext([call[c] EXCEPT !.pc = "check"])
    BY <1>0 DEF Locals, Steps, GoneCallNext
  <2> QED
    BY <1>4, <2>1, GoneSave, RecordTypes, NothingGone DEF SaveCheck
<1>5. CASE VerifyEnds(c)
  BY <1>5, GoneReturn DEF VerifyEnds
<1>6. CASE Stat(c)
  <2> DEFINE p == call[c].rec.place
             l == IF p \in Places /\ tree[p] \notin Present THEN Reported(call[c], FALSE)
                  ELSE [call[c] EXCEPT !.pc = IF p \in Paths THEN "discover" ELSE "scan"]
  <2>1. GoneCallNext(l)
    <3>1. GoneCallNext(Reported(call[c], FALSE))
      BY <1>0, GoneReported
    <3>2. \A where \in {"discover", "scan"} : GoneCallNext([call[c] EXCEPT !.pc = where])
      BY <1>0 DEF Locals, GoneCallNext
    <3> QED
      BY <3>1, <3>2
  <2>2. call' = [call EXCEPT ![c] = l] /\ UNCHANGED <<memVars, diskVars>>
    BY <1>0, <1>6 DEF Stat
  <2> HIDE DEF l
  <2>3. l \in Locals
    BY <1>0, <2>2 DEF TypeInv, TypeOK, Locals
  <2> QED
    BY <2>1, <2>2, <2>3, GoneStep
<1>7. CASE Discover(c)
  <2>1. PICK l : Looking(c, l) /\ Discovers(c, l)
    BY <1>7, DiscoverLooks
  <2>2. GoneCallNext(l)
    BY <1>0, <2>1 DEF Looking, Discovers, GoneNext, GoneCallNext
  <2> QED
    BY <2>1, <2>2, GoneStep DEF Looking, Discovers
<1>10. CASE RecordGit(c)
  <2>1. PICK l : Looking(c, l) /\ RecordsGit(c, l)
    BY <1>10, RecordGitLooks
  <2>2. /\ call[c].on \in Sessions /\ WithGit(records[call[c].on]) \in Record
        /\ GoneNext(WithGit(records[call[c].on]))
    BY <1>1, <1>10, RecordGitLooks, WithGitType DEF GoneNext
  <2>3. GoneCallNext(l)
    BY <1>0, <2>1, <2>2 DEF Looking, RecordsGit, GoneNext, GoneCallNext
  <2>4. \A s \in Sessions : GoneNext(records'[s]) /\ GoneNext(disk'[s])
    BY <1>1, <1>2, <2>1, <2>2 DEF RecordsGit
  <2> QED
    BY <2>1, <2>3, <2>4, GoneStep DEF Looking
<1>8. CASE SaveGit(c)
  <2>1. [call[c] EXCEPT !.pc = "scan"] \in Locals /\ GoneCallNext([call[c] EXCEPT !.pc = "scan"])
    BY <1>0 DEF Locals, Steps, GoneCallNext
  <2> QED
    BY <1>8, <2>1, GoneSave DEF SaveGit
<1>9. CASE Scan(c)
  <2> DEFINE p == call[c].rec.place
             l == IF p = Source \/ ~call[c].rec.git THEN Reported(call[c], FALSE)
                  ELSE IF tree[p] \notin Present \/ history[p] = "none" THEN NoCall
                  ELSE Reported(call[c], tree[p] = "work" \/ history[p] = "ahead")
  <2>1. GoneCallNext(l)
    BY <1>0, GoneReported, NothingGone
  <2>2. call' = [call EXCEPT ![c] = l] /\ UNCHANGED <<memVars, diskVars>>
    BY <1>0, <1>9 DEF Scan
  <2> HIDE DEF l
  <2>3. l \in Locals
    BY <1>0, <2>2 DEF TypeInv, TypeOK, Locals
  <2> QED
    BY <2>1, <2>2, <2>3, GoneStep
<1> QED
  BY <1>3, <1>4, <1>5, <1>6, <1>7, <1>8, <1>9, <1>10

LEMMA GoneTidying ==
  ASSUME TypeInv, GoneInv, [Next]_vars, NEW c \in Calls,
         \/ Decide(c) \/ RemoveTree(c) \/ RemoveBranch(c) \/ CheckEmpty(c) \/ RemoveAll(c)
         \/ MarkCleaned(c) \/ SaveMark(c)
  PROVE  GoneInv'
<1> USE DEF memVars, diskVars, fsVars, ghosts
<1> DEFINE p == call[c].rec.place
<1>0. /\ StoreType /\ call \in [Calls -> Locals] /\ call[c] \in Locals
      /\ GoneCall(call[c]) /\ GoneCallNext(call[c]) /\ CallOK(call[c])
  BY StoreTyped, LocalsOf, GoneLasts DEF TypeInv, CallsOK, GoneInv, TypeOK, Locals
\* To the steps that say what has been removed, after it has been.
<1>1. ASSUME NEW where \in Tidying, Goto(c, where), UNCHANGED <<memVars, diskVars>>,
             where = "removeBranch" => tree'[p] = "none",
             where = "mark" /\ p \in Slots => tree'[p] = "none" /\ history'[p] = "none"
      PROVE  GoneInv'
  <2> DEFINE l == [call[c] EXCEPT !.pc = where]
  <2>1. l \in Locals /\ l.pc = where /\ l.rec = call[c].rec /\ l.out = call[c].out
    BY <1>0 DEF Locals, Steps, Tidying
  <2>2. call' = [call EXCEPT ![c] = l]
    BY <1>0, <1>1 DEF Goto
  <2> HIDE DEF l
  <2>3. GoneCallNext(l)
    BY <1>0, <1>1, <2>1 DEF GoneCallNext
  <2> QED
    BY <1>1, <2>1, <2>2, <2>3, GoneStep
<1>2. CASE Decide(c)
  <2>1. p \in Places
    BY <1>0, <1>2 DEF Decide, CallOK, Tidying
  <2>2. \/ (Goto(c, "mark") /\ p \in Paths)
        \/ Return(c)
        \/ \E where \in {"removeTree", "removeAll", "empty"} : Goto(c, where)
    BY <1>0, <1>2, <2>1 DEF Decide, Goto, Return, Places
  <2> QED
    BY <1>1, <1>2, <2>2, GoneReturn, PlacesAssumption DEF Tidying, Decide
<1>3. CASE RemoveTree(c)
  <2>1. p \in Slots
    BY <1>0, <1>3 DEF RemoveTree, CallOK
  <2>2. (Goto(c, "removeBranch") /\ tree'[p] = "none") \/ Return(c)
    BY <1>0, <1>3, <2>1 DEF RemoveTree, Forgotten, StoreType, Places
  <2> QED
    BY <1>1, <1>3, <2>2, GoneReturn DEF Tidying, RemoveTree
<1>4. CASE RemoveBranch(c)
  <2>1. p \in Slots /\ tree[p] = "none"
    BY <1>0, <1>4 DEF RemoveBranch, CallOK, GoneCall
  <2>2. (Goto(c, "mark") /\ tree'[p] = "none" /\ history'[p] = "none") \/ Return(c)
    BY <1>0, <1>4, <2>1 DEF RemoveBranch, StoreType, Places
  <2> QED
    BY <1>1, <1>4, <2>2, GoneReturn DEF Tidying, RemoveBranch
<1>5. CASE CheckEmpty(c)
  <2>1. Goto(c, "removeAll") \/ Return(c)
    BY <1>5 DEF CheckEmpty
  <2> QED
    BY <1>1, <1>5, <2>1, GoneReturn DEF Tidying, CheckEmpty
<1>6. CASE RemoveAll(c)
  <2>1. p \in Paths
    BY <1>0, <1>6 DEF RemoveAll, CallOK
  <2>2. Goto(c, "mark") \/ Return(c)
    BY <1>6 DEF RemoveAll
  <2> QED
    BY <1>1, <1>6, <2>1, <2>2, GoneReturn, PlacesAssumption DEF Tidying, RemoveAll
<1>7. CASE MarkCleaned(c)
  <2> DEFINE rec == [call[c].rec EXCEPT !.cleaned = TRUE]
             l == [call[c] EXCEPT !.pc = "saveMark", !.out = rec]
  <2>1. call[c].pc = "mark" /\ rec.place = p /\ rec \in Record
    BY <1>0, <1>7 DEF MarkCleaned, Locals, Record
  <2>2. call' = [call EXCEPT ![c] = l] /\ records' = [records EXCEPT ![call[c].on] = rec]
    BY <1>0, <1>7 DEF MarkCleaned
  <2> HIDE DEF rec
  <2>3. GoneNext(rec)
    BY <1>0, <2>1 DEF GoneCallNext, GoneNext
  <2>4. l \in Locals /\ GoneCallNext(l)
    BY <1>0, <2>1, <2>3 DEF Locals, Steps, GoneCallNext
  <2> HIDE DEF l
  <2>5. \A s \in Sessions : GoneNext(records[s]) /\ GoneNext(disk[s])
    BY GoneLasts DEF GoneInv
  <2>6. \A s \in Sessions : GoneNext(records'[s]) /\ GoneNext(disk'[s])
    BY <1>0, <1>7, <2>2, <2>3, <2>5 DEF MarkCleaned, StoreType
  <2> QED
    BY <2>2, <2>4, <2>6, GoneStep
<1>8. CASE SaveMark(c)
  BY <1>8, GoneSave, RecordTypes, NothingGone DEF SaveMark
<1> QED
  BY <1>2, <1>3, <1>4, <1>5, <1>6, <1>7, <1>8

LEMMA GonePreserved == ASSUME TypeInv, TypeInv', GoneInv, [Next]_vars PROVE GoneInv'
<1> USE DEF memVars, diskVars, fsVars, ghosts
<1>0. /\ \A s \in Sessions : GoneNext(records[s]) /\ GoneNext(disk[s])
      /\ \A c \in Calls : GoneCallNext(call[c])
      /\ call \in [Calls -> Locals]
  BY GoneLasts, LocalsOf DEF GoneInv, TypeInv, CallsOK, TypeOK, Locals
<1>1. CASE UNCHANGED <<memVars, diskVars, call>>
  BY <1>0, <1>1 DEF GoneInv, GoneCall, GoneRec, GoneNext, GoneCallNext, OnDisk
<1>2. ASSUME NEW c \in Calls, NEW s \in Sessions, NEW at \in {"check", "stat"},
             NEW tidy \in BOOLEAN, NEW force \in BOOLEAN, Begin(c, s, at, tidy, force),
             UNCHANGED <<memVars, diskVars, fsVars, used, ran, ghosts, crashes>>
      PROVE  GoneInv'
  <2> DEFINE l == [NoCall EXCEPT !.pc = at, !.on = s, !.rec = records[s], !.tidy = tidy, !.force = force]
  <2>1. call' = [call EXCEPT ![c] = l]
    BY <1>2 DEF Begin
  <2>2. l.rec = records[s] /\ l.out = NoRecord /\ l.pc = at
    BY DEF NoCall
  <2> HIDE DEF l
  <2>3. GoneCallNext(l)
    BY <1>0, <2>2, NothingGone DEF GoneCallNext
  <2>4. call'[c] = l
    BY <1>0, <2>1
  <2>5. l \in Locals
    BY <2>4 DEF TypeInv, TypeOK, Locals
  <2> QED
    BY <1>2, <2>1, <2>3, <2>5, GoneStep
<1>3. CASE UNCHANGED vars
  BY <1>1, <1>3 DEF vars
<1>4. ASSUME NEW p \in Places, Outside(p) PROVE GoneInv'
  BY <1>1, <1>4 DEF Outside
<1>5. CASE Crash
  <2>1. \A s \in Sessions : GoneNext(records'[s]) /\ GoneNext(disk'[s])
    BY <1>0, <1>5 DEF Crash
  <2>2. \A c \in Calls : GoneCallNext(call'[c])
    BY <1>5, NothingGone DEF Crash
  <2> QED
    BY <2>1, <2>2 DEF GoneInv, GoneCall, GoneRec, GoneNext, GoneCallNext, OnDisk
<1>6. ASSUME NEW c \in Calls, NEW s \in Sessions,
             VerifyBegin(c, s) \/ InspectBegin(c, s) \/ \E force \in BOOLEAN : CleanupBegin(c, s, force)
      PROVE  GoneInv'
  BY <1>2, <1>6 DEF VerifyBegin, InspectBegin, CleanupBegin
<1>7. ASSUME NEW c \in Calls, Open(c) \/ AddInterrupted(c) \/ Step(c) PROVE GoneInv'
  BY <1>7, GoneOpening, GoneLooking, GoneTidying DEF Step
<1> QED
  BY <1>3, <1>4, <1>5, <1>6, <1>7 DEF Next

LEMMA FirstGone == Init => GoneInv
  BY PlacesAssumption DEF Init, GoneInv, GoneCall, GoneRec, NoCall, NoRecord

\* markCleaned comes last: neither in memory nor on disk is a worktree said to
\* be cleaned while its directory or its branch is there, crash or not.
THEOREM CleanedIsGone == Spec => []CleanedMeansGone
<1>1. Init => GoneInv
  BY FirstGone
<1>2. TypeInv /\ TypeInv' /\ GoneInv /\ [Next]_vars => GoneInv'
  BY GonePreserved
<1>3. GoneInv => CleanedMeansGone
  BY DEF GoneInv, GoneRec, CleanedMeansGone
<1> QED
  BY <1>1, <1>2, <1>3, TypeInvariant, PTL DEF Spec

-----------------------------------------------------------------------------
(* What a cleanup without force leaves alone                                *)

LEMMA WorkKeptStep ==
  ASSUME TypeInv, WorkInWorktreesKept, [Next]_vars
  PROVE  WorkInWorktreesKept'
<1> USE DEF WorkInWorktreesKept, ghosts
<1>1. ASSUME NEW c \in Calls, RemoveBranch(c) PROVE discarded' = discarded
  BY <1>1 DEF RemoveBranch, Forgotten, Deletable
<1>2. ASSUME NEW c \in Calls, RemoveAll(c) PROVE WorkInWorktreesKept'
  <2>1. call[c].rec.place \in Paths
    BY <1>2 DEF RemoveAll, CallOK, TypeInv, CallsOK
  <2> QED
    BY <1>2, <2>1, PlacesAssumption DEF RemoveAll, Forgotten
<1>3. ASSUME NEW c \in Calls,
             \/ Open(c) \/ AddInterrupted(c)
             \/ SessionOpened(c) \/ SessionRefused(c) \/ RollbackTree(c) \/ RollbackBranch(c)
             \/ Bind(c) \/ SaveNew(c) \/ CheckRuns(c) \/ SaveCheck(c) \/ VerifyEnds(c)
      PROVE  discarded' = discarded
  BY <1>3 DEF Open, OpenDirect, OpenWorktree, OpenGreenfield, AddInterrupted,
              SessionOpened, SessionRefused, RollbackTree, RollbackBranch, Bind, SaveNew,
              CheckRuns, SaveCheck, VerifyEnds, Save
<1>4. ASSUME NEW c \in Calls,
             \/ Stat(c) \/ Discover(c) \/ RecordGit(c) \/ SaveGit(c) \/ Scan(c) \/ Decide(c) \/ RemoveTree(c)
             \/ CheckEmpty(c) \/ MarkCleaned(c) \/ SaveMark(c)
      PROVE  discarded' = discarded
  BY <1>4 DEF Stat, Discover, RecordGit, SaveGit, Scan, Decide, RemoveTree, Forgotten, CheckEmpty, MarkCleaned,
              SaveMark, Save
<1>5. ASSUME NEW c \in Calls, NEW s \in Sessions,
             VerifyBegin(c, s) \/ InspectBegin(c, s) \/ \E force \in BOOLEAN : CleanupBegin(c, s, force)
      PROVE  discarded' = discarded
  BY <1>5 DEF VerifyBegin, InspectBegin, CleanupBegin
<1>6. ASSUME Crash \/ (\E p \in Places : Outside(p)) \/ UNCHANGED vars PROVE discarded' = discarded
  BY <1>6 DEF Crash, Outside, vars
<1> QED
  BY <1>1, <1>2, <1>3, <1>4, <1>5, <1>6 DEF Next, Step

\* README: cleanup "refuses to remove a worktree containing changes or commits
\* unless force=true is supplied": no work is lost, whatever comes between the
\* inspection and the removal.
THEOREM WorkKept == Spec => []WorkInWorktreesKept
<1>1. Init => WorkInWorktreesKept
  BY DEF Init, WorkInWorktreesKept
<1>2. TypeInv /\ WorkInWorktreesKept /\ [Next]_vars => WorkInWorktreesKept'
  BY WorkKeptStep
<1> QED
  BY <1>1, <1>2, TypeInvariant, PTL DEF Spec

-----------------------------------------------------------------------------
(* A session is bound once, so that no Open replaces a record               *)

Unbound == Anonymous \cup {"bind"}
OwnInv ==
    /\ known \subseteq used /\ saved \subseteq known
    /\ \A c \in Calls : /\ call[c].pc = "bind" => call[c].on \in used \ known
                        /\ call[c].pc \notin Unbound => call[c].on \in known
    /\ \A c, d \in Calls : call[c].pc = "bind" /\ call[d].pc = "bind" /\ call[c].on = call[d].on => c = d

\* A step that binds nothing.
LEMMA OwnStep ==
  ASSUME TypeInv, OwnInv, NEW c \in Calls, NEW l,
         call' = [call EXCEPT ![c] = l], UNCHANGED known, used \subseteq used',
         saved' \subseteq saved \cup (IF call[c].pc \in Unbound THEN {} ELSE {call[c].on}),
         \/ l.pc \in Anonymous
         \/ l.pc \notin Unbound /\ l.on \in known
  PROVE  OwnInv'
<1>0. call \in [Calls -> Locals]
  BY DEF TypeInv, TypeOK, Locals
<1>1. \A d \in Calls : call'[d] = IF d = c THEN l ELSE call[d]
  BY <1>0
<1> QED
  BY <1>1 DEF OwnInv, Unbound, Anonymous

LEMMA OwnGoto ==
  ASSUME TypeInv, OwnInv, NEW c \in Calls, NEW where \in Steps,
         Goto(c, where), UNCHANGED <<known, saved>>, used \subseteq used',
         where \in Anonymous \/ (where \notin Unbound /\ call[c].pc \notin Unbound)
  PROVE  OwnInv'
<1>0. call \in [Calls -> Locals] /\ call[c] \in Locals
  BY LocalsOf DEF TypeInv, TypeOK, Locals
<1> DEFINE l == [call[c] EXCEPT !.pc = where]
<1>1. call' = [call EXCEPT ![c] = l] /\ l.pc = where /\ l.on = call[c].on
  BY <1>0 DEF Goto, Locals
<1> HIDE DEF l
<1>2. call[c].pc \notin Unbound => call[c].on \in known
  BY DEF OwnInv
<1> QED
  BY <1>1, <1>2, OwnStep

LEMMA OwnReturn ==
  ASSUME TypeInv, OwnInv, NEW c \in Calls,
         Return(c), UNCHANGED <<known, saved>>, used \subseteq used'
  PROVE  OwnInv'
<1>1. NoCall.pc \in Anonymous
  BY DEF NoCall, Anonymous
<1> QED
  BY <1>1, OwnStep DEF Return

LEMMA OwnSave ==
  ASSUME TypeInv, OwnInv, NEW c \in Calls, NEW at \in Steps \ Unbound, NEW l, NEW m, Save(c, at, l, m),
         l.pc \in Anonymous \/ (l.pc \notin Unbound /\ l.on = call[c].on),
         m.pc \in Anonymous \/ (m.pc \notin Unbound /\ m.on = call[c].on)
  PROVE  OwnInv'
<1>1. call[c].pc \notin Unbound /\ call[c].on \in known
  BY DEF Save, OwnInv
<1>2. /\ saved' \subseteq saved \cup {call[c].on} /\ UNCHANGED <<known, used>>
      /\ call' = [call EXCEPT ![c] = l] \/ call' = [call EXCEPT ![c] = m]
  BY DEF Save, memVars, diskVars
<1> QED
  BY <1>1, <1>2, OwnStep

LEMMA OwnOpening ==
  ASSUME TypeInv, OwnInv, NEW c \in Calls,
         \/ Open(c) \/ AddInterrupted(c)
         \/ SessionOpened(c) \/ SessionRefused(c) \/ RollbackTree(c) \/ RollbackBranch(c)
         \/ Bind(c) \/ SaveNew(c)
  PROVE  OwnInv'
<1> USE DEF memVars, diskVars, fsVars, ghosts
<1>0. call \in [Calls -> Locals] /\ call[c] \in Locals
  BY LocalsOf DEF TypeInv, TypeOK, Locals
<1>1. CASE Open(c)
  <2>1. ASSUME NEW place, NEW git, OpensIn(c, place, git), UNCHANGED <<known, saved>>, used \subseteq used'
        PROVE  OwnInv'
    <3> DEFINE l == [NoCall EXCEPT !.pc = "opening",
                                   !.rec = [NoRecord EXCEPT !.place = place, !.git = git]]
    <3>1. call' = [call EXCEPT ![c] = l] /\ l.pc \in Anonymous
      BY <2>1 DEF OpensIn, NoCall, Anonymous
    <3> HIDE DEF l
    <3> QED
      BY <2>1, <3>1, OwnStep
  <2> QED
    BY <1>1, <2>1 DEF Open, OpenDirect, OpenWorktree, OpenGreenfield
<1>2. CASE AddInterrupted(c)
  BY <1>2 DEF AddInterrupted, OwnInv
<1>3. CASE SessionOpened(c)
  <2>1. PICK s \in Sessions \ used : /\ used' = used \cup {s}
                                     /\ call' = [call EXCEPT ![c].pc = "bind", ![c].on = s]
    BY <1>3 DEF SessionOpened
  <2>2. /\ \A d \in Calls : d # c => call'[d] = call[d]
        /\ call'[c].pc = "bind" /\ call'[c].on = s
    BY <1>0, <2>1 DEF Locals
  <2>3. UNCHANGED <<known, saved>> /\ used' = used \cup {s} /\ s \notin used
    BY <1>3, <2>1 DEF SessionOpened
  <2>4. known' \subseteq used' /\ saved' \subseteq known'
    BY <2>2, <2>3 DEF OwnInv
  <2>5. ASSUME NEW d \in Calls
        PROVE  /\ call'[d].pc = "bind" => call'[d].on \in used' \ known'
               /\ call'[d].pc \notin Unbound => call'[d].on \in known'
    <3>1. CASE d = c
      BY <3>1, <2>2, <2>3 DEF OwnInv, Unbound, Anonymous
    <3>2. CASE d # c
      BY <3>2, <2>2, <2>3 DEF OwnInv
    <3> QED
      BY <3>1, <3>2
  <2>6. ASSUME NEW d \in Calls, NEW e \in Calls, call'[d].pc = "bind", call'[e].pc = "bind",
               call'[d].on = call'[e].on
        PROVE  d = e
    BY <2>6, <2>2, <2>3 DEF OwnInv
  <2> QED
    BY <2>4, <2>5, <2>6 DEF OwnInv
<1>4. CASE SessionRefused(c)
  BY <1>4, OwnReturn, OwnGoto DEF SessionRefused, Anonymous, Steps
<1>5. CASE RollbackTree(c)
  <2>1. (Goto(c, "undoBranch") \/ Return(c)) /\ UNCHANGED <<known, saved, used>>
    BY <1>5 DEF RollbackTree
  <2> QED
    BY <2>1, OwnReturn, OwnGoto DEF Anonymous, Steps
<1>6. CASE RollbackBranch(c)
  <2>1. Return(c) /\ UNCHANGED <<known, saved, used>>
    BY <1>6 DEF RollbackBranch
  <2> QED
    BY <2>1, OwnReturn
<1>7. CASE Bind(c)
  <2> DEFINE s == call[c].on
  <2>1. /\ known' = known \cup {s} /\ UNCHANGED <<saved, used>> /\ call[c].pc = "bind"
        /\ call' = [call EXCEPT ![c].pc = "saveNew", ![c].out = call[c].rec]
    BY <1>7 DEF Bind
  <2>2. /\ \A d \in Calls : d # c => call'[d] = call[d]
        /\ call'[c].pc = "saveNew" /\ call'[c].on = s
        /\ known' = known \cup {s} /\ UNCHANGED <<saved, used>>
    BY <1>0, <2>1 DEF Locals
  <2>3. s \in used \ known
    BY <2>1 DEF OwnInv
  <2>4. \A d \in Calls \ {c} : call[d].pc = "bind" => call[d].on # s
    BY <2>1 DEF OwnInv
  <2>5. known' \subseteq used' /\ saved' \subseteq known'
    BY <2>2, <2>3, <2>4 DEF OwnInv
  <2>6. ASSUME NEW d \in Calls
        PROVE  /\ call'[d].pc = "bind" => call'[d].on \in used' \ known'
               /\ call'[d].pc \notin Unbound => call'[d].on \in known'
    <3>1. CASE d = c
      BY <3>1, <2>2, <2>3, <2>4 DEF OwnInv, Unbound, Anonymous
    <3>2. CASE d # c
      BY <3>2, <2>2, <2>3, <2>4 DEF OwnInv
    <3> QED
      BY <3>1, <3>2
  <2>7. ASSUME NEW d \in Calls, NEW e \in Calls, call'[d].pc = "bind", call'[e].pc = "bind",
               call'[d].on = call'[e].on
        PROVE  d = e
    BY <2>7, <2>2, <2>3, <2>4 DEF OwnInv
  <2> QED
    BY <2>5, <2>6, <2>7 DEF OwnInv
<1>8. CASE SaveNew(c)
  BY <1>8, OwnSave DEF SaveNew, NoCall, Unbound, Anonymous, Steps
<1> QED
  BY <1>1, <1>2, <1>3, <1>4, <1>5, <1>6, <1>7, <1>8

LEMMA OwnLater ==
  ASSUME TypeInv, OwnInv, NEW c \in Calls,
         \/ CheckRuns(c) \/ SaveCheck(c) \/ VerifyEnds(c)
         \/ Stat(c) \/ Discover(c) \/ RecordGit(c) \/ SaveGit(c) \/ Scan(c)
         \/ Decide(c) \/ RemoveTree(c) \/ RemoveBranch(c) \/ CheckEmpty(c) \/ RemoveAll(c)
         \/ MarkCleaned(c) \/ SaveMark(c)
  PROVE  OwnInv'
<1> USE DEF memVars, diskVars, fsVars, ghosts
<1>0. call \in [Calls -> Locals] /\ call[c] \in Locals /\ (call[c].pc \notin Unbound => call[c].on \in known)
  BY LocalsOf DEF TypeInv, TypeOK, Locals, OwnInv
\* Most of them keep the session and go to another step past the first ones.
<1>1. ASSUME NEW l, call' = [call EXCEPT ![c] = l], UNCHANGED <<known, saved, used>>,
             l.pc \in Anonymous \/ (l.pc \notin Unbound /\ l.on = call[c].on), call[c].pc \notin Unbound
      PROVE  OwnInv'
  BY <1>0, <1>1, OwnStep
<1>2. NoCall.pc \in Anonymous /\ \A changes :
        Reported(call[c], changes).pc \in Anonymous
        \/ (Reported(call[c], changes).pc \notin Unbound /\ Reported(call[c], changes).on = call[c].on)
  BY <1>0 DEF NoCall, Anonymous, Reported, Unbound, Locals
<1>3. CASE CheckRuns(c)
  <2> DEFINE l == [call[c] EXCEPT !.pc = "saveCheck",
                                  !.out = Recorded(records[call[c].on], call[c].rec, ran[call[c].on] + 1)]
  <2>1. call' = [call EXCEPT ![c] = l] /\ UNCHANGED <<known, saved, used>> /\ call[c].pc = "check"
    BY <1>0, <1>3 DEF CheckRuns
  <2>2. l.pc = "saveCheck" /\ l.on = call[c].on
    BY <1>0 DEF Locals
  <2> HIDE DEF l
  <2> QED
    BY <1>1, <2>1, <2>2 DEF Unbound, Anonymous
<1>4. CASE SaveCheck(c)
  <2>1. [call[c] EXCEPT !.pc = "check"].pc = "check" /\ [call[c] EXCEPT !.pc = "check"].on = call[c].on
    BY <1>0 DEF Locals
  <2> QED
    BY <1>2, <1>4, <2>1, OwnSave DEF SaveCheck, Unbound, Anonymous, Steps
<1>5. CASE VerifyEnds(c)
  BY <1>5, OwnReturn DEF VerifyEnds
<1>6. CASE Stat(c)
  <2> DEFINE p == call[c].rec.place
             l == IF p \in Places /\ tree[p] \notin Present THEN Reported(call[c], FALSE)
                  ELSE [call[c] EXCEPT !.pc = IF p \in Paths THEN "discover" ELSE "scan"]
  <2>1. call' = [call EXCEPT ![c] = l] /\ UNCHANGED <<known, saved, used>> /\ call[c].pc = "stat"
    BY <1>0, <1>6 DEF Stat
  <2>2. l.pc \in Anonymous \/ (l.pc \notin Unbound /\ l.on = call[c].on)
    <3>1. \A where \in {"discover", "scan"} : LET m == [call[c] EXCEPT !.pc = where]
                                           IN  m.pc = where /\ m.on = call[c].on
      BY <1>0 DEF Locals
    <3> QED
      BY <1>2, <3>1 DEF Unbound, Anonymous
  <2> HIDE DEF l
  <2> QED
    BY <1>1, <2>1, <2>2 DEF Unbound, Anonymous
<1>7. CASE Discover(c)
  <2>1. PICK l : Looking(c, l) /\ Discovers(c, l)
    BY <1>7, DiscoverLooks
  <2> QED
    BY <1>1, <2>1 DEF Looking, Discovers, Unbound, Anonymous
<1>15. CASE RecordGit(c)
  <2>1. PICK l : Looking(c, l) /\ RecordsGit(c, l)
    BY <1>15, RecordGitLooks
  <2> QED
    BY <1>1, <2>1 DEF Looking, RecordsGit, Unbound, Anonymous
<1>8. CASE SaveGit(c)
  <2>1. [call[c] EXCEPT !.pc = "scan"].pc = "scan" /\ [call[c] EXCEPT !.pc = "scan"].on = call[c].on
    BY <1>0 DEF Locals
  <2> QED
    BY <1>8, <2>1, OwnSave DEF SaveGit, Unbound, Anonymous, Steps
<1>9. CASE Scan(c)
  <2> DEFINE p == call[c].rec.place
             l == IF p = Source \/ ~call[c].rec.git THEN Reported(call[c], FALSE)
                  ELSE IF tree[p] \notin Present \/ history[p] = "none" THEN NoCall
                  ELSE Reported(call[c], tree[p] = "work" \/ history[p] = "ahead")
  <2>1. call' = [call EXCEPT ![c] = l] /\ UNCHANGED <<known, saved, used>> /\ call[c].pc = "scan"
    BY <1>0, <1>9 DEF Scan
  <2>2. l.pc \in Anonymous \/ (l.pc \notin Unbound /\ l.on = call[c].on)
    BY <1>2
  <2> HIDE DEF l
  <2> QED
    BY <1>1, <2>1, <2>2 DEF Unbound, Anonymous
<1>10. ASSUME NEW where \in Tidying, Goto(c, where), UNCHANGED <<known, saved, used>>, call[c].pc \in Tidying
       PROVE  OwnInv'
  BY <1>10, OwnGoto DEF Tidying, Unbound, Anonymous, Steps
<1>11. CASE Decide(c)
  <2>1. \/ Return(c)
        \/ \E where \in Tidying : Goto(c, where)
    BY <1>0, <1>11 DEF Decide, Goto, Return, Tidying
  <2> QED
    BY <1>10, <1>11, <2>1, OwnReturn DEF Decide, Tidying
<1>12. CASE RemoveTree(c) \/ RemoveBranch(c) \/ CheckEmpty(c) \/ RemoveAll(c)
  <2>1. /\ call[c].pc \in Tidying /\ UNCHANGED <<known, saved, used>>
        /\ Return(c) \/ \E where \in Tidying : Goto(c, where)
    BY <1>12 DEF RemoveTree, RemoveBranch, CheckEmpty, RemoveAll, Tidying
  <2> QED
    BY <1>10, <2>1, OwnReturn
<1>13. CASE MarkCleaned(c)
  <2> DEFINE l == [call[c] EXCEPT !.pc = "saveMark", !.out = [call[c].rec EXCEPT !.cleaned = TRUE]]
  <2>1. call' = [call EXCEPT ![c] = l] /\ UNCHANGED <<known, saved, used>> /\ call[c].pc = "mark"
    BY <1>0, <1>13 DEF MarkCleaned
  <2>2. l.pc = "saveMark" /\ l.on = call[c].on
    BY <1>0 DEF Locals
  <2> HIDE DEF l
  <2> QED
    BY <1>1, <2>1, <2>2 DEF Unbound, Anonymous
<1>14. CASE SaveMark(c)
  BY <1>2, <1>14, OwnSave DEF SaveMark, Unbound, Anonymous, Steps
<1> QED
  BY <1>3, <1>4, <1>5, <1>6, <1>7, <1>8, <1>9, <1>11, <1>12, <1>13, <1>14, <1>15

LEMMA OwnPreserved == ASSUME TypeInv, OwnInv, [Next]_vars PROVE OwnInv'
<1> USE DEF memVars, diskVars, fsVars, ghosts
<1>1. ASSUME NEW c \in Calls, NEW s \in Sessions, NEW at \in {"check", "stat"},
             NEW tidy, NEW force, Begin(c, s, at, tidy, force), UNCHANGED <<known, saved, used>>
      PROVE  OwnInv'
  <2> DEFINE l == [NoCall EXCEPT !.pc = at, !.on = s, !.rec = records[s], !.tidy = tidy, !.force = force]
  <2>1. call' = [call EXCEPT ![c] = l] /\ s \in known
    BY <1>1 DEF Begin
  <2>2. l.pc = at /\ l.on = s
    BY DEF NoCall
  <2> HIDE DEF l
  <2> QED
    BY <1>1, <2>1, <2>2, OwnStep DEF Unbound, Anonymous
<1>2. ASSUME NEW c \in Calls, NEW s \in Sessions,
             VerifyBegin(c, s) \/ InspectBegin(c, s) \/ \E force \in BOOLEAN : CleanupBegin(c, s, force)
      PROVE  OwnInv'
  BY <1>1, <1>2 DEF VerifyBegin, InspectBegin, CleanupBegin
<1>3. CASE (\E p \in Places : Outside(p)) \/ UNCHANGED vars
  BY <1>3 DEF Outside, vars, OwnInv
<1>4. CASE Crash
  <2>1. \A c \in Calls : call'[c] = NoCall
    BY <1>4 DEF Crash
  <2>2. known' = saved /\ UNCHANGED <<saved, used>>
    BY <1>4 DEF Crash
  <2> QED
    BY <2>1, <2>2 DEF OwnInv, NoCall, Unbound, Anonymous
<1> QED
  BY <1>2, <1>3, <1>4, OwnOpening, OwnLater DEF Next, Step

LEMMA CleanedStaysStep ==
  ASSUME TypeInv, OwnInv, [Next]_vars, crashes' = crashes, NEW s \in known, records[s].cleaned
  PROVE  records'[s].cleaned
<1> USE DEF memVars, diskVars, fsVars, ghosts
<1>0. /\ StoreType /\ call \in [Calls -> Locals] /\ s \in Sessions
      /\ \A t \in Sessions : records[t] \in Record
  BY StoreTyped DEF TypeInv, TypeOK, Locals, StoreType
<1>1. CASE UNCHANGED records
  BY <1>1
<1>2. ASSUME NEW c \in Calls, Bind(c) PROVE records'[s] = records[s]
  BY <1>0, <1>2 DEF Bind, OwnInv, StoreType
<1>3. ASSUME NEW c \in Calls, CheckRuns(c) PROVE records'[s].cleaned
  <2> DEFINE t == call[c].on
             now == Recorded(records[t], call[c].rec, ran[t] + 1)
  <2>1. t \in Sessions
    BY <1>3 DEF CheckRuns, TypeInv, CallsOK, CallOK, Anonymous
  <2>2. now.cleaned = records[t].cleaned
    BY <1>0, <2>1, RecordedType DEF StoreType
  <2>3. records' = [records EXCEPT ![t] = now]
    BY <1>3 DEF CheckRuns
  <2> HIDE DEF now
  <2> QED
    BY <1>0, <2>1, <2>2, <2>3 DEF StoreType
<1>4. ASSUME NEW c \in Calls, RecordGit(c) PROVE records'[s].cleaned
  BY <1>0, <1>4 DEF RecordGit, StoreType, Record
<1>5. ASSUME NEW c \in Calls, MarkCleaned(c) PROVE records'[s].cleaned
  <2>1. call[c].rec \in Record
    BY <1>0 DEF Locals
  <2> QED
    BY <1>0, <1>5, <2>1 DEF MarkCleaned, StoreType, Record
<1>6. ASSUME NEW c \in Calls,
             \/ Open(c) \/ AddInterrupted(c)
             \/ SessionOpened(c) \/ SessionRefused(c) \/ RollbackTree(c) \/ RollbackBranch(c)
             \/ SaveNew(c) \/ SaveCheck(c) \/ VerifyEnds(c)
      PROVE  UNCHANGED records
  BY <1>6 DEF Open, OpenDirect, OpenWorktree, OpenGreenfield, AddInterrupted,
              SessionOpened, SessionRefused, RollbackTree, RollbackBranch, SaveNew,
              SaveCheck, VerifyEnds, Save
<1>7. ASSUME NEW c \in Calls,
             \/ Stat(c) \/ Discover(c) \/ SaveGit(c) \/ Scan(c) \/ Decide(c) \/ RemoveTree(c)
             \/ RemoveBranch(c) \/ CheckEmpty(c) \/ RemoveAll(c) \/ SaveMark(c)
      PROVE  UNCHANGED records
  BY <1>7 DEF Stat, Discover, SaveGit, Scan, Decide, RemoveTree, RemoveBranch, CheckEmpty, RemoveAll,
              SaveMark, Save
<1>8. ASSUME NEW c \in Calls, NEW t \in Sessions,
             VerifyBegin(c, t) \/ InspectBegin(c, t) \/ \E force \in BOOLEAN : CleanupBegin(c, t, force)
      PROVE  UNCHANGED records
  BY <1>8 DEF VerifyBegin, InspectBegin, CleanupBegin
<1>9. ASSUME (\E p \in Places : Outside(p)) \/ UNCHANGED vars PROVE UNCHANGED records
  BY <1>9 DEF Outside, vars
<1>10. ~Crash
  BY DEF Crash, TypeInv, TypeOK
<1> QED
  BY <1>1, <1>2, <1>3, <1>4, <1>5, <1>6, <1>7, <1>8, <1>9, <1>10 DEF Next, Step

\* While the process lives, a cleaned workspace stays cleaned.
THEOREM CleanedForGood == Spec => CleanedStays
<1>1. Init => OwnInv
  BY DEF Init, OwnInv, NoCall, Unbound, Anonymous
<1>2. TypeInv /\ OwnInv /\ [Next]_vars => OwnInv'
  BY OwnPreserved
<1>3. TypeInv /\ OwnInv /\ [Next]_vars =>
        [crashes' = crashes => \A s \in known : records[s].cleaned => records'[s].cleaned]_vars
  BY CleanedStaysStep
<1> QED
  BY <1>1, <1>2, <1>3, TypeInvariant, PTL DEF Spec, CleanedStays

-----------------------------------------------------------------------------
(* The verification history: a run of consecutive results                   *)

\* The record, unless cleaned, holds the latest results up to number r.
RunTo(rec, r) == ~rec.cleaned =>
    LET n == Len(rec.checks) IN
    /\ n <= MaxHistory
    /\ n < MaxHistory => n = r
    /\ \A i \in 1 .. n : rec.checks[i] = r - n + i
IsRun(rec) == \E r \in Nat : RunTo(rec, r)

Fresh(rec) == rec.checks = <<>> /\ ~rec.cleaned
HistoryInv ==
    /\ \A s \in Sessions :
          /\ RunTo(records[s], ran[s]) /\ IsRun(disk[s])
          /\ s \notin known => Fresh(records[s])
          /\ s \notin saved => Fresh(disk[s])
    /\ \A c \in Calls :
          /\ IsRun(call[c].out)
          /\ call[c].pc \in {"opening", "bind"} => Fresh(call[c].rec)

LEMMA FreshRun == ASSUME NEW rec, Fresh(rec) PROVE RunTo(rec, 0) /\ IsRun(rec)
<1>1. Len(<<>>) = 0
  OBVIOUS
<1>2. RunTo(rec, 0)
  BY <1>1, WorkspaceBounds DEF Fresh, RunTo
<1> QED
  BY <1>2 DEF IsRun

LEMMA FreshNoRecord == Fresh(NoRecord)
  BY DEF Fresh, NoRecord

LEMMA IsRunTo ==
  ASSUME NEW rec, NEW m \in Nat, NEW r \in Nat, Len(rec.checks) = m,
         m <= MaxHistory, m < MaxHistory => m = r,
         \A i \in 1 .. m : rec.checks[i] = r - m + i
  PROVE  RunTo(rec, r)
  BY DEF RunTo

\* Recorded carries the run on by one result.
LEMMA RecordedRun ==
  ASSUME NEW now \in Record, NEW copy, NEW r \in Nat, RunTo(now, r)
  PROVE  RunTo(Recorded(now, copy, r + 1), r + 1)
<1> DEFINE new == Recorded(now, copy, r + 1)
           all == Append(now.checks, r + 1)
           n == Len(now.checks)
           from == IF Len(all) > MaxHistory THEN Len(all) - MaxHistory + 1 ELSE 1
<1>0. ASSUME now.cleaned PROVE RunTo(new, r + 1)
  <2>1. new.cleaned
    BY <1>0, RecordedType
  <2> HIDE DEF new
  <2> QED
    BY <2>1 DEF RunTo
<1>1. ASSUME ~now.cleaned PROVE RunTo(new, r + 1)
  <2>2. /\ now.checks \in Seq(Nat) /\ n \in Nat /\ all \in Seq(Nat) /\ Len(all) = n + 1
        /\ \A i \in 1 .. n : all[i] = now.checks[i]
        /\ all[n + 1] = r + 1
    BY DEF Record
  <2>3. /\ n <= MaxHistory /\ (n < MaxHistory => n = r)
        /\ \A i \in 1 .. n : now.checks[i] = r - n + i
    BY <1>1 DEF RunTo
  <2>4. new.checks = SubSeq(all, from, n + 1) /\ new.cleaned = now.cleaned
    <3>1. new = [now EXCEPT !.checks = SubSeq(all, from, Len(all))]
      BY DEF Recorded
    <3> QED
      BY <2>2, <3>1 DEF Record
  <2> HIDE DEF new, all, n
  <2>5. /\ MaxHistory \in Nat \ {0}
        /\ n = MaxHistory => from = 2
        /\ n < MaxHistory => from = 1
    BY <2>2, <2>3, WorkspaceBounds
  <2>6. \A i \in 1 .. n + 1 : all[i] = r - n + i
    BY <2>2, <2>3
  <2>7. ASSUME n = MaxHistory PROVE RunTo(new, r + 1)
    <3>1. from = 2
      BY <2>5, <2>7
    <3>2. Len(new.checks) = n /\ \A i \in 1 .. n : new.checks[i] = all[i + 1]
      BY <2>2, <2>4, <3>1, SubSeqProperties
    <3>3. \A i \in 1 .. n : new.checks[i] = (r + 1) - n + i
      BY <2>2, <2>6, <3>2
    <3>4. n \in Nat /\ r + 1 \in Nat /\ n <= MaxHistory /\ ~(n < MaxHistory)
      BY <2>2, <2>5, <2>7
    <3> QED
      BY <3>2, <3>3, <3>4, IsRunTo
  <2>8. ASSUME n < MaxHistory PROVE RunTo(new, r + 1)
    <3>1. from = 1 /\ n = r
      BY <2>3, <2>5, <2>8
    <3>2. Len(new.checks) = n + 1 /\ \A i \in 1 .. n + 1 : new.checks[i] = all[i]
      BY <2>2, <2>4, <3>1, SubSeqProperties
    <3>3. \A i \in 1 .. n + 1 : new.checks[i] = (r + 1) - (n + 1) + i
      <4>1. \A i \in 1 .. n + 1 : new.checks[i] = r - n + i
        BY <2>6, <3>2
      <4>2. \A i \in Int : (r + 1) - (n + 1) + i = r - n + i
        BY <2>2
      <4> TAKE i \in 1 .. n + 1
      <4>3. i \in Int
        BY <2>2
      <4>4. (r + 1) - (n + 1) + i = r - n + i
        BY <4>2, <4>3
      <4> QED
        BY <4>1, <4>4
    <3>4. n + 1 \in Nat /\ r + 1 \in Nat /\ n + 1 <= MaxHistory /\ n + 1 = r + 1
      BY <2>2, <2>5, <2>8, <3>1
    <3> QED
      BY <3>2, <3>3, <3>4, IsRunTo
  <2> QED
    BY <2>2, <2>3, <2>5, <2>7, <2>8
<1> QED
  BY <1>0, <1>1

\* After a restart results are numbered on from the last one of the record.
LEMMA LastOfRun ==
  ASSUME NEW rec \in Record, IsRun(rec)
  PROVE  RunTo(rec, IF rec.checks = <<>> THEN 0 ELSE rec.checks[Len(rec.checks)])
<1>1. PICK r \in Nat : RunTo(rec, r)
  BY DEF IsRun
<1>2. rec.checks \in Seq(Nat) /\ Len(rec.checks) \in Nat
  BY DEF Record
<1>3. CASE rec.cleaned
  BY <1>3 DEF RunTo
<1>4. CASE ~rec.cleaned /\ rec.checks = <<>>
  BY <1>4, FreshRun DEF Fresh
<1>5. CASE ~rec.cleaned /\ rec.checks # <<>>
  <2>1. Len(rec.checks) \in 1 .. Len(rec.checks)
    BY <1>2, <1>5
  <2>2. \A i \in 1 .. Len(rec.checks) : rec.checks[i] = r - Len(rec.checks) + i
    BY <1>1, <1>5 DEF RunTo
  <2>3. rec.checks[Len(rec.checks)] = r - Len(rec.checks) + Len(rec.checks)
    BY <2>1, <2>2
  <2>4. rec.checks[Len(rec.checks)] = r
    BY <1>2, <2>3
  <2> QED
    BY <1>1, <1>5, <2>4
<1> QED
  BY <1>3, <1>4, <1>5

\* A step that touches no record.
LEMMA HistoryStep ==
  ASSUME TypeInv, HistoryInv, NEW c \in Calls, NEW l, call' = [call EXCEPT ![c] = l],
         IsRun(l.out), l.pc \in {"opening", "bind"} => Fresh(l.rec),
         UNCHANGED <<memVars, diskVars, ran>>
  PROVE  HistoryInv'
<1>1. call \in [Calls -> Locals]
  BY DEF TypeInv, TypeOK, Locals
<1>2. \A d \in Calls : call'[d] = IF d = c THEN l ELSE call[d]
  BY <1>1
<1> QED
  BY <1>2 DEF HistoryInv, memVars, diskVars

LEMMA HistoryGoto ==
  ASSUME TypeInv, HistoryInv, NEW c \in Calls, NEW where \in Steps \ {"opening", "bind"}, Goto(c, where),
         UNCHANGED <<memVars, diskVars, ran>>
  PROVE  HistoryInv'
<1> DEFINE l == [call[c] EXCEPT !.pc = where]
<1>1. call[c] \in Locals /\ IsRun(call[c].out)
  BY LocalsOf DEF TypeInv, HistoryInv
<1>2. l.pc = where /\ l.out = call[c].out
  BY <1>1 DEF Locals
<1>3. call' = [call EXCEPT ![c] = l]
  BY DEF Goto, TypeInv, TypeOK
<1> HIDE DEF l
<1> QED
  BY <1>1, <1>2, <1>3, HistoryStep

LEMMA NoCallRun == IsRun(NoCall.out) /\ NoCall.pc \notin {"opening", "bind"}
  BY FreshNoRecord, FreshRun DEF NoCall

LEMMA HistoryReturn ==
  ASSUME TypeInv, HistoryInv, NEW c \in Calls, Return(c), UNCHANGED <<memVars, diskVars, ran>>
  PROVE  HistoryInv'
  BY NoCallRun, HistoryStep DEF Return

LEMMA HistorySave ==
  ASSUME TypeInv, HistoryInv, NEW c \in Calls, NEW at, NEW l, NEW m, Save(c, at, l, m),
         IsRun(l.out) /\ l.pc \notin {"opening", "bind"},
         IsRun(m.out) /\ m.pc \notin {"opening", "bind"}
  PROVE  HistoryInv'
<1>0. /\ call \in [Calls -> Locals] /\ disk \in [Sessions -> Record]
      /\ IsRun(call[c].out)
  BY DEF TypeInv, TypeOK, Locals, HistoryInv
<1>1. PICK k \in {l, m} : call' = [call EXCEPT ![c] = k]
  BY DEF Save
<1>2. IsRun(k.out) /\ k.pc \notin {"opening", "bind"}
  OBVIOUS
<1>3. \A d \in Calls : call'[d] = IF d = c THEN k ELSE call[d]
  BY <1>0, <1>1
<1>4. \/ /\ saved' = saved \cup {call[c].on}
         /\ disk' = [disk EXCEPT ![call[c].on] = call[c].out]
      \/ UNCHANGED <<saved, disk>>
  BY DEF Save, diskVars
<1>5. \A s \in Sessions : IsRun(disk'[s]) /\ (s \notin saved' => Fresh(disk'[s]))
  BY <1>0, <1>4 DEF HistoryInv
<1>6. UNCHANGED <<known, records, ran>>
  BY DEF Save, memVars
<1> QED
  BY <1>2, <1>3, <1>5, <1>6 DEF HistoryInv

\* A step that writes one record.
LEMMA HistoryWrite ==
  ASSUME TypeInv, HistoryInv, NEW c \in Calls, NEW l, NEW s \in Sessions, NEW now,
         call' = [call EXCEPT ![c] = l], records' = [records EXCEPT ![s] = now],
         IsRun(l.out), l.pc \notin {"opening", "bind"},
         ran' \in [Sessions -> Nat], RunTo(now, ran'[s]),
         \A t \in Sessions \ {s} : ran'[t] = ran[t],
         known' = known \cup {s}, UNCHANGED diskVars
  PROVE  HistoryInv'
<1>1. call \in [Calls -> Locals] /\ records \in [Sessions -> Record]
  BY DEF TypeInv, TypeOK, Locals
<1>2. \A d \in Calls : call'[d] = IF d = c THEN l ELSE call[d]
  BY <1>1
<1>3. ASSUME NEW t \in Sessions
      PROVE  RunTo(records'[t], ran'[t]) /\ (t \notin known' => Fresh(records'[t]))
  <2>1. CASE t = s
    BY <1>1, <2>1
  <2>2. CASE t # s
    BY <1>1, <2>2 DEF HistoryInv
  <2> QED
    BY <2>1, <2>2
<1>4. UNCHANGED <<saved, disk>>
  BY DEF diskVars
<1>5. \A d \in Calls : /\ IsRun(call'[d].out)
                       /\ call'[d].pc \in {"opening", "bind"} => Fresh(call'[d].rec)
  BY <1>2 DEF HistoryInv
<1> QED
  BY <1>3, <1>4, <1>5 DEF HistoryInv

LEMMA HistoryOpening ==
  ASSUME TypeInv, OwnInv, HistoryInv, NEW c \in Calls,
         \/ Open(c) \/ AddInterrupted(c)
         \/ SessionOpened(c) \/ SessionRefused(c) \/ RollbackTree(c) \/ RollbackBranch(c)
         \/ Bind(c) \/ SaveNew(c)
  PROVE  HistoryInv'
<1> USE DEF fsVars, ghosts
<1>0. /\ StoreType /\ call \in [Calls -> Locals] /\ call[c] \in Locals
      /\ IsRun(call[c].out) /\ (call[c].pc \in {"opening", "bind"} => Fresh(call[c].rec))
  BY StoreTyped, LocalsOf DEF TypeInv, TypeOK, Locals, HistoryInv
<1>1. ASSUME NEW place, NEW git, OpensIn(c, place, git), UNCHANGED <<memVars, diskVars, ran>>
      PROVE  HistoryInv'
  <2> DEFINE l == [NoCall EXCEPT !.pc = "opening",
                                 !.rec = [NoRecord EXCEPT !.place = place, !.git = git]]
  <2>1. call' = [call EXCEPT ![c] = l] /\ l.out = NoCall.out /\ Fresh(l.rec)
    BY <1>1 DEF OpensIn, NoCall, NoRecord, Fresh
  <2> HIDE DEF l
  <2> QED
    BY <1>1, <2>1, HistoryStep, NoCallRun
<1>2. CASE Open(c)
  BY <1>1, <1>2 DEF Open, OpenDirect, OpenWorktree, OpenGreenfield
<1>3. CASE AddInterrupted(c)
  <2>1. call' = [call EXCEPT ![c] = call[c]] /\ UNCHANGED <<memVars, diskVars, ran>>
    BY <1>0, <1>3 DEF AddInterrupted
  <2> QED
    BY <1>0, <2>1, HistoryStep
<1>4. CASE SessionOpened(c)
  <2>1. PICK s \in Sessions : call' = [call EXCEPT ![c].pc = "bind", ![c].on = s]
    BY <1>4 DEF SessionOpened
  <2> DEFINE l == [call[c] EXCEPT !.pc = "bind", !.on = s]
  <2>2. call' = [call EXCEPT ![c] = l]
    BY <1>0, <2>1
  <2>3. l.rec = call[c].rec /\ l.out = call[c].out
    BY <1>0 DEF Locals
  <2>4. call[c].pc = "opening" /\ UNCHANGED <<memVars, diskVars, ran>>
    BY <1>4 DEF SessionOpened
  <2> HIDE DEF l
  <2> QED
    BY <1>0, <2>2, <2>3, <2>4, HistoryStep
<1>5. CASE SessionRefused(c)
  BY <1>5, HistoryReturn, HistoryGoto DEF SessionRefused, Steps
<1>6. CASE RollbackTree(c)
  <2>1. (Goto(c, "undoBranch") \/ Return(c)) /\ UNCHANGED <<memVars, diskVars, ran>>
    BY <1>6 DEF RollbackTree
  <2> QED
    BY <2>1, HistoryReturn, HistoryGoto DEF Steps
<1>7. CASE RollbackBranch(c)
  <2>1. Return(c) /\ UNCHANGED <<memVars, diskVars, ran>>
    BY <1>7 DEF RollbackBranch
  <2> QED
    BY <2>1, HistoryReturn
\* A session bound for the first time has no result yet.
<1>8. CASE Bind(c)
  <2> DEFINE s == call[c].on
             l == [call[c] EXCEPT !.pc = "saveNew", !.out = call[c].rec]
  <2>1. call[c].pc = "bind" /\ s \in Sessions /\ s \notin known /\ Fresh(call[c].rec)
    BY <1>0, <1>8 DEF Bind, OwnInv, TypeInv, CallsOK, CallOK, Anonymous
  <2>2. ran[s] = 0
    <3>1. Fresh(records[s]) /\ RunTo(records[s], ran[s])
      BY <2>1 DEF HistoryInv
    <3>2. Len(<<>>) = 0
      OBVIOUS
    <3> QED
      BY <3>1, <3>2, WorkspaceBounds DEF Fresh, RunTo
  <2>3. /\ call' = [call EXCEPT ![c] = l] /\ records' = [records EXCEPT ![s] = call[c].rec]
        /\ known' = known \cup {s} /\ UNCHANGED <<diskVars, ran>>
    BY <1>0, <1>8 DEF Bind
  <2>4. l.pc = "saveNew" /\ l.out = call[c].rec
    BY <1>0 DEF Locals
  <2>5. ran' \in [Sessions -> Nat] /\ RunTo(call[c].rec, ran'[s]) /\ IsRun(call[c].rec)
    BY <1>0, <2>1, <2>2, <2>3, FreshRun DEF StoreType
  <2>6. \A t \in Sessions \ {s} : ran'[t] = ran[t]
    BY <2>3
  <2> HIDE DEF l
  <2> QED
    BY <2>1, <2>3, <2>4, <2>5, <2>6, HistoryWrite
<1>9. CASE SaveNew(c)
  BY <1>9, HistorySave, NoCallRun DEF SaveNew
<1> QED
  BY <1>2, <1>3, <1>4, <1>5, <1>6, <1>7, <1>8, <1>9

LEMMA HistoryLater ==
  ASSUME TypeInv, OwnInv, HistoryInv, NEW c \in Calls,
         \/ CheckRuns(c) \/ SaveCheck(c) \/ VerifyEnds(c)
         \/ Stat(c) \/ Discover(c) \/ RecordGit(c) \/ SaveGit(c) \/ Scan(c)
         \/ Decide(c) \/ RemoveTree(c) \/ RemoveBranch(c) \/ CheckEmpty(c) \/ RemoveAll(c)
         \/ MarkCleaned(c) \/ SaveMark(c)
  PROVE  HistoryInv'
<1> USE DEF fsVars, ghosts
<1>0. /\ StoreType /\ call \in [Calls -> Locals] /\ call[c] \in Locals /\ IsRun(call[c].out)
      /\ (call[c].pc \notin Unbound => call[c].on \in Sessions /\ call[c].on \in known)
  BY StoreTyped, LocalsOf DEF TypeInv, TypeOK, Locals, HistoryInv, OwnInv
<1>1. \A l \in Locals : \A where \in Steps : LET m == [l EXCEPT !.pc = where]
                                           IN  m.pc = where /\ m.out = l.out
  BY DEF Locals
<1>2. CASE CheckRuns(c)
  <2> DEFINE s == call[c].on
             now == Recorded(records[s], call[c].rec, ran[s] + 1)
             l == [call[c] EXCEPT !.pc = "saveCheck", !.out = now]
  <2>1. s \in Sessions /\ s \in known
    BY <1>0, <1>2 DEF CheckRuns, Unbound, Anonymous
  <2>2. records[s] \in Record /\ ran[s] \in Nat /\ RunTo(records[s], ran[s])
    BY <1>0, <2>1 DEF StoreType, HistoryInv
  <2>3. RunTo(now, ran[s] + 1) /\ IsRun(now)
    BY <2>2, RecordedRun DEF IsRun
  <2>4. /\ call' = [call EXCEPT ![c] = l] /\ records' = [records EXCEPT ![s] = now]
        /\ ran' = [ran EXCEPT ![s] = @ + 1] /\ known' = known \cup {s} /\ UNCHANGED diskVars
    BY <1>0, <1>2, <2>1 DEF CheckRuns
  <2> HIDE DEF now
  <2>5. l.pc = "saveCheck" /\ l.out = now
    BY <1>0 DEF Locals
  <2>6. /\ ran' \in [Sessions -> Nat] /\ ran'[s] = ran[s] + 1
        /\ \A t \in Sessions \ {s} : ran'[t] = ran[t]
    BY <1>0, <2>1, <2>2, <2>4 DEF StoreType
  <2> HIDE DEF l
  <2> QED
    BY <2>1, <2>3, <2>4, <2>5, <2>6, HistoryWrite
<1>3. CASE SaveCheck(c)
  <2>1. [call[c] EXCEPT !.pc = "check"].pc = "check" /\ [call[c] EXCEPT !.pc = "check"].out = call[c].out
    BY <1>0 DEF Locals
  <2> QED
    BY <1>0, <1>3, <2>1, HistorySave, NoCallRun DEF SaveCheck
<1>4. CASE VerifyEnds(c)
  BY <1>4, HistoryReturn DEF VerifyEnds
<1>5. \A changes : IsRun(Reported(call[c], changes).out)
                 /\ Reported(call[c], changes).pc \notin {"opening", "bind"}
  BY <1>0, NoCallRun DEF Reported, Locals
<1>6. CASE Stat(c)
  <2> DEFINE p == call[c].rec.place
             l == IF p \in Places /\ tree[p] \notin Present THEN Reported(call[c], FALSE)
                  ELSE [call[c] EXCEPT !.pc = IF p \in Paths THEN "discover" ELSE "scan"]
  <2>1. call' = [call EXCEPT ![c] = l] /\ UNCHANGED <<memVars, diskVars, ran>>
    BY <1>0, <1>6 DEF Stat
  <2>2. IsRun(l.out) /\ l.pc \notin {"opening", "bind"}
    <3>1. \A where \in {"discover", "scan"} : LET m == [call[c] EXCEPT !.pc = where]
                                           IN  m.pc = where /\ m.out = call[c].out
      BY <1>0 DEF Locals
    <3> QED
      BY <1>0, <1>5, <3>1
  <2> HIDE DEF l
  <2> QED
    BY <2>1, <2>2, HistoryStep
<1>7. CASE Discover(c)
  <2>1. PICK l : Looking(c, l) /\ Discovers(c, l)
    BY <1>7, DiscoverLooks
  <2> QED
    BY <1>0, <2>1, HistoryStep DEF Looking, Discovers
<1>15. CASE RecordGit(c)
  <2> DEFINE s == call[c].on
             now == WithGit(records[s])
  <2>1. PICK l : Looking(c, l) /\ RecordsGit(c, l)
    BY <1>15, RecordGitLooks
  <2>2. s \in Sessions /\ s \in known /\ records[s] \in Record
    BY <1>0, <1>15, <2>1, RecordGitLooks DEF RecordsGit, Unbound, Anonymous
  <2>3. CASE l.out = now /\ records' = [records EXCEPT ![s] = now]
    <3>1. RunTo(records[s], ran[s]) /\ ran \in [Sessions -> Nat]
      BY <1>0, <2>2 DEF HistoryInv, StoreType
    <3>2. now.checks = records[s].checks /\ now.cleaned = records[s].cleaned
      BY <2>2, WithGitType
    <3> HIDE DEF now
    <3>3. RunTo(now, ran[s])
      BY <3>1, <3>2 DEF RunTo
    <3>4. IsRun(now)
      BY <2>2, <3>1, <3>3 DEF IsRun
    <3> QED
      BY <2>1, <2>2, <2>3, <3>1, <3>3, <3>4, HistoryWrite DEF Looking, RecordsGit
  <2>4. CASE l.out = call[c].out /\ UNCHANGED records
    BY <1>0, <2>1, <2>4, HistoryStep DEF Looking, RecordsGit, memVars
  <2> QED
    BY <2>1, <2>3, <2>4 DEF RecordsGit
<1>8. CASE SaveGit(c)
  <2>1. [call[c] EXCEPT !.pc = "scan"].pc = "scan" /\ [call[c] EXCEPT !.pc = "scan"].out = call[c].out
    BY <1>0 DEF Locals
  <2> QED
    BY <1>0, <1>8, <2>1, HistorySave DEF SaveGit
<1>9. CASE Scan(c)
  <2> DEFINE p == call[c].rec.place
             l == IF p = Source \/ ~call[c].rec.git THEN Reported(call[c], FALSE)
                  ELSE IF tree[p] \notin Present \/ history[p] = "none" THEN NoCall
                  ELSE Reported(call[c], tree[p] = "work" \/ history[p] = "ahead")
  <2>1. call' = [call EXCEPT ![c] = l] /\ UNCHANGED <<memVars, diskVars, ran>>
    BY <1>0, <1>9 DEF Scan
  <2>2. IsRun(l.out) /\ l.pc \notin {"opening", "bind"}
    BY <1>5, NoCallRun
  <2> HIDE DEF l
  <2> QED
    BY <2>1, <2>2, HistoryStep
<1>10. ASSUME NEW where \in Tidying, Goto(c, where), UNCHANGED <<memVars, diskVars, ran>>
       PROVE  HistoryInv'
  BY <1>10, HistoryGoto DEF Tidying, Steps
<1>11. CASE Decide(c)
  <2>1. \/ Return(c)
        \/ \E where \in Tidying : Goto(c, where)
    BY <1>0, <1>11 DEF Decide, Goto, Return, Tidying
  <2> QED
    BY <1>10, <1>11, <2>1, HistoryReturn DEF Decide
<1>12. CASE RemoveTree(c) \/ RemoveBranch(c) \/ CheckEmpty(c) \/ RemoveAll(c)
  <2>1. /\ UNCHANGED <<memVars, diskVars, ran>>
        /\ Return(c) \/ \E where \in Tidying : Goto(c, where)
    BY <1>12 DEF RemoveTree, RemoveBranch, CheckEmpty, RemoveAll, Tidying
  <2> QED
    BY <1>10, <2>1, HistoryReturn
\* A cleaned record is no longer asked for its history.
<1>13. CASE MarkCleaned(c)
  <2> DEFINE s == call[c].on
             rec == [call[c].rec EXCEPT !.cleaned = TRUE]
             l == [call[c] EXCEPT !.pc = "saveMark", !.out = rec]
  <2>1. s \in Sessions /\ s \in known /\ rec.cleaned
    BY <1>0, <1>13 DEF MarkCleaned, Unbound, Anonymous, Locals, Record
  <2>2. /\ call' = [call EXCEPT ![c] = l] /\ records' = [records EXCEPT ![s] = rec]
        /\ known' = known \cup {s} /\ UNCHANGED <<diskVars, ran>>
    BY <1>0, <1>13, <2>1 DEF MarkCleaned
  <2> HIDE DEF rec
  <2>3. l.pc = "saveMark" /\ l.out = rec
    BY <1>0 DEF Locals
  <2>4. RunTo(rec, ran'[s]) /\ RunTo(rec, 0)
    BY <2>1 DEF RunTo
  <2>5. IsRun(rec) /\ ran' \in [Sessions -> Nat] /\ \A t \in Sessions \ {s} : ran'[t] = ran[t]
    BY <1>0, <2>2, <2>4 DEF IsRun, StoreType
  <2> HIDE DEF l
  <2> QED
    BY <2>1, <2>2, <2>3, <2>4, <2>5, HistoryWrite
<1>14. CASE SaveMark(c)
  BY <1>14, HistorySave, NoCallRun DEF SaveMark
<1> QED
  BY <1>2, <1>3, <1>4, <1>6, <1>7, <1>8, <1>9, <1>11, <1>12, <1>13, <1>14, <1>15

LEMMA HistoryPreserved == ASSUME TypeInv, OwnInv, HistoryInv, [Next]_vars PROVE HistoryInv'
<1> USE DEF fsVars, ghosts
<1>0. StoreType
  BY StoreTyped
<1>1. ASSUME NEW c \in Calls, NEW s \in Sessions, NEW at \in {"check", "stat"},
             NEW tidy, NEW force, Begin(c, s, at, tidy, force), UNCHANGED <<memVars, diskVars, ran>>
      PROVE  HistoryInv'
  <2> DEFINE l == [NoCall EXCEPT !.pc = at, !.on = s, !.rec = records[s], !.tidy = tidy, !.force = force]
  <2>1. call' = [call EXCEPT ![c] = l]
    BY <1>1 DEF Begin
  <2>2. l.pc = at /\ l.out = NoCall.out
    BY DEF NoCall
  <2> HIDE DEF l
  <2> QED
    BY <1>1, <2>1, <2>2, HistoryStep, NoCallRun
<1>2. ASSUME NEW c \in Calls, NEW s \in Sessions,
             VerifyBegin(c, s) \/ InspectBegin(c, s) \/ \E force \in BOOLEAN : CleanupBegin(c, s, force)
      PROVE  HistoryInv'
  BY <1>1, <1>2 DEF VerifyBegin, InspectBegin, CleanupBegin
<1>3. CASE (\E p \in Places : Outside(p)) \/ UNCHANGED vars
  BY <1>3 DEF Outside, vars, HistoryInv, memVars, diskVars
<1>4. CASE Crash
  <2>1. /\ known' = saved /\ records' = disk /\ UNCHANGED <<saved, disk>>
        /\ \A c \in Calls : call'[c] = NoCall
    BY <1>4 DEF Crash, diskVars
  <2>2. \A s \in Sessions : ran'[s] = IF disk[s].checks = <<>> THEN 0
                                      ELSE disk[s].checks[Len(disk[s].checks)]
    BY <1>4 DEF Crash
  <2>3. ASSUME NEW s \in Sessions
        PROVE  RunTo(records'[s], ran'[s]) /\ IsRun(disk'[s]) /\ (s \notin known' => Fresh(records'[s]))
               /\ (s \notin saved' => Fresh(disk'[s]))
    <3>1. disk[s] \in Record /\ IsRun(disk[s]) /\ (s \notin saved => Fresh(disk[s]))
      BY <1>0 DEF StoreType, HistoryInv
    <3>2. RunTo(disk[s], ran'[s])
      BY <2>2, <3>1, LastOfRun
    <3> QED
      BY <2>1, <3>1, <3>2
  <2>4. \A c \in Calls : IsRun(call'[c].out) /\ call'[c].pc \notin {"opening", "bind"}
    BY <2>1, NoCallRun
  <2> QED
    BY <2>3, <2>4 DEF HistoryInv
<1> QED
  BY <1>2, <1>3, <1>4, HistoryOpening, HistoryLater DEF Next, Step

LEMMA FirstHistory == Init => OwnInv /\ HistoryInv
<1>1. Init => OwnInv
  BY DEF Init, OwnInv, NoCall, Unbound, Anonymous
<1>2. ASSUME Init PROVE HistoryInv
  <2>1. \A s \in Sessions : records[s] = NoRecord /\ disk[s] = NoRecord /\ ran[s] = 0
    BY <1>2 DEF Init
  <2>2. \A c \in Calls : call[c] = NoCall
    BY <1>2 DEF Init
  <2> QED
    BY <2>1, <2>2, FreshNoRecord, FreshRun, NoCallRun DEF HistoryInv
<1> QED
  BY <1>1, <1>2

\* Verify: a record that is not cleaned holds the latest results in the order
\* they were obtained, none missing, however calls overlap.
THEOREM HistoryKept == Spec => []HistoryComplete
<1>1. Init => OwnInv /\ HistoryInv
  BY FirstHistory
<1>2. TypeInv /\ OwnInv /\ HistoryInv /\ [Next]_vars => (OwnInv /\ HistoryInv)'
  BY OwnPreserved, HistoryPreserved
<1>3. TypeInv /\ HistoryInv => HistoryComplete
  <2>1. TypeInv => known \subseteq Sessions
    BY DEF TypeInv, TypeOK
  <2> QED
    BY <2>1 DEF HistoryInv, RunTo, HistoryComplete
<1> QED
  BY <1>1, <1>2, <1>3, TypeInvariant, PTL DEF Spec

-----------------------------------------------------------------------------
(* Everything on disk is somebody's                                         *)

Opening == {"opening", "bind", "undoTree", "undoBranch"}
Opens(c, p) == call[c].pc \in Opening /\ call[c].rec.place = p
\* A record stops owning its place when a cleanup is about to mark it: from then
\* on another session may be given a greenfield path.
Owns(s, p) == /\ records[s].place = p /\ ~records[s].cleaned
              /\ \A c \in Calls : ~(call[c].pc = "mark" /\ call[c].on = s)
Owned(p) == p \in strayed \/ (\E s \in known : Owns(s, p)) \/ (\E c \in Calls : Opens(c, p))
PathsBare == \A p \in Paths : tree[p] = "none" => history[p] = "none"
OwnPlace(l) == l.pc \notin Unbound => l.rec.place = records[l.on].place

StrayInv ==
    /\ \A p \in Places : OnDisk(p) => Owned(p)
    /\ PathsBare
    /\ \A c \in Calls : OwnPlace(call[c])

WillBe(p) == tree'[p] # "none" \/ history'[p] # "none"

\* A step of a call that makes nothing: the call gives up its hold on a place
\* only when that is gone or given up, and goes on to mark only what is gone.
LEMMA StrayStep ==
  ASSUME TypeInv, StrayInv, PathsBare', NEW c \in Calls, NEW l, call' = [call EXCEPT ![c] = l],
         \A p \in Places : WillBe(p) => OnDisk(p),
         UNCHANGED known, strayed \subseteq strayed',
         \A s \in Sessions : /\ records'[s].place = records[s].place
                             /\ records'[s].cleaned = records[s].cleaned,
         \/ call[c].pc \notin Opening
         \/ l.pc \in Opening /\ l.rec.place = call[c].rec.place
         \/ call[c].rec.place \in strayed'
         \/ call[c].rec.place = Source
         \/ ~WillBe(call[c].rec.place),
         l.pc \notin Unbound => l.on \in Sessions /\ l.rec.place = records[l.on].place,
         l.pc = "mark" => l.rec.place \in Places /\ ~WillBe(l.rec.place)
  PROVE  StrayInv'
<1>0. call \in [Calls -> Locals] /\ known \subseteq Sessions
  BY DEF TypeInv, TypeOK, Locals
<1>1. \A d \in Calls : call'[d] = IF d = c THEN l ELSE call[d]
  BY <1>0
<1>2. ASSUME NEW p \in Places, WillBe(p) PROVE Owned(p)'
  <2>1. CASE p \in strayed
    BY <2>1 DEF Owned
  <2>2. ASSUME NEW s \in known, Owns(s, p) PROVE Owned(p)'
    <3>1. s \in Sessions /\ s \in known' /\ records'[s].place = p /\ ~records'[s].cleaned
      BY <1>0, <2>2 DEF Owns
    <3>2. ~(l.pc = "mark" /\ l.on = s)
      BY <1>2, <2>2 DEF Owns, Unbound, Anonymous
    <3>3. \A d \in Calls : ~(call'[d].pc = "mark" /\ call'[d].on = s)
      BY <1>1, <2>2, <3>2 DEF Owns
    <3> QED
      BY <3>1, <3>3 DEF Owned, Owns
  <2>3. ASSUME NEW d \in Calls, Opens(d, p) PROVE Owned(p)'
    <3>1. CASE d # c
      BY <1>1, <2>3, <3>1 DEF Owned, Opens
    <3>2. CASE d = c
      <4>1. p # Source
        BY PlacesAssumption DEF Places
      <4> QED
        BY <1>1, <1>2, <2>3, <3>2, <4>1 DEF Owned, Opens
    <3> QED
      BY <3>1, <3>2
  <2> QED
    BY <1>2, <2>1, <2>2, <2>3 DEF StrayInv, Owned
<1>3. ASSUME NEW d \in Calls PROVE OwnPlace(call[d])'
  <2>1. CASE d = c
    BY <1>1, <2>1 DEF OwnPlace
  <2>2. CASE d # c
    <3>1. call[d].pc \notin Unbound => call[d].on \in Sessions
      BY DEF TypeInv, CallsOK, CallOK, Unbound
    <3> QED
      BY <1>1, <2>2, <3>1 DEF OwnPlace, StrayInv
  <2> QED
    BY <2>1, <2>2
<1> QED
  BY <1>2, <1>3 DEF StrayInv, OnDisk, WillBe

\* A step that leaves records and places alone.
LEMMA StrayQuiet ==
  ASSUME TypeInv, StrayInv, NEW c \in Calls, NEW l, call' = [call EXCEPT ![c] = l],
         UNCHANGED <<memVars, fsVars, strayed>>,
         \/ call[c].pc \notin Opening
         \/ l.pc \in Opening /\ l.rec.place = call[c].rec.place
         \/ call[c].rec.place = Source,
         \/ l.pc \in Unbound
         \/ call[c].pc \notin Unbound /\ l.on = call[c].on /\ l.rec.place = call[c].rec.place,
         l.pc # "mark"
  PROVE  StrayInv'
<1>1. l.pc \notin Unbound => l.on \in Sessions /\ l.rec.place = records[l.on].place
  BY DEF TypeInv, CallsOK, CallOK, StrayInv, OwnPlace, Unbound
<1>2. PathsBare' /\ \A p \in Places : WillBe(p) => OnDisk(p)
  BY DEF StrayInv, PathsBare, WillBe, OnDisk, fsVars
<1>3. UNCHANGED <<known, records, strayed>>
  BY DEF memVars
<1> QED
  BY <1>1, <1>2, <1>3, StrayStep

\* What a failed step, another person or Git has touched stays owned as it was.
LEMMA StrayKept ==
  ASSUME TypeInv, StrayInv, PathsBare', UNCHANGED <<known, records, call>>, strayed \subseteq strayed',
         \A p \in Places : WillBe(p) => OnDisk(p) \/ p \in strayed'
  PROVE  StrayInv'
<1>1. ASSUME NEW p \in Places, WillBe(p) PROVE Owned(p)'
  BY <1>1 DEF StrayInv, Owned, Owns, Opens
<1> QED
  BY <1>1 DEF StrayInv, OwnPlace, OnDisk, WillBe

\* A place is made for a call.
LEMMA StrayOpens ==
  ASSUME TypeInv, StrayInv, PathsBare', NEW c \in Calls, NEW place, NEW git, OpensIn(c, place, git),
         call[c].pc = "idle", UNCHANGED <<known, records, strayed>>,
         \A p \in Places : WillBe(p) => OnDisk(p) \/ p = place
  PROVE  StrayInv'
<1> DEFINE l == [NoCall EXCEPT !.pc = "opening",
                               !.rec = [NoRecord EXCEPT !.place = place, !.git = git]]
<1>0. call \in [Calls -> Locals]
  BY DEF TypeInv, TypeOK, Locals
<1>1. l.pc = "opening" /\ l.rec.place = place
  BY DEF NoCall, NoRecord
<1>2. \A d \in Calls : call'[d] = IF d = c THEN l ELSE call[d]
  BY <1>0 DEF OpensIn
<1> HIDE DEF l
<1>3. ASSUME NEW p \in Places, WillBe(p) PROVE Owned(p)'
  <2>1. CASE p = place
    BY <1>1, <1>2, <2>1 DEF Owned, Opens, Opening
  <2>2. CASE p # place
    <3>1. Owned(p)
      BY <1>3, <2>2 DEF StrayInv
    <3>2. \A d \in Calls : Opens(d, p) => d # c
      BY DEF Opens, Opening
    <3>3. \A t \in known : Owns(t, p) => Owns(t, p)'
      BY <1>1, <1>2 DEF Owns
    <3> QED
      BY <1>2, <3>1, <3>2, <3>3 DEF Owned, Opens
  <2> QED
    BY <2>1, <2>2
<1>4. \A d \in Calls : OwnPlace(call[d])'
  BY <1>1, <1>2 DEF OwnPlace, Unbound, Anonymous, StrayInv
<1> QED
  BY <1>3, <1>4 DEF StrayInv, OnDisk, WillBe

\* A record takes the place over from the call that made it.
LEMMA StrayBind == ASSUME TypeInv, OwnInv, HistoryInv, StrayInv, NEW c \in Calls, Bind(c) PROVE StrayInv'
<1> DEFINE s == call[c].on
<1>0. /\ call \in [Calls -> Locals] /\ call[c] \in Locals /\ call[c].pc = "bind" /\ s \in Sessions
      /\ s \notin known /\ records \in [Sessions -> Record] /\ ~call[c].rec.cleaned
      /\ known \subseteq Sessions
  BY LocalsOf DEF TypeInv, TypeOK, Locals, Bind, CallsOK, CallOK, Anonymous, OwnInv, HistoryInv, Fresh
<1>1. /\ known' = known \cup {s} /\ UNCHANGED <<tree, history, strayed>>
      /\ \A t \in Sessions : records'[t] = IF t = s THEN call[c].rec ELSE records[t]
  BY <1>0 DEF Bind, fsVars, ghosts
<1>2. /\ \A d \in Calls : d # c => call'[d] = call[d]
      /\ call'[c].pc = "saveNew" /\ call'[c].on = s /\ call'[c].rec = call[c].rec
  BY <1>0 DEF Bind, Locals
<1>3. \A d \in Calls : call[d].pc \notin Unbound => call[d].on # s /\ call[d].on \in Sessions
  BY <1>0 DEF OwnInv
<1>4. ASSUME NEW p \in Places, WillBe(p) PROVE Owned(p)'
  <2>1. Owned(p)
    BY <1>1, <1>4 DEF StrayInv, WillBe, OnDisk
  <2>2. CASE p \in strayed
    BY <1>1, <2>2 DEF Owned
  <2>3. ASSUME NEW t \in known, Owns(t, p) PROVE Owned(p)'
    <3>1. \A d \in Calls : ~(call'[d].pc = "mark" /\ call'[d].on = t)
      BY <1>2, <2>3 DEF Owns
    <3>2. records'[t] = records[t] /\ t \in known'
      BY <1>0, <1>1
    <3> QED
      BY <2>3, <3>1, <3>2 DEF Owned, Owns
  <2>4. ASSUME NEW d \in Calls, Opens(d, p) PROVE Owned(p)'
    <3>1. CASE d # c
      BY <1>2, <2>4, <3>1 DEF Owned, Opens
    <3>2. CASE d = c
      <4>1. \A e \in Calls : ~(call'[e].pc = "mark" /\ call'[e].on = s)
        BY <1>2, <1>3 DEF Unbound, Anonymous
      <4>2. records'[s] = call[c].rec /\ s \in known'
        BY <1>0, <1>1
      <4>3. \E t \in known' : /\ records'[t].place = p /\ ~records'[t].cleaned
                              /\ \A e \in Calls : ~(call'[e].pc = "mark" /\ call'[e].on = t)
        <5>1. records'[s].place = p /\ ~records'[s].cleaned
          BY <1>0, <2>4, <3>2, <4>2 DEF Opens
        <5> QED
          BY <4>1, <4>2, <5>1
      <4> QED
        BY <4>3 DEF Owned, Owns
    <3> QED
      BY <3>1, <3>2
  <2> QED
    BY <2>1, <2>2, <2>3, <2>4 DEF Owned
<1>5. \A d \in Calls : OwnPlace(call[d])'
  BY <1>0, <1>1, <1>2, <1>3 DEF OwnPlace, StrayInv
<1> QED
  BY <1>1, <1>4, <1>5 DEF StrayInv, OnDisk, WillBe, PathsBare

LEMMA StrayOpening ==
  ASSUME TypeInv, OwnInv, HistoryInv, StrayInv, NEW c \in Calls,
         \/ Open(c) \/ AddInterrupted(c)
         \/ SessionOpened(c) \/ SessionRefused(c) \/ RollbackTree(c) \/ RollbackBranch(c)
         \/ Bind(c) \/ SaveNew(c)
  PROVE  StrayInv'
<1> USE DEF ghosts
<1> DEFINE p == call[c].rec.place
<1>0. /\ StoreType /\ call \in [Calls -> Locals] /\ call[c] \in Locals /\ CallOK(call[c]) /\ PathsBare
  BY StoreTyped, LocalsOf DEF TypeInv, TypeOK, Locals, CallsOK, StrayInv
<1>1. CASE OpenDirect(c)
  <2>1. PICK git : OpensIn(c, Source, git)
    BY <1>1 DEF OpenDirect
  <2>2. call[c].pc = "idle" /\ UNCHANGED <<known, records, strayed, tree, history>>
    BY <1>1 DEF OpenDirect, memVars, fsVars
  <2> QED
    BY <1>0, <2>1, <2>2, StrayOpens DEF WillBe, OnDisk, PathsBare
<1>2. CASE OpenWorktree(c)
  <2>1. PICK q \in Slots : /\ tree' = [tree EXCEPT ![q] = "clean"]
                           /\ history' = [history EXCEPT ![q] = "base"]
                           /\ OpensIn(c, q, TRUE)
    BY <1>2 DEF OpenWorktree
  <2>2. call[c].pc = "idle" /\ UNCHANGED <<known, records, strayed>>
    BY <1>2 DEF OpenWorktree, memVars
  <2>3. \A r \in Places \ {q} : tree'[r] = tree[r] /\ history'[r] = history[r]
    BY <1>0, <2>1 DEF StoreType
  <2>4. PathsBare'
    BY <1>0, <2>3, PlacesAssumption DEF PathsBare, Places
  <2> QED
    BY <2>1, <2>2, <2>3, <2>4, StrayOpens DEF WillBe, OnDisk
<1>3. CASE OpenGreenfield(c)
  <2>1. PICK q \in Paths : tree' = [tree EXCEPT ![q] = "clean"] /\ OpensIn(c, q, FALSE)
    BY <1>3 DEF OpenGreenfield
  <2>2. call[c].pc = "idle" /\ UNCHANGED <<known, records, strayed, history>>
    BY <1>3 DEF OpenGreenfield, memVars
  <2>3. (\A r \in Places \ {q} : tree'[r] = tree[r]) /\ tree'[q] = "clean"
    BY <1>0, <2>1 DEF StoreType, Places
  <2>4. PathsBare'
    BY <1>0, <2>2, <2>3 DEF PathsBare, Places
  <2> QED
    BY <2>1, <2>2, <2>3, <2>4, StrayOpens DEF WillBe, OnDisk
<1>4. CASE AddInterrupted(c)
  <2>1. PICK q \in Slots : /\ tree' \in {tree, [tree EXCEPT ![q] = "clean"]}
                           /\ history' = [history EXCEPT ![q] = "base"]
                           /\ strayed' = strayed \cup {q}
    BY <1>4 DEF AddInterrupted
  <2>2. UNCHANGED <<known, records, call>>
    BY <1>4 DEF AddInterrupted, memVars
  <2>3. \A r \in Places \ {q} : tree'[r] = tree[r] /\ history'[r] = history[r]
    BY <1>0, <2>1 DEF StoreType
  <2>4. PathsBare'
    BY <1>0, <2>3, PlacesAssumption DEF PathsBare, Places
  <2> QED
    BY <2>1, <2>2, <2>3, <2>4, StrayKept DEF WillBe, OnDisk
<1>5. CASE SessionOpened(c)
  <2>1. PICK s \in Sessions : call' = [call EXCEPT ![c].pc = "bind", ![c].on = s]
    BY <1>5 DEF SessionOpened
  <2> DEFINE l == [call[c] EXCEPT !.pc = "bind", !.on = s]
  <2>2. call' = [call EXCEPT ![c] = l] /\ l.pc = "bind" /\ l.rec = call[c].rec
    BY <1>0, <2>1 DEF Locals
  <2>3. UNCHANGED <<memVars, fsVars, strayed>>
    BY <1>5 DEF SessionOpened
  <2> HIDE DEF l
  <2> QED
    BY <2>2, <2>3, StrayQuiet DEF Opening, Unbound
<1>6. NoCall.pc = "idle"
  BY DEF NoCall
<1>7. ASSUME NEW where \in {"undoTree", "undoBranch"}
      PROVE  [call[c] EXCEPT !.pc = where].pc = where /\ [call[c] EXCEPT !.pc = where].rec = call[c].rec
  BY <1>0 DEF Locals
<1>8. CASE SessionRefused(c)
  <2>1. UNCHANGED <<memVars, fsVars, strayed>>
    BY <1>8 DEF SessionRefused
  <2>2. CASE p = Source
    <3>1. call' = [call EXCEPT ![c] = NoCall]
      BY <1>8, <2>2 DEF SessionRefused, Return
    <3> QED
      BY <1>6, <2>1, <2>2, <3>1, StrayQuiet DEF Unbound, Anonymous
  <2>3. CASE p # Source
    <3>1. call' = [call EXCEPT ![c] = [call[c] EXCEPT !.pc = "undoTree"]]
      BY <1>0, <1>8, <2>3 DEF SessionRefused, Goto
    <3> QED
      BY <1>7, <2>1, <3>1, StrayQuiet DEF Unbound, Anonymous, Opening
  <2> QED
    BY <2>2, <2>3
<1>9. CASE RollbackTree(c)
  <2>1. p \in Places /\ call[c].pc = "undoTree" /\ UNCHANGED <<known, records>>
    BY <1>0, <1>9 DEF RollbackTree, CallOK, memVars
  <2>2. \/ tree' = [tree EXCEPT ![p] = "none"] /\ strayed' = strayed
        \/ tree' = tree /\ strayed' = strayed \cup {p}
    BY <1>9 DEF RollbackTree
  <2>3. CASE p \in Slots
    <3>1. history' = history /\ call' = [call EXCEPT ![c] = [call[c] EXCEPT !.pc = "undoBranch"]]
      BY <1>0, <1>9, <2>3 DEF RollbackTree, Goto
    <3>2. \A r \in Places \ {p} : tree'[r] = tree[r]
      BY <1>0, <2>2 DEF StoreType
    <3>3. \A r \in Places : WillBe(r) => OnDisk(r)
      BY <1>0, <2>1, <2>2, <3>1 DEF StoreType, WillBe, OnDisk
    <3>4. PathsBare'
      BY <1>0, <2>3, <3>1, <3>2, PlacesAssumption DEF PathsBare, Places
    <3>5. strayed \subseteq strayed'
      BY <2>2
    <3> DEFINE l == [call[c] EXCEPT !.pc = "undoBranch"]
    <3>6. l.pc = "undoBranch" /\ l.rec = call[c].rec /\ call' = [call EXCEPT ![c] = l]
      BY <1>7, <3>1
    <3> HIDE DEF l
    <3> QED
      BY <2>1, <3>3, <3>4, <3>5, <3>6, StrayStep DEF Opening, Unbound, Anonymous
  <2>4. CASE p \notin Slots
    <3>1. /\ history' = [history EXCEPT ![p] = IF tree'[p] = "none" THEN "none" ELSE @]
          /\ call' = [call EXCEPT ![c] = NoCall]
      BY <1>9, <2>4 DEF RollbackTree, Return
    <3>2. \A r \in Places \ {p} : tree'[r] = tree[r] /\ history'[r] = history[r]
      BY <1>0, <2>2, <3>1 DEF StoreType
    <3>3. \/ tree'[p] = "none" /\ history'[p] = "none"
          \/ p \in strayed' /\ tree' = tree /\ history'[p] \in {"none", history[p]}
      BY <1>0, <2>1, <2>2, <3>1 DEF StoreType
    <3>4. \A r \in Places : WillBe(r) => OnDisk(r)
      BY <2>1, <3>2, <3>3 DEF WillBe, OnDisk
    <3>5. PathsBare'
      BY <1>0, <3>2, <3>3 DEF PathsBare, Places
    <3>6. ~WillBe(p) \/ p \in strayed'
      BY <3>3 DEF WillBe
    <3>7. strayed \subseteq strayed'
      BY <2>2
    <3> QED
      BY <1>6, <2>1, <3>1, <3>4, <3>5, <3>6, <3>7, StrayStep DEF Unbound, Anonymous
  <2> QED
    BY <2>3, <2>4
<1>10. CASE RollbackBranch(c)
  <2>1. p \in Slots /\ p \in Places /\ UNCHANGED <<known, records, tree>>
    BY <1>0, <1>10 DEF RollbackBranch, CallOK, memVars, Places
  <2>2. call' = [call EXCEPT ![c] = NoCall]
    BY <1>10 DEF RollbackBranch, Return
  <2>3. \/ /\ tree[p] = "none" /\ history' = [history EXCEPT ![p] = "none"] /\ strayed' = strayed
        \/ history' = history /\ strayed' = strayed \cup {p}
    BY <1>10 DEF RollbackBranch
  <2>4. \A r \in Places \ {p} : history'[r] = history[r]
    BY <1>0, <2>3 DEF StoreType
  <2>5. ~WillBe(p) \/ p \in strayed'
    BY <1>0, <2>1, <2>3 DEF WillBe, StoreType
  <2>6. \A r \in Places : WillBe(r) => OnDisk(r)
    BY <1>0, <2>1, <2>3 DEF StoreType, WillBe, OnDisk
  <2>7. PathsBare'
    BY <1>0, <2>1, <2>4, PlacesAssumption DEF PathsBare, Places
  <2>8. strayed \subseteq strayed'
    BY <2>3
  <2> QED
    BY <1>6, <2>1, <2>2, <2>5, <2>6, <2>7, <2>8, StrayStep DEF Unbound, Anonymous
<1>11. CASE SaveNew(c)
  <2>1. /\ call[c].pc = "saveNew" /\ call' = [call EXCEPT ![c] = NoCall]
        /\ UNCHANGED <<memVars, fsVars, strayed>>
    BY <1>11 DEF SaveNew, Save
  <2> QED
    BY <1>6, <2>1, StrayQuiet DEF Opening, Unbound, Anonymous
<1> QED
  BY <1>1, <1>2, <1>3, <1>4, <1>5, <1>8, <1>9, <1>10, <1>11, StrayBind DEF Open

\* Marking takes the place from no one: the record had given it up.
LEMMA StrayMark == ASSUME TypeInv, StrayInv, NEW c \in Calls, MarkCleaned(c) PROVE StrayInv'
<1> DEFINE s == call[c].on
           rec == [call[c].rec EXCEPT !.cleaned = TRUE]
<1>0. /\ call \in [Calls -> Locals] /\ call[c] \in Locals /\ call[c].pc = "mark" /\ s \in Sessions
      /\ records \in [Sessions -> Record] /\ known \subseteq Sessions /\ call[c].rec \in Record
      /\ call[c].rec.place = records[s].place
  BY LocalsOf DEF TypeInv, TypeOK, Locals, MarkCleaned, CallsOK, CallOK, Anonymous, Unbound, StrayInv, OwnPlace
<1>1. rec.place = records[s].place /\ rec.cleaned
  BY <1>0 DEF Record
<1>2. UNCHANGED <<known, tree, history, strayed>> /\ records' = [records EXCEPT ![s] = rec]
  BY <1>0 DEF MarkCleaned, fsVars, ghosts
<1> HIDE DEF rec
<1>3. \A t \in Sessions : /\ records'[t].place = records[t].place
                          /\ t # s => records'[t] = records[t]
  BY <1>0, <1>1, <1>2
<1>4. /\ \A d \in Calls : d # c => call'[d] = call[d]
      /\ call'[c].pc = "saveMark" /\ call'[c].on = s /\ call'[c].rec = call[c].rec
  BY <1>0 DEF MarkCleaned, Locals
<1>5. ASSUME NEW p \in Places, WillBe(p) PROVE Owned(p)'
  <2>1. CASE p \in strayed
    BY <1>2, <2>1 DEF Owned
  <2>2. ASSUME NEW t \in known, Owns(t, p) PROVE Owned(p)'
    <3>1. t # s /\ t \in known' /\ t \in Sessions
      BY <1>0, <1>2, <2>2 DEF Owns
    <3>2. \A d \in Calls : ~(call'[d].pc = "mark" /\ call'[d].on = t)
      BY <1>4, <2>2 DEF Owns
    <3>3. records'[t] = records[t]
      BY <1>3, <3>1
    <3> QED
      BY <2>2, <3>1, <3>2, <3>3 DEF Owned, Owns
  <2>3. ASSUME NEW d \in Calls, Opens(d, p) PROVE Owned(p)'
    <3>1. d # c
      BY <1>0, <2>3 DEF Opens, Opening
    <3> QED
      BY <1>4, <2>3, <3>1 DEF Owned, Opens
  <2> QED
    BY <1>2, <1>5, <2>1, <2>2, <2>3 DEF StrayInv, Owned, WillBe, OnDisk
<1>6. ASSUME NEW d \in Calls PROVE OwnPlace(call[d])'
  <2>0. \A t \in Sessions : records'[t].place = records[t].place
    BY <1>3
  <2>1. CASE d = c
    <3>1. call'[d].on = s /\ call'[d].rec.place = records'[s].place
      BY <1>0, <1>4, <2>0, <2>1
    <3> QED
      BY <3>1 DEF OwnPlace
  <2>2. CASE d # c
    <3>1. call[d].pc \notin Unbound => call[d].on \in Sessions /\ call[d].rec.place = records[call[d].on].place
      BY DEF TypeInv, CallsOK, CallOK, Unbound, StrayInv, OwnPlace
    <3>2. call'[d] = call[d]
      BY <1>4, <2>2
    <3> HIDE DEF s
    <3> QED
      BY <2>0, <3>1, <3>2 DEF OwnPlace
  <2> QED
    BY <2>1, <2>2
<1> QED
  BY <1>2, <1>5, <1>6 DEF StrayInv, OnDisk, WillBe, PathsBare

LEMMA StrayLooking ==
  ASSUME TypeInv, TypeInv', StrayInv, NEW c \in Calls,
         \/ CheckRuns(c) \/ SaveCheck(c) \/ VerifyEnds(c)
         \/ Stat(c) \/ Discover(c) \/ RecordGit(c) \/ SaveGit(c) \/ Scan(c) \/ SaveMark(c)
  PROVE  StrayInv'
<1> USE DEF ghosts
<1>0. /\ StoreType /\ call \in [Calls -> Locals] /\ call[c] \in Locals /\ CallOK(call[c]) /\ PathsBare
      /\ OwnPlace(call[c])
  BY StoreTyped, LocalsOf DEF TypeInv, TypeOK, Locals, CallsOK, StrayInv
\* On from one of these steps, in the same session, or back.
<1>1. ASSUME NEW l, call' = [call EXCEPT ![c] = l], UNCHANGED <<memVars, fsVars, strayed>>,
             call[c].pc \notin Unbound,
             \/ l.pc = "idle"
             \/ l.pc \notin Unbound \cup {"mark"} /\ l.on = call[c].on /\ l.rec.place = call[c].rec.place
      PROVE  StrayInv'
  <2>1. call[c].pc \notin Opening /\ l.pc # "mark"
    BY <1>1 DEF Opening, Unbound, Anonymous
  <2> QED
    BY <1>1, <2>1, StrayQuiet DEF Unbound, Anonymous
<1>2. NoCall.pc = "idle"
  BY DEF NoCall
<1>3. \A changes : Reported(call[c], changes).pc = "idle"
                 \/ /\ Reported(call[c], changes).pc = "decide"
                    /\ Reported(call[c], changes).on = call[c].on
                    /\ Reported(call[c], changes).rec = call[c].rec
  BY <1>0 DEF Reported, Locals, NoCall
<1>4. \A where \in {"check", "scan", "discover"} :
        LET m == [call[c] EXCEPT !.pc = where] IN m.pc = where /\ m.on = call[c].on /\ m.rec = call[c].rec
  BY <1>0 DEF Locals
<1>5. CASE CheckRuns(c)
  <2> DEFINE s == call[c].on
             now == Recorded(records[s], call[c].rec, ran[s] + 1)
             l == [call[c] EXCEPT !.pc = "saveCheck", !.out = now]
  <2>1. call[c].pc = "check" /\ s \in Sessions
    BY <1>0, <1>5 DEF CheckRuns, CallOK, Anonymous
  <2>2. now.place = records[s].place /\ now.cleaned = records[s].cleaned
    BY <1>0, <2>1, RecordedType DEF StoreType
  <2>3. /\ call' = [call EXCEPT ![c] = l] /\ records' = [records EXCEPT ![s] = now]
        /\ UNCHANGED <<known, tree, history, strayed>>
    BY <1>0, <1>5 DEF CheckRuns, fsVars
  <2> HIDE DEF now
  <2>4. l.pc = "saveCheck" /\ l.on = s /\ l.rec = call[c].rec
    BY <1>0 DEF Locals
  <2>5. \A t \in Sessions : /\ records'[t].place = records[t].place
                            /\ records'[t].cleaned = records[t].cleaned
    BY <1>0, <2>1, <2>2, <2>3 DEF StoreType
  <2>6. PathsBare' /\ \A p \in Places : WillBe(p) => OnDisk(p)
    BY <1>0, <2>3 DEF PathsBare, WillBe, OnDisk
  <2>7. l.rec.place = records[l.on].place
    BY <1>0, <2>1, <2>4 DEF OwnPlace, Unbound, Anonymous
  <2> HIDE DEF l
  <2> QED
    BY <2>1, <2>3, <2>4, <2>5, <2>6, <2>7, StrayStep DEF Opening
<1>6. CASE SaveCheck(c)
  <2>1. /\ call[c].pc = "saveCheck" /\ UNCHANGED <<memVars, fsVars, strayed>>
        /\ \/ call' = [call EXCEPT ![c] = NoCall]
           \/ call' = [call EXCEPT ![c] = [call[c] EXCEPT !.pc = "check"]]
    BY <1>6 DEF SaveCheck, Save
  <2> QED
    BY <1>1, <1>2, <1>4, <2>1 DEF Unbound, Anonymous
<1>7. CASE VerifyEnds(c)
  <2>1. call[c].pc = "check" /\ UNCHANGED <<memVars, fsVars, strayed>> /\ call' = [call EXCEPT ![c] = NoCall]
    BY <1>7 DEF VerifyEnds, Return
  <2> QED
    BY <1>1, <1>2, <2>1 DEF Unbound, Anonymous
<1>8. CASE Stat(c)
  <2> DEFINE p == call[c].rec.place
             l == IF p \in Places /\ tree[p] \notin Present THEN Reported(call[c], FALSE)
                  ELSE [call[c] EXCEPT !.pc = IF p \in Paths THEN "discover" ELSE "scan"]
  <2>1. call' = [call EXCEPT ![c] = l] /\ UNCHANGED <<memVars, fsVars, strayed>> /\ call[c].pc = "stat"
    BY <1>0, <1>8 DEF Stat
  <2>2. \/ l.pc = "idle"
        \/ l.pc \in {"decide", "discover", "scan"} /\ l.on = call[c].on /\ l.rec = call[c].rec
    BY <1>3, <1>4
  <2> HIDE DEF l
  <2> QED
    BY <1>1, <2>1, <2>2 DEF Unbound, Anonymous
<1>9. CASE Discover(c)
  <2>1. PICK l : Looking(c, l) /\ Discovers(c, l)
    BY <1>9, DiscoverLooks
  <2> QED
    BY <1>1, <2>1 DEF Looking, Discovers, Unbound, Anonymous
<1>13. CASE RecordGit(c)
  <2> DEFINE s == call[c].on
  <2>1. PICK l : Looking(c, l) /\ RecordsGit(c, l)
    BY <1>13, RecordGitLooks
  <2>2. s \in Sessions /\ records[s] \in Record
    BY <1>13, RecordGitLooks
  <2>3. \A t \in Sessions : /\ records'[t].place = records[t].place
                            /\ records'[t].cleaned = records[t].cleaned
    BY <1>0, <2>1, <2>2, WithGitType DEF StoreType, RecordsGit
  <2>4. PathsBare' /\ \A p \in Places : WillBe(p) => OnDisk(p)
    BY <1>0, <2>1 DEF RecordsGit, PathsBare, WillBe, OnDisk, fsVars
  <2>5. call[c].rec.place = records[s].place /\ call[c].pc \notin Opening
    BY <1>0, <2>1 DEF RecordsGit, OwnPlace, Unbound, Anonymous, Opening
  <2> QED
    BY <2>1, <2>2, <2>3, <2>4, <2>5, StrayStep DEF Looking, RecordsGit
<1>10. CASE SaveGit(c)
  <2>1. /\ call[c].pc = "saveGit" /\ UNCHANGED <<memVars, fsVars, strayed>>
        /\ call' = [call EXCEPT ![c] = [call[c] EXCEPT !.pc = "scan"]]
    BY <1>10 DEF SaveGit, Save
  <2> QED
    BY <1>1, <1>4, <2>1 DEF Unbound, Anonymous
<1>11. CASE Scan(c)
  <2> DEFINE p == call[c].rec.place
             l == IF p = Source \/ ~call[c].rec.git THEN Reported(call[c], FALSE)
                  ELSE IF tree[p] \notin Present \/ history[p] = "none" THEN NoCall
                  ELSE Reported(call[c], tree[p] = "work" \/ history[p] = "ahead")
  <2>1. call' = [call EXCEPT ![c] = l] /\ UNCHANGED <<memVars, fsVars, strayed>> /\ call[c].pc = "scan"
    BY <1>0, <1>11 DEF Scan
  <2>2. \/ l.pc = "idle"
        \/ l.pc = "decide" /\ l.on = call[c].on /\ l.rec = call[c].rec
    BY <1>2, <1>3
  <2> HIDE DEF l
  <2> QED
    BY <1>1, <2>1, <2>2 DEF Unbound, Anonymous
<1>12. CASE SaveMark(c)
  <2>1. /\ call[c].pc = "saveMark" /\ UNCHANGED <<memVars, fsVars, strayed>>
        /\ call' = [call EXCEPT ![c] = NoCall]
    BY <1>12 DEF SaveMark, Save
  <2> QED
    BY <1>1, <1>2, <2>1 DEF Unbound, Anonymous
<1> QED
  BY <1>5, <1>6, <1>7, <1>8, <1>9, <1>10, <1>11, <1>12, <1>13

LEMMA StrayTidying ==
  ASSUME TypeInv, GoneInv, StrayInv, NEW c \in Calls,
         Decide(c) \/ RemoveTree(c) \/ RemoveBranch(c) \/ CheckEmpty(c) \/ RemoveAll(c)
  PROVE  StrayInv'
<1> USE DEF ghosts
<1> DEFINE p == call[c].rec.place
<1>0. /\ StoreType /\ call \in [Calls -> Locals] /\ call[c] \in Locals /\ CallOK(call[c]) /\ PathsBare
      /\ OwnPlace(call[c]) /\ (call[c].pc = "removeBranch" => tree[p] = "none")
  BY StoreTyped, LocalsOf DEF TypeInv, TypeOK, Locals, CallsOK, StrayInv, GoneInv, GoneCall
\* To the next step of the cleanup, to the mark only when nothing is left, or back.
<1>1. ASSUME call[c].pc \in Tidying, p \in Places, UNCHANGED <<known, records, strayed>>, PathsBare',
             \A q \in Places : WillBe(q) => OnDisk(q),
             \/ Return(c)
             \/ \E where \in Tidying \ {"mark"} : Goto(c, where)
             \/ Goto(c, "mark") /\ ~WillBe(p)
      PROVE  StrayInv'
  <2>1. call[c].pc \notin Opening \cup Unbound
    BY <1>1 DEF Tidying, Opening, Unbound, Anonymous
  <2>2. CASE Return(c)
    <3>1. NoCall.pc = "idle" /\ call' = [call EXCEPT ![c] = NoCall]
      BY <2>2 DEF Return, NoCall
    <3> QED
      BY <1>1, <2>1, <3>1, StrayStep DEF Unbound, Anonymous
  <2>3. ASSUME NEW where \in Tidying, Goto(c, where), where = "mark" => ~WillBe(p) PROVE StrayInv'
    <3> DEFINE l == [call[c] EXCEPT !.pc = where]
    <3>1. /\ call' = [call EXCEPT ![c] = l] /\ l.pc = where /\ l.on = call[c].on
          /\ l.rec.place = p
      BY <1>0, <2>3 DEF Goto, Locals
    <3>2. call[c].on \in Sessions /\ p = records[call[c].on].place
      BY <1>0, <2>1 DEF OwnPlace, CallOK, Unbound
    <3> HIDE DEF l
    <3> QED
      BY <1>1, <2>1, <2>3, <3>1, <3>2, StrayStep DEF Tidying
  <2> QED
    BY <1>1, <2>2, <2>3 DEF Tidying
<1>2. CASE Decide(c)
  <2>1. call[c].pc = "decide" /\ p \in Places /\ UNCHANGED <<known, records, tree, history, strayed>>
    BY <1>0, <1>2 DEF Decide, CallOK, Tidying, memVars, fsVars
  <2>2. \/ Return(c)
        \/ \E where \in Tidying \ {"mark"} : Goto(c, where)
        \/ Goto(c, "mark") /\ p \in Paths /\ tree[p] = "none"
    BY <1>0, <1>2 DEF Decide, Goto, Return, Tidying
  <2>3. PathsBare' /\ \A q \in Places : WillBe(q) => OnDisk(q)
    BY <1>0, <2>1 DEF PathsBare, WillBe, OnDisk
  <2>4. p \in Paths /\ tree[p] = "none" => ~WillBe(p)
    BY <1>0, <2>1 DEF PathsBare, WillBe
  <2> QED
    BY <1>1, <2>1, <2>2, <2>3, <2>4 DEF Tidying
<1>3. CASE RemoveTree(c)
  <2>1. /\ call[c].pc = "removeTree" /\ p \in Slots /\ p \in Places
        /\ UNCHANGED <<known, records, history, strayed>>
    BY <1>0, <1>3 DEF RemoveTree, CallOK, memVars, Places
  <2>2. tree' = [tree EXCEPT ![p] = "none"] \/ tree' = tree
    BY <1>3 DEF RemoveTree
  <2>3. \A q \in Places : WillBe(q) => OnDisk(q)
    BY <1>0, <2>1, <2>2 DEF StoreType, WillBe, OnDisk
  <2>4. \A q \in Paths : tree'[q] = tree[q]
    BY <1>0, <2>1, <2>2, PlacesAssumption DEF StoreType, Places
  <2>5. PathsBare'
    BY <1>0, <2>1, <2>4 DEF PathsBare
  <2>6. Return(c) \/ Goto(c, "removeBranch")
    BY <1>3 DEF RemoveTree
  <2> QED
    BY <1>1, <2>1, <2>3, <2>5, <2>6 DEF Tidying
<1>4. CASE RemoveBranch(c)
  <2>1. /\ call[c].pc = "removeBranch" /\ p \in Slots /\ p \in Places
        /\ UNCHANGED <<known, records, tree, strayed>>
    BY <1>0, <1>4 DEF RemoveBranch, CallOK, memVars, Places
  <2>2. \/ history' = [history EXCEPT ![p] = "none"] /\ Goto(c, "mark")
        \/ history' = history /\ Return(c)
    BY <1>4 DEF RemoveBranch
  <2>3. \A q \in Places : WillBe(q) => OnDisk(q)
    BY <1>0, <2>1, <2>2 DEF StoreType, WillBe, OnDisk
  <2>4. \A q \in Paths : history'[q] = history[q]
    BY <1>0, <2>1, <2>2, PlacesAssumption DEF StoreType, Places
  <2>5. PathsBare'
    BY <1>0, <2>1, <2>4 DEF PathsBare
  <2>6. history' = [history EXCEPT ![p] = "none"] => ~WillBe(p)
    BY <1>0, <2>1 DEF WillBe, StoreType
  <2> QED
    BY <1>1, <2>1, <2>2, <2>3, <2>5, <2>6 DEF Tidying
<1>5. CASE CheckEmpty(c)
  <2>1. /\ call[c].pc = "empty" /\ p \in Places
        /\ UNCHANGED <<known, records, tree, history, strayed>>
    BY <1>0, <1>5 DEF CheckEmpty, CallOK, memVars, fsVars, Places
  <2>2. PathsBare' /\ \A q \in Places : WillBe(q) => OnDisk(q)
    BY <1>0, <2>1 DEF PathsBare, WillBe, OnDisk
  <2>3. Return(c) \/ Goto(c, "removeAll")
    BY <1>5 DEF CheckEmpty
  <2> QED
    BY <1>1, <2>1, <2>2, <2>3 DEF Tidying
<1>6. CASE RemoveAll(c)
  <2>1. /\ call[c].pc = "removeAll" /\ p \in Paths /\ p \in Places
        /\ UNCHANGED <<known, records, strayed>>
    BY <1>0, <1>6 DEF RemoveAll, CallOK, memVars, Places
  <2>2. \/ /\ tree' = [tree EXCEPT ![p] = "none"] /\ history' = [history EXCEPT ![p] = "none"]
           /\ Goto(c, "mark")
        \/ tree' = tree /\ history' = history /\ Return(c)
    BY <1>6 DEF RemoveAll, fsVars
  <2>3. \A q \in Places : WillBe(q) => OnDisk(q)
    BY <1>0, <2>1, <2>2 DEF StoreType, WillBe, OnDisk
  <2>4. PathsBare'
    BY <1>0, <2>1, <2>2 DEF PathsBare, StoreType, Places
  <2>5. tree' = [tree EXCEPT ![p] = "none"] /\ history' = [history EXCEPT ![p] = "none"] => ~WillBe(p)
    BY <1>0, <2>1 DEF WillBe, StoreType
  <2> QED
    BY <1>1, <2>1, <2>2, <2>3, <2>4, <2>5 DEF Tidying
<1> QED
  BY <1>2, <1>3, <1>4, <1>5, <1>6

LEMMA StrayPreserved ==
  ASSUME TypeInv, TypeInv', OwnInv, GoneInv, HistoryInv, StrayInv, [Next]_vars
  PROVE  StrayInv'
<1> USE DEF ghosts
<1>0. /\ StoreType /\ call \in [Calls -> Locals] /\ PathsBare
  BY StoreTyped DEF TypeInv, TypeOK, Locals, StrayInv
<1>1. ASSUME NEW c \in Calls, NEW s \in Sessions, NEW at \in {"check", "stat"},
             NEW tidy, NEW force, Begin(c, s, at, tidy, force), UNCHANGED <<memVars, fsVars, strayed>>
      PROVE  StrayInv'
  <2> DEFINE l == [NoCall EXCEPT !.pc = at, !.on = s, !.rec = records[s], !.tidy = tidy, !.force = force]
  <2>1. call' = [call EXCEPT ![c] = l] /\ call[c].pc = "idle"
    BY <1>1 DEF Begin
  <2>2. l.pc = at /\ l.on = s /\ l.rec = records[s]
    BY DEF NoCall
  <2> HIDE DEF l
  <2>3. PathsBare' /\ \A p \in Places : WillBe(p) => OnDisk(p)
    BY <1>0, <1>1 DEF PathsBare, WillBe, OnDisk, fsVars
  <2> QED
    BY <1>1, <2>1, <2>2, <2>3, StrayStep DEF Opening, memVars
<1>2. ASSUME NEW c \in Calls, NEW s \in Sessions,
             VerifyBegin(c, s) \/ InspectBegin(c, s) \/ \E force \in BOOLEAN : CleanupBegin(c, s, force)
      PROVE  StrayInv'
  BY <1>1, <1>2 DEF VerifyBegin, InspectBegin, CleanupBegin
<1>3. ASSUME NEW q \in Places, Outside(q) PROVE StrayInv'
  <2>1. UNCHANGED <<known, records, call, strayed>>
    BY <1>3 DEF Outside, memVars
  <2>2. \A p \in Places : WillBe(p) => OnDisk(p)
    BY <1>0, <1>3 DEF Outside, Works, InitsRepository, Commits, Vanishes, Present, WillBe, OnDisk, StoreType
  <2>3. PathsBare'
    <3>1. \A p \in Paths : p \in Places /\ p \notin Slots
      BY PlacesAssumption DEF Places
    <3> QED
      BY <1>0, <1>3, <3>1 DEF Outside, Works, InitsRepository, Commits, Vanishes, Present, PathsBare, StoreType
  <2> QED
    BY <2>1, <2>2, <2>3, StrayKept
<1>4. CASE UNCHANGED vars
  BY <1>4 DEF vars, memVars, fsVars, StrayInv, Owned, Owns, Opens, OwnPlace, PathsBare, OnDisk
<1>5. CASE Crash
  <2>1. /\ known' = saved /\ records' = disk /\ UNCHANGED <<tree, history>>
        /\ \A c \in Calls : call'[c].pc = "idle"
    BY <1>5 DEF Crash, NoCall, fsVars
  <2>2. strayed' = strayed \cup
          {p \in Places : OnDisk(p) /\ ~\E s \in saved : disk[s].place = p /\ ~disk[s].cleaned}
    BY <1>5 DEF Crash
  <2>3. ASSUME NEW p \in Places, WillBe(p) PROVE Owned(p)'
    <3>1. OnDisk(p)
      BY <2>1, <2>3 DEF WillBe, OnDisk
    <3>2. CASE p \in strayed'
      BY <3>2 DEF Owned
    <3>3. CASE p \notin strayed'
      <4>1. PICK s \in saved : disk[s].place = p /\ ~disk[s].cleaned
        BY <2>2, <3>1, <3>3
      <4> QED
        BY <2>1, <4>1 DEF Owned, Owns
    <3> QED
      BY <3>2, <3>3
  <2>4. \A c \in Calls : OwnPlace(call[c])'
    BY <2>1 DEF OwnPlace, Unbound, Anonymous
  <2> QED
    BY <1>0, <2>1, <2>3, <2>4 DEF StrayInv, OnDisk, WillBe, PathsBare
<1>6. ASSUME NEW c \in Calls, Open(c) \/ AddInterrupted(c) \/ Step(c) PROVE StrayInv'
  BY <1>6, StrayOpening, StrayLooking, StrayTidying, StrayMark DEF Step
<1> QED
  BY <1>2, <1>3, <1>4, <1>5, <1>6 DEF Next

\* Open: whatever the manager made on disk belongs to a record that is not
\* cleaned or to an Open in progress, unless a step failed or a crash came
\* before the record was written.
THEOREM EverythingOwned == Spec => []NothingStray
<1> DEFINE Inv == OwnInv /\ GoneInv /\ HistoryInv /\ StrayInv
<1>1. Init => Inv
  <2>1. Init => StrayInv
    BY DEF Init, StrayInv, OnDisk, PathsBare, OwnPlace, NoCall, Unbound, Anonymous, Places
  <2> QED
    BY <2>1, FirstHistory, FirstGone
<1>2. TypeInv /\ TypeInv' /\ Inv /\ [Next]_vars => Inv'
  BY OwnPreserved, GonePreserved, HistoryPreserved, StrayPreserved
<1>3. Inv => NothingStray
  BY DEF StrayInv, Owned, Owns, Opens, Opening, NothingStray
<1> QED
  BY <1>1, <1>2, <1>3, TypeInvariant, PTL DEF Spec

-----------------------------------------------------------------------------
(* What the steps of a call do, as far as the lifecycle can tell            *)

Saving == {"saveNew", "saveCheck", "saveGit", "saveMark"}

\* A call is over, or goes on with the session and the record it has.
Ends(l) == l.pc = "idle" /\ ~l.force
GoesOn(c, l) ==
    /\ call[c].pc \notin Unbound /\ l.pc \notin Unbound
    /\ l.on = call[c].on /\ l.force = call[c].force
    /\ l.rec.place = call[c].rec.place /\ l.rec.cleaned = call[c].rec.cleaned
    /\ l.rec.checks = call[c].rec.checks

\* The records and files stay, one record is saved, or one is written.
Looks(l) == l.pc \notin Saving /\ UNCHANGED <<records, saved, disk, ran>>
Saves(c, l) ==
    /\ l.pc \notin Saving /\ call[c].pc \in Saving
    /\ saved' = saved \cup {call[c].on}
    /\ disk' = [disk EXCEPT ![call[c].on] = call[c].out]
    /\ UNCHANGED <<records, ran>>
Writes(c, l, now) ==
    /\ records' = [records EXCEPT ![call[c].on] = now]
    /\ l.pc \in Saving => l.out = now
    /\ l.pc # "idle"
    /\ UNCHANGED <<saved, disk>>
FindsGit(c, l) ==
    /\ ~records[call[c].on].cleaned
    /\ Writes(c, l, WithGit(records[call[c].on]))
    /\ UNCHANGED ran
Checks(c, l) ==
    LET s == call[c].on IN
    /\ Writes(c, l, Recorded(records[s], call[c].rec, ran[s] + 1))
    /\ ran' = [ran EXCEPT ![s] = @ + 1]
Marks(c, l) ==
    /\ call[c].pc = "mark"
    /\ Writes(c, l, [call[c].rec EXCEPT !.cleaned = TRUE])
    /\ UNCHANGED ran

Later(c) ==
    \/ SaveNew(c) \/ CheckRuns(c) \/ SaveCheck(c) \/ VerifyEnds(c)
    \/ Stat(c) \/ Discover(c) \/ RecordGit(c) \/ SaveGit(c) \/ Scan(c)
    \/ Decide(c) \/ RemoveTree(c) \/ RemoveBranch(c) \/ CheckEmpty(c) \/ RemoveAll(c)
    \/ MarkCleaned(c) \/ SaveMark(c)

LaterTo(c, l) ==
    /\ l \in Locals /\ call' = [call EXCEPT ![c] = l]
    /\ call[c].pc \notin Unbound
    /\ Ends(l) \/ GoesOn(c, l)
    /\ Looks(l) \/ Saves(c, l) \/ FindsGit(c, l) \/ Checks(c, l) \/ Marks(c, l)
    /\ UNCHANGED <<known, used, crashes>>

LEMMA NoCallEnds == NoCall \in Locals /\ Ends(NoCall) /\ NoCall.pc \notin Saving
  BY RecordTypes DEF NoCall, Ends, Saving

\* A call that only goes to another step, or ends.
LEMMA LaterGoto ==
  ASSUME TypeInv, NEW c \in Calls, call[c].pc \notin Unbound,
         Return(c) \/ \E where \in Steps \ (Unbound \cup Saving) : Goto(c, where),
         UNCHANGED <<memVars, diskVars, used, ran, crashes>>
  PROVE  \E l : LaterTo(c, l)
<1>0. call \in [Calls -> Locals] /\ call[c] \in Locals
  BY LocalsOf DEF TypeInv, TypeOK, Locals
<1>1. CASE Return(c)
  <2>1. LaterTo(c, NoCall)
    BY <1>1, NoCallEnds DEF Return, LaterTo, Looks, memVars, diskVars
  <2> QED
    BY <2>1
<1>2. ASSUME NEW where \in Steps \ (Unbound \cup Saving), Goto(c, where) PROVE \E l : LaterTo(c, l)
  <2> DEFINE l == [call[c] EXCEPT !.pc = where]
  <2>1. l \in Locals /\ l.pc = where /\ l.on = call[c].on /\ l.rec = call[c].rec /\ l.force = call[c].force
    BY <1>0, RecordTypes DEF Locals
  <2>2. call' = [call EXCEPT ![c] = l]
    BY <1>0, <1>2 DEF Goto
  <2> HIDE DEF l
  <2>3. LaterTo(c, l)
    BY <1>2, <2>1, <2>2 DEF LaterTo, GoesOn, Looks, memVars, diskVars
  <2> QED
    BY <2>3
<1> QED
  BY <1>1, <1>2

LEMMA LaterSave ==
  ASSUME TypeInv, NEW c \in Calls, NEW at \in Saving, NEW l \in Locals, NEW m \in Locals,
         Save(c, at, l, m), Ends(l) \/ GoesOn(c, l), Ends(m) \/ GoesOn(c, m),
         l.pc \notin Saving, m.pc \notin Saving
  PROVE  \E k : LaterTo(c, k)
<1>1. call[c].pc \in Saving /\ call[c].pc \notin Unbound
  BY DEF Save, Saving, Unbound, Anonymous
<1>2. CASE /\ saved' = saved \cup {call[c].on} /\ disk' = [disk EXCEPT ![call[c].on] = call[c].out]
           /\ call' = [call EXCEPT ![c] = l]
  <2>1. LaterTo(c, l)
    BY <1>1, <1>2 DEF Save, LaterTo, Saves, memVars
  <2> QED
    BY <2>1
<1>3. CASE call' = [call EXCEPT ![c] = m] /\ UNCHANGED diskVars
  <2>1. LaterTo(c, m)
    BY <1>1, <1>3 DEF Save, LaterTo, Looks, memVars, diskVars
  <2> QED
    BY <2>1
<1> QED
  BY <1>2, <1>3 DEF Save

\* Inspect reports to whoever asked.
LEMMA LaterReport ==
  ASSUME TypeInv, NEW c \in Calls, call[c].pc \notin Unbound, NEW changes \in BOOLEAN,
         call' = [call EXCEPT ![c] = Reported(call[c], changes)],
         UNCHANGED <<memVars, diskVars, used, ran, crashes>>
  PROVE  \E l : LaterTo(c, l)
<1>0. call[c] \in Locals
  BY LocalsOf DEF TypeInv
<1>1. CASE ~call[c].tidy
  BY <1>1, LaterGoto DEF Reported, Return
<1>2. CASE call[c].tidy
  <2> DEFINE l == [call[c] EXCEPT !.pc = "decide", !.changes = changes]
  <2>1. l \in Locals /\ l.pc = "decide" /\ l.on = call[c].on /\ l.rec = call[c].rec /\ l.force = call[c].force
    BY <1>0 DEF Locals, Steps
  <2>2. call' = [call EXCEPT ![c] = l]
    BY <1>2 DEF Reported
  <2> HIDE DEF l
  <2>3. LaterTo(c, l)
    BY <2>1, <2>2 DEF LaterTo, GoesOn, Looks, memVars, diskVars, Saving, Unbound, Anonymous
  <2> QED
    BY <2>3
<1> QED
  BY <1>1, <1>2

LEMMA LaterSteps == ASSUME TypeInv, NEW c \in Calls, Later(c) PROVE \E l : LaterTo(c, l)
<1> USE DEF memVars, diskVars, fsVars, ghosts
<1>0. /\ call \in [Calls -> Locals] /\ call[c] \in Locals /\ StoreType
      /\ call[c].pc \notin Anonymous => call[c].on \in Sessions
  BY LocalsOf, StoreTyped DEF TypeInv, TypeOK, Locals, CallsOK, CallOK
<1>1. ASSUME NEW where \in {"check", "scan"}
      PROVE  LET m == [call[c] EXCEPT !.pc = where]
             IN  m \in Locals /\ m.pc = where /\ (call[c].pc \notin Unbound => GoesOn(c, m))
  BY <1>0 DEF Locals, Steps, GoesOn, Unbound, Anonymous
<1>2. ASSUME NEW at \in Saving, NEW m, Save(c, at, m, NoCall) \/ Save(c, at, m, m),
             m = NoCall \/ \E where \in {"check", "scan"} : m = [call[c] EXCEPT !.pc = where]
      PROVE  \E l : LaterTo(c, l)
  <2>1. call[c].pc \notin Unbound
    BY <1>2 DEF Save, Saving, Unbound, Anonymous
  <2>2. m \in Locals /\ m.pc \notin Saving /\ (Ends(m) \/ GoesOn(c, m))
    BY <1>1, <1>2, <2>1, NoCallEnds DEF Saving
  <2> QED
    BY <1>2, <2>2, NoCallEnds, LaterSave
<1>3. CASE SaveNew(c) \/ SaveMark(c)
  BY <1>2, <1>3 DEF SaveNew, SaveMark, Saving
<1>4. CASE SaveCheck(c)
  BY <1>2, <1>4 DEF SaveCheck, Saving
<1>5. CASE SaveGit(c)
  BY <1>2, <1>5 DEF SaveGit, Saving
<1>6. CASE CheckRuns(c)
  <2> DEFINE s == call[c].on
             now == Recorded(records[s], call[c].rec, ran[s] + 1)
             l == [call[c] EXCEPT !.pc = "saveCheck", !.out = now]
  <2>1. call[c].pc = "check" /\ s \in Sessions
    BY <1>0, <1>6 DEF CheckRuns, Anonymous
  <2>2. records[s] \in Record /\ ran[s] + 1 \in Nat
    BY <1>0, <2>1 DEF StoreType
  <2>3. now \in Record
    BY <2>2, RecordedType
  <2>4. /\ ran' = [ran EXCEPT ![s] = @ + 1] /\ records' = [records EXCEPT ![s] = now]
        /\ call' = [call EXCEPT ![c] = l] /\ UNCHANGED <<known, used, crashes, saved, disk>>
    BY <1>0, <1>6 DEF CheckRuns
  <2> HIDE DEF now
  <2>5. l \in Locals /\ l.pc = "saveCheck" /\ l.out = now /\ l.on = s /\ l.rec = call[c].rec
        /\ l.force = call[c].force
    BY <1>0, <2>3 DEF Locals, Steps
  <2> HIDE DEF l
  <2>6. GoesOn(c, l)
    BY <2>1, <2>5 DEF GoesOn, Unbound, Anonymous
  <2>7. Checks(c, l)
    BY <2>4, <2>5 DEF Checks, Writes, now
  <2> QED
    BY <2>4, <2>5, <2>6, <2>7 DEF LaterTo, GoesOn
<1>7. CASE VerifyEnds(c)
  BY <1>7, LaterGoto DEF VerifyEnds, Unbound, Anonymous
<1>8. CASE Stat(c)
  <2> DEFINE p == call[c].rec.place
  <2>1. call[c].pc \notin Unbound /\ UNCHANGED <<memVars, diskVars, used, ran, crashes>>
    BY <1>8 DEF Stat, Unbound, Anonymous
  <2>2. \/ call' = [call EXCEPT ![c] = Reported(call[c], FALSE)]
        \/ \E where \in {"discover", "scan"} : Goto(c, where)
    BY <1>0, <1>8 DEF Stat, Goto
  <2> QED
    BY <2>1, <2>2, LaterReport, LaterGoto DEF Saving, Unbound, Anonymous, Steps
<1>9. CASE Scan(c)
  <2>1. call[c].pc \notin Unbound /\ UNCHANGED <<memVars, diskVars, used, ran, crashes>>
    BY <1>9 DEF Scan, Unbound, Anonymous
  <2>2. \/ \E changes \in BOOLEAN : call' = [call EXCEPT ![c] = Reported(call[c], changes)]
        \/ Return(c)
    BY <1>0, <1>9 DEF Scan, Return
  <2> QED
    BY <2>1, <2>2, LaterReport, LaterGoto
<1>10. CASE Decide(c) \/ RemoveTree(c) \/ RemoveBranch(c) \/ CheckEmpty(c) \/ RemoveAll(c)
  <2>1. call[c].pc \notin Unbound /\ UNCHANGED <<memVars, diskVars, used, ran, crashes>>
    BY <1>10 DEF Decide, RemoveTree, RemoveBranch, CheckEmpty, RemoveAll, Unbound, Anonymous
  <2>2. Return(c) \/ \E where \in {"mark", "removeTree", "removeAll", "empty", "removeBranch"} : Goto(c, where)
    <3>1. CASE Decide(c)
      BY <1>0, <3>1 DEF Decide, Goto, Return
    <3>2. CASE RemoveTree(c) \/ RemoveBranch(c) \/ CheckEmpty(c) \/ RemoveAll(c)
      BY <3>2 DEF RemoveTree, RemoveBranch, CheckEmpty, RemoveAll
    <3> QED
      BY <1>10, <3>1, <3>2
  <2> QED
    BY <2>1, <2>2, LaterGoto DEF Saving, Unbound, Anonymous, Steps
<1>11. CASE MarkCleaned(c)
  <2> DEFINE s == call[c].on
             rec == [call[c].rec EXCEPT !.cleaned = TRUE]
             l == [call[c] EXCEPT !.pc = "saveMark", !.out = rec]
  <2>1. call[c].pc = "mark" /\ rec \in Record
    BY <1>0, <1>11, RecordTypes DEF MarkCleaned
  <2>2. /\ records' = [records EXCEPT ![s] = rec] /\ UNCHANGED <<known, used, crashes, saved, disk, ran>>
        /\ call' = [call EXCEPT ![c] = l]
    BY <1>0, <1>11 DEF MarkCleaned
  <2> HIDE DEF rec
  <2>3. l \in Locals /\ l.pc = "saveMark" /\ l.out = rec /\ l.on = s /\ l.rec = call[c].rec
        /\ l.force = call[c].force
    BY <1>0, <2>1 DEF Locals, Steps
  <2> HIDE DEF l
  <2>4. GoesOn(c, l)
    BY <2>1, <2>3 DEF GoesOn, Unbound, Anonymous
  <2>5. Marks(c, l)
    BY <2>1, <2>2, <2>3 DEF Marks, Writes, rec
  <2> QED
    BY <2>2, <2>3, <2>4, <2>5 DEF LaterTo, GoesOn
<1>12. CASE Discover(c)
  <2>1. PICK l : Looking(c, l) /\ Discovers(c, l)
    BY <1>12, DiscoverLooks
  <2>2. GoesOn(c, l) /\ Looks(l)
    BY <2>1 DEF Looking, Discovers, GoesOn, Looks, Saving, Unbound, Anonymous
  <2> QED
    BY <2>1, <2>2 DEF Looking, Discovers, LaterTo, GoesOn
<1>13. CASE RecordGit(c)
  <2>1. PICK l : Looking(c, l) /\ RecordsGit(c, l)
    BY <1>13, RecordGitLooks
  <2>2. GoesOn(c, l)
    BY <2>1 DEF Looking, RecordsGit, GoesOn, Unbound, Anonymous
  <2>3. Looks(l) \/ FindsGit(c, l)
    BY <2>1 DEF RecordsGit, Looks, FindsGit, Writes, Saving
  <2> QED
    BY <2>1, <2>2, <2>3 DEF Looking, RecordsGit, LaterTo, GoesOn
<1> QED
  BY <1>3, <1>4, <1>5, <1>6, <1>7, <1>8, <1>9, <1>10, <1>11, <1>12, <1>13 DEF Later

\* The first steps: a call takes a place or keeps the one it has, or it begins
\* on a session that a client knows.
Takes(l) == /\ l.pc = "opening" /\ ~l.force
            /\ l.rec.place \in Slots => l.rec.place \in used' \ used
Keeps(c, l) == /\ call[c].pc \in Opening /\ l.pc \in Opening
               /\ l.rec.place = call[c].rec.place /\ l.force = call[c].force
StartsOn(l) == /\ l.pc \notin Unbound \cup Saving
               /\ l.on \in known /\ l.rec = records[l.on] /\ ~l.rec.cleaned

First(c) ==
    \/ Open(c) \/ SessionOpened(c) \/ SessionRefused(c) \/ RollbackTree(c) \/ RollbackBranch(c)
    \/ \E s \in Sessions :
         \/ VerifyBegin(c, s) \/ InspectBegin(c, s)
         \/ \E force \in BOOLEAN : CleanupBegin(c, s, force)

FirstTo(c, l) ==
    /\ l \in Locals /\ call' = [call EXCEPT ![c] = l]
    /\ Ends(l) \/ Takes(l) \/ Keeps(c, l) \/ StartsOn(l)
    /\ used \subseteq used' /\ UNCHANGED <<known, records, saved, disk, ran, crashes>>

LEMMA FirstOpen ==
  ASSUME TypeInv, NEW c \in Calls, NEW place \in Places \cup {Source}, NEW git \in BOOLEAN,
         OpensIn(c, place, git), place \in Slots => place \in used' \ used,
         used \subseteq used', UNCHANGED <<known, records, saved, disk, ran, crashes>>
  PROVE  \E l : FirstTo(c, l)
<1> DEFINE rec == [NoRecord EXCEPT !.place = place, !.git = git]
           l == [NoCall EXCEPT !.pc = "opening", !.rec = rec]
<1>1. call' = [call EXCEPT ![c] = l]
  BY DEF OpensIn
<1>2. rec \in Record /\ rec.place = place
  BY RecordTypes DEF NoRecord, Record
<1> HIDE DEF rec
<1>3. l \in Locals
  <2>1. NoRecord \in Record
    BY RecordTypes
  <2> QED
    BY <1>2, <2>1 DEF NoCall, Locals, Steps
<1>4. l.pc = "opening" /\ l.rec = rec /\ ~l.force
  BY DEF NoCall
<1> HIDE DEF l
<1>5. Takes(l)
  BY <1>2, <1>4 DEF Takes
<1>6. FirstTo(c, l)
  BY <1>1, <1>3, <1>5 DEF FirstTo
<1> QED
  BY <1>6

LEMMA FirstGoto ==
  ASSUME TypeInv, NEW c \in Calls, call[c].pc \in Opening,
         Return(c) \/ \E where \in Opening : Goto(c, where),
         used \subseteq used', UNCHANGED <<known, records, saved, disk, ran, crashes>>
  PROVE  \E l : FirstTo(c, l)
<1>0. call \in [Calls -> Locals] /\ call[c] \in Locals
  BY LocalsOf DEF TypeInv, TypeOK, Locals
<1>1. CASE Return(c)
  <2>1. FirstTo(c, NoCall)
    BY <1>1, NoCallEnds DEF Return, FirstTo
  <2> QED
    BY <2>1
<1>2. ASSUME NEW where \in Opening, Goto(c, where) PROVE \E l : FirstTo(c, l)
  <2> DEFINE l == [call[c] EXCEPT !.pc = where]
  <2>1. where \in Steps
    BY <1>2 DEF Opening, Steps
  <2>2. l \in Locals /\ l.pc = where /\ l.rec = call[c].rec /\ l.force = call[c].force
    BY <1>0, <2>1 DEF Locals
  <2>3. call' = [call EXCEPT ![c] = l]
    BY <1>0, <1>2 DEF Goto
  <2> HIDE DEF l
  <2>4. Keeps(c, l)
    BY <1>2, <2>2 DEF Keeps
  <2>5. FirstTo(c, l)
    BY <2>2, <2>3, <2>4 DEF FirstTo
  <2> QED
    BY <2>5
<1> QED
  BY <1>1, <1>2

LEMMA FirstBegin ==
  ASSUME TypeInv, NEW c \in Calls, NEW s \in Sessions, NEW at \in {"check", "stat"},
         NEW tidy \in BOOLEAN, NEW force \in BOOLEAN, Begin(c, s, at, tidy, force),
         ~records[s].cleaned, used \subseteq used', UNCHANGED <<known, records, saved, disk, ran, crashes>>
  PROVE  \E l : FirstTo(c, l)
<1> DEFINE l == [NoCall EXCEPT !.pc = at, !.on = s, !.rec = records[s], !.tidy = tidy, !.force = force]
<1>1. call' = [call EXCEPT ![c] = l] /\ s \in known
  BY DEF Begin
<1>2. records[s] \in Record
  BY StoreTyped DEF StoreType
<1>3. l \in Locals
  <2>1. NoRecord \in Record
    BY RecordTypes
  <2> QED
    BY <1>2, <2>1 DEF NoCall, Locals, Steps
<1>4. l.pc = at /\ l.on = s /\ l.rec = records[s]
  BY DEF NoCall
<1> HIDE DEF l
<1>5. StartsOn(l)
  BY <1>1, <1>4 DEF StartsOn, Unbound, Saving, Anonymous
<1>6. FirstTo(c, l)
  BY <1>1, <1>3, <1>5 DEF FirstTo
<1> QED
  BY <1>6

LEMMA FirstSteps == ASSUME TypeInv, NEW c \in Calls, First(c) PROVE \E l : FirstTo(c, l)
<1> USE DEF memVars, diskVars, fsVars, ghosts
<1>0. call \in [Calls -> Locals] /\ call[c] \in Locals
  BY LocalsOf DEF TypeInv, TypeOK, Locals
<1>1. CASE Open(c)
  <2>1. CASE OpenDirect(c)
    <3>1. Source \in Places \cup {Source} /\ Source \notin Slots
      BY PlacesAssumption
    <3> QED
      BY <2>1, <3>1, FirstOpen DEF OpenDirect
  <2>2. CASE OpenWorktree(c)
    <3>1. PICK p \in Slots \ used : used' = used \cup {p} /\ OpensIn(c, p, TRUE)
      BY <2>2 DEF OpenWorktree
    <3>2. UNCHANGED <<known, records, saved, disk, ran, crashes>>
      BY <2>2 DEF OpenWorktree
    <3> QED
      BY <3>1, <3>2, FirstOpen DEF Places
  <2>3. CASE OpenGreenfield(c)
    <3>1. PICK p \in Paths : OpensIn(c, p, FALSE)
      BY <2>3 DEF OpenGreenfield
    <3>2. p \notin Slots
      BY PlacesAssumption
    <3>3. UNCHANGED <<used, known, records, saved, disk, ran, crashes>>
      BY <2>3 DEF OpenGreenfield
    <3> QED
      BY <3>1, <3>2, <3>3, FirstOpen DEF Places
  <2> QED
    BY <1>1, <2>1, <2>2, <2>3 DEF Open
<1>2. CASE SessionOpened(c)
  <2>1. PICK s \in Sessions : call' = [call EXCEPT ![c].pc = "bind", ![c].on = s]
    BY <1>2 DEF SessionOpened
  <2> DEFINE l == [call[c] EXCEPT !.pc = "bind", !.on = s]
  <2>2. call' = [call EXCEPT ![c] = l]
    BY <1>0, <2>1
  <2>3. l \in Locals /\ l.pc = "bind" /\ l.rec = call[c].rec /\ l.force = call[c].force
    BY <1>0 DEF Locals, Steps
  <2> HIDE DEF l
  <2>4. Keeps(c, l) /\ used \subseteq used' /\ UNCHANGED <<known, records, saved, disk, ran, crashes>>
    BY <1>2, <2>3 DEF SessionOpened, Keeps, Opening
  <2>5. FirstTo(c, l)
    BY <2>2, <2>3, <2>4 DEF FirstTo
  <2> QED
    BY <2>5
<1>3. CASE SessionRefused(c) \/ RollbackTree(c) \/ RollbackBranch(c)
  <2>1. /\ call[c].pc \in Opening
        /\ Return(c) \/ \E where \in Opening : Goto(c, where)
        /\ UNCHANGED <<used, known, records, saved, disk, ran, crashes>>
    BY <1>3 DEF SessionRefused, RollbackTree, RollbackBranch, Opening
  <2> QED
    BY <2>1, FirstGoto
<1>4. ASSUME NEW s \in Sessions,
             VerifyBegin(c, s) \/ InspectBegin(c, s) \/ \E force \in BOOLEAN : CleanupBegin(c, s, force)
      PROVE  \E l : FirstTo(c, l)
  <2>1. /\ \E at \in {"check", "stat"}, tidy \in BOOLEAN, force \in BOOLEAN : Begin(c, s, at, tidy, force)
        /\ ~records[s].cleaned /\ UNCHANGED <<used, known, records, saved, disk, ran, crashes>>
    BY <1>4 DEF VerifyBegin, InspectBegin, CleanupBegin
  <2> QED
    BY <2>1, FirstBegin
<1> QED
  BY <1>1, <1>2, <1>3, <1>4 DEF First

\* A step that no record, file or call takes part in.
Aside == used \subseteq used' /\ UNCHANGED <<known, records, saved, disk, call, ran, crashes>>

LEMMA StepsKnown ==
  ASSUME TypeInv, [Next]_vars
  PROVE  \/ Crash \/ Aside
         \/ \E c \in Calls : Bind(c) \/ \E l : FirstTo(c, l) \/ LaterTo(c, l)
<1>1. ASSUME (\E c \in Calls : AddInterrupted(c)) \/ (\E p \in Places : Outside(p)) \/ UNCHANGED vars
      PROVE  Aside
  BY <1>1 DEF Aside, AddInterrupted, Outside, vars, memVars, diskVars, ghosts
<1>2. ASSUME NEW c \in Calls, First(c) PROVE \E l : FirstTo(c, l)
  BY <1>2, FirstSteps
<1>3. ASSUME NEW c \in Calls, Later(c) PROVE \E l : LaterTo(c, l)
  BY <1>3, LaterSteps
<1> QED
  BY <1>1, <1>2, <1>3 DEF Next, Step, First, Later

-----------------------------------------------------------------------------
(* Copies of records: whatever a call or a file holds is no news            *)

Copies(rec, s) ==
    /\ rec.place = records[s].place
    /\ rec.cleaned => records[s].cleaned
    /\ ~records[s].cleaned => LatestOf(rec) <= ran[s]
CopiesNext(rec, s) ==
    /\ rec.place = records'[s].place
    /\ rec.cleaned => records'[s].cleaned
    /\ ~records'[s].cleaned => LatestOf(rec) <= ran'[s]

CopiesInv ==
    /\ \A s \in saved : Copies(disk[s], s)
    /\ \A c \in Calls : call[c].pc \notin Unbound =>
         /\ Copies(call[c].rec, call[c].on)
         /\ call[c].pc \in Saving => Copies(call[c].out, call[c].on)
    /\ \A c \in Calls : call[c].force => call[c].pc \notin Unbound

LEMMA LatestType == ASSUME NEW rec \in Record PROVE LatestOf(rec) \in Nat
<1>1. rec.checks \in Seq(Nat)
  BY DEF Record
<1>2. ASSUME rec.checks # <<>> PROVE Len(rec.checks) \in 1 .. Len(rec.checks)
  BY <1>1, <1>2
<1> QED
  BY <1>1, <1>2 DEF LatestOf

\* The latest result of an open record is the latest one there was.
LEMMA LatestOfRun ==
  ASSUME NEW rec \in Record, NEW r \in Nat, RunTo(rec, r), ~rec.cleaned
  PROVE  LatestOf(rec) = r
<1> DEFINE n == Len(rec.checks)
<1>1. rec.checks \in Seq(Nat) /\ n \in Nat
  BY DEF Record
<1>2. /\ n < MaxHistory => n = r
      /\ \A i \in 1 .. n : rec.checks[i] = r - n + i
  BY DEF RunTo
<1>3. CASE rec.checks = <<>>
  <2>1. n = 0 /\ 0 < MaxHistory
    BY <1>3, WorkspaceBounds
  <2> QED
    BY <1>2, <1>3, <2>1 DEF LatestOf
<1>4. CASE rec.checks # <<>>
  <2>1. n \in 1 .. n
    BY <1>1, <1>4
  <2>2. rec.checks[n] = r - n + n
    BY <1>2, <2>1
  <2>3. rec.checks[n] = r
    BY <1>1, <2>2
  <2> QED
    BY <1>4, <2>3 DEF LatestOf
<1> QED
  BY <1>3, <1>4

\* A record that is written stays where it is, cleaned if it was, and does not
\* fall behind while it is open.
LEMMA CopiesLast ==
  ASSUME NEW s \in Sessions, records'[s].place = records[s].place,
         records[s].cleaned => records'[s].cleaned,
         ran[s] \in Nat, ran'[s] \in Nat, ran[s] <= ran'[s],
         NEW rec \in Record, Copies(rec, s)
  PROVE  CopiesNext(rec, s)
<1>1. LatestOf(rec) \in Nat
  BY LatestType
<1> QED
  BY <1>1 DEF Copies, CopiesNext

\* How one record may be written by a step that does not end the process.
Kept(s) ==
    /\ records'[s].place = records[s].place
    /\ records[s].cleaned => records'[s].cleaned
    /\ ran[s] <= ran'[s]

LEMMA WritesOne ==
  ASSUME TypeInv, NEW c \in Calls, call[c].on \in Sessions, NEW l, NEW now \in Record, Writes(c, l, now),
         now.place = records[call[c].on].place, records[call[c].on].cleaned => now.cleaned
  PROVE  /\ \A s \in Sessions : s # call[c].on => records'[s] = records[s]
         /\ \A s \in Sessions : /\ records'[s].place = records[s].place
                                /\ records[s].cleaned => records'[s].cleaned
         /\ records'[call[c].on] = now
<1>1. records \in [Sessions -> Record]
  BY DEF TypeInv, TypeOK
<1>2. \A s \in Sessions : records'[s] = IF s = call[c].on THEN now ELSE records[s]
  BY <1>1 DEF Writes
<1> QED
  BY <1>2

LEMMA LaterKeeps ==
  ASSUME TypeInv, OwnInv, HistoryInv, CopiesInv, NEW c \in Calls, NEW l, LaterTo(c, l)
  PROVE  /\ \A s \in Sessions : Kept(s)
         /\ l.pc \in Saving => CopiesNext(l.out, call[c].on)
         /\ \A s \in Sessions : ran[s] \in Nat /\ ran'[s] \in Nat
<1> DEFINE s == call[c].on
<1>0. /\ records \in [Sessions -> Record] /\ ran \in [Sessions -> Nat]
      /\ s \in Sessions /\ records[s] \in Record /\ ran[s] \in Nat
      /\ call[c].rec \in Record
  BY LocalsOf, RecordTypes DEF TypeInv, TypeOK, LaterTo, Unbound, CallsOK, CallOK
<1>1. Copies(call[c].rec, s) /\ RunTo(records[s], ran[s])
  BY <1>0 DEF LaterTo, CopiesInv, HistoryInv
<1> HIDE DEF s
<1>2. CASE Looks(l) \/ Saves(c, l)
  BY <1>0, <1>2 DEF Looks, Saves, Kept
<1>3. CASE FindsGit(c, l)
  <2> DEFINE now == WithGit(records[s])
  <2>1. /\ now \in Record /\ now.place = records[s].place /\ now.cleaned = records[s].cleaned
        /\ now.checks = records[s].checks
    BY <1>0, WithGitType
  <2>2. Writes(c, l, now) /\ ~records[s].cleaned /\ UNCHANGED ran
    BY <1>3 DEF FindsGit, s
  <2>3. LatestOf(now) = ran[s]
    <3>1. LatestOf(records[s]) = ran[s]
      BY <1>0, <1>1, <2>2, LatestOfRun
    <3> HIDE DEF now
    <3> QED
      BY <2>1, <3>1 DEF LatestOf
  <2> HIDE DEF now
  <2>4. /\ \A t \in Sessions : /\ records'[t].place = records[t].place
                               /\ records[t].cleaned => records'[t].cleaned
        /\ records'[s] = now
    BY <1>0, <2>1, <2>2, WritesOne DEF s
  <2>5. l.pc \in Saving => l.out = now
    BY <2>2 DEF Writes
  <2>6. CopiesNext(now, s)
    BY <1>0, <2>2, <2>3, <2>4 DEF CopiesNext
  <2> QED
    BY <1>0, <2>2, <2>4, <2>5, <2>6 DEF Kept, s
<1>4. CASE Checks(c, l)
  <2> DEFINE now == Recorded(records[s], call[c].rec, ran[s] + 1)
  <2>1. now \in Record /\ now.place = records[s].place /\ now.cleaned = records[s].cleaned
    BY <1>0, RecordedType
  <2>2. Writes(c, l, now) /\ ran' = [ran EXCEPT ![s] = @ + 1]
    BY <1>4 DEF Checks, s
  <2>3. RunTo(now, ran[s] + 1)
    BY <1>0, <1>1, RecordedRun
  <2> HIDE DEF now
  <2>4. ~now.cleaned => LatestOf(now) = ran[s] + 1
    BY <1>0, <2>1, <2>3, LatestOfRun
  <2>5. /\ \A t \in Sessions : /\ records'[t].place = records[t].place
                               /\ records[t].cleaned => records'[t].cleaned
        /\ records'[s] = now
    BY <1>0, <2>1, <2>2, WritesOne DEF s
  <2>6. l.pc \in Saving => l.out = now
    BY <2>2 DEF Writes
  <2>7. \A t \in Sessions : ran'[t] = IF t = s THEN ran[s] + 1 ELSE ran[t]
    BY <1>0, <2>2
  <2>8. CopiesNext(now, s)
    BY <1>0, <2>4, <2>5, <2>7 DEF CopiesNext
  <2> QED
    BY <1>0, <2>5, <2>6, <2>7, <2>8 DEF Kept, s
<1>5. CASE Marks(c, l)
  <2> DEFINE now == [call[c].rec EXCEPT !.cleaned = TRUE]
  <2>1. now \in Record /\ now.place = call[c].rec.place /\ now.cleaned
    BY <1>0 DEF Record
  <2>2. Writes(c, l, now) /\ UNCHANGED ran
    BY <1>5 DEF Marks
  <2>3. call[c].rec.place = records[s].place
    BY <1>1 DEF Copies
  <2> HIDE DEF now
  <2>4. /\ \A t \in Sessions : /\ records'[t].place = records[t].place
                               /\ records[t].cleaned => records'[t].cleaned
        /\ records'[s] = now
    BY <1>0, <2>1, <2>2, <2>3, WritesOne DEF s
  <2>5. l.pc \in Saving => l.out = now
    BY <2>2 DEF Writes
  <2>6. CopiesNext(now, s)
    BY <2>1, <2>4 DEF CopiesNext
  <2> QED
    BY <1>0, <2>2, <2>4, <2>5, <2>6 DEF Kept, s
<1> QED
  BY <1>2, <1>3, <1>4, <1>5 DEF LaterTo

\* What CopiesInv says of a call and its locals.
CallCopies(l) ==
    /\ l.pc \notin Unbound => /\ Copies(l.rec, l.on)
                              /\ l.pc \in Saving => Copies(l.out, l.on)
    /\ l.force => l.pc \notin Unbound
CallCopiesNext(l) ==
    /\ l.pc \notin Unbound => /\ CopiesNext(l.rec, l.on)
                              /\ l.pc \in Saving => CopiesNext(l.out, l.on)
    /\ l.force => l.pc \notin Unbound

LEMMA CopiesStep ==
  ASSUME TypeInv, CopiesInv, NEW c \in Calls, NEW l, call' = [call EXCEPT ![c] = l],
         \A s \in Sessions : Kept(s) /\ ran[s] \in Nat /\ ran'[s] \in Nat,
         CallCopiesNext(l), \A s \in saved' : CopiesNext(disk'[s], s)
  PROVE  CopiesInv'
<1>0. call \in [Calls -> Locals]
  BY DEF TypeInv, TypeOK, Locals
<1>1. ASSUME NEW d \in Calls PROVE CallCopiesNext(call[d])
  <2>1. call[d].pc \notin Unbound => call[d].on \in Sessions
    BY DEF TypeInv, CallsOK, CallOK, Unbound
  <2>2. call[d].rec \in Record /\ call[d].out \in Record
    BY LocalsOf, RecordTypes DEF TypeInv
  <2> QED
    BY <2>1, <2>2, CopiesLast DEF CopiesInv, CallCopiesNext, Kept
<1>2. \A d \in Calls : CallCopiesNext(call'[d])
  BY <1>0, <1>1
<1>3. \A s \in saved' : Copies(disk[s], s)'
  BY DEF Copies, CopiesNext
<1>4. ASSUME NEW d \in Calls
      PROVE  /\ call'[d].pc \notin Unbound =>
                  /\ Copies(call[d].rec, call[d].on)'
                  /\ call'[d].pc \in Saving => Copies(call[d].out, call[d].on)'
             /\ call'[d].force => call'[d].pc \notin Unbound
  BY <1>2 DEF CallCopiesNext, Copies, CopiesNext
<1> QED
  BY <1>3, <1>4 DEF CopiesInv

LEMMA CopiesSaved ==
  ASSUME TypeInv, OwnInv, CopiesInv, \A s \in Sessions : Kept(s) /\ ran[s] \in Nat /\ ran'[s] \in Nat
  PROVE  \A s \in saved : CopiesNext(disk[s], s)
<1> TAKE s \in saved
<1>1. s \in Sessions /\ disk[s] \in Record
  BY DEF TypeInv, TypeOK
<1> QED
  BY <1>1, CopiesLast DEF CopiesInv, Kept

LEMMA CopiesPreserved == ASSUME TypeInv, OwnInv, HistoryInv, CopiesInv, [Next]_vars PROVE CopiesInv'
<1>0. /\ call \in [Calls -> Locals] /\ records \in [Sessions -> Record] /\ ran \in [Sessions -> Nat]
      /\ disk \in [Sessions -> Record] /\ saved \subseteq Sessions /\ known \subseteq Sessions
      /\ \A d \in Calls : call[d].pc \notin Unbound => call[d].on \in Sessions
      /\ \A d \in Calls : call[d].rec \in Record
  BY LocalsOf, RecordTypes DEF TypeInv, TypeOK, Locals, CallsOK, CallOK, Unbound
<1>1. CASE Aside
  BY <1>1 DEF Aside, CopiesInv, Copies
<1>2. ASSUME NEW c \in Calls, NEW l, FirstTo(c, l) PROVE CopiesInv'
  <2>1. UNCHANGED <<records, saved, disk, ran>> /\ call' = [call EXCEPT ![c] = l]
    BY <1>2 DEF FirstTo
  <2>2. \A s \in Sessions : Kept(s) /\ ran[s] \in Nat /\ ran'[s] \in Nat
    BY <1>0, <2>1 DEF Kept
  <2>3. \A s \in saved' : CopiesNext(disk'[s], s)
    BY <2>1, <2>2, CopiesSaved
  <2>4. CASE Ends(l) \/ Takes(l)
    BY <2>1, <2>2, <2>3, <2>4, CopiesStep DEF CallCopiesNext, Ends, Takes, Unbound, Anonymous
  <2>5. CASE Keeps(c, l)
    <3>1. ~call[c].force
      BY <2>5 DEF Keeps, CopiesInv, Opening, Unbound, Anonymous
    <3> QED
      BY <2>1, <2>2, <2>3, <2>5, <3>1, CopiesStep DEF CallCopiesNext, Keeps, Opening, Unbound, Anonymous
  <2>6. CASE StartsOn(l)
    <3> DEFINE s == l.on
    <3>1. /\ s \in Sessions /\ l.rec = records[s] /\ ~records[s].cleaned
          /\ l.pc \notin Unbound /\ l.pc \notin Saving
      BY <1>0, <2>6 DEF StartsOn
    <3>2. LatestOf(records[s]) = ran[s]
      BY <1>0, <3>1, LatestOfRun DEF HistoryInv
    <3>3. CallCopiesNext(l)
      BY <1>0, <2>1, <3>1, <3>2 DEF CallCopiesNext, CopiesNext
    <3> QED
      BY <2>1, <2>2, <2>3, <3>3, CopiesStep
  <2> QED
    BY <1>2, <2>4, <2>5, <2>6 DEF FirstTo
<1>3. ASSUME NEW c \in Calls, NEW l, LaterTo(c, l) PROVE CopiesInv'
  <2> DEFINE s == call[c].on
  <2>1. /\ \A t \in Sessions : Kept(t) /\ ran[t] \in Nat /\ ran'[t] \in Nat
        /\ l.pc \in Saving => CopiesNext(l.out, s)
    BY <1>3, LaterKeeps
  <2>2. /\ call' = [call EXCEPT ![c] = l] /\ s \in Sessions /\ call[c].rec \in Record
        /\ Copies(call[c].rec, s)
    BY <1>0, <1>3 DEF LaterTo, CopiesInv
  <2>3. CopiesNext(call[c].rec, s)
    BY <2>1, <2>2, CopiesLast DEF Kept
  <2>4. CallCopiesNext(l)
    <3>1. CASE Ends(l)
      BY <3>1 DEF CallCopiesNext, Ends, Unbound, Anonymous
    <3>2. CASE GoesOn(c, l)
      BY <2>1, <2>3, <3>2 DEF CallCopiesNext, CopiesNext, GoesOn, LatestOf
    <3> QED
      BY <1>3, <3>1, <3>2 DEF LaterTo
  <2>5. \A t \in saved : CopiesNext(disk[t], t)
    BY <2>1, CopiesSaved
  <2>6. \A t \in saved' : CopiesNext(disk'[t], t)
    <3>1. CASE Saves(c, l)
      <4>1. Copies(call[c].out, s)
        BY <1>3, <3>1 DEF LaterTo, Saves, CopiesInv
      <4>2. call[c].out \in Record
        BY LocalsOf, RecordTypes DEF TypeInv
      <4>3. CopiesNext(call[c].out, s)
        BY <2>1, <2>2, <4>1, <4>2, CopiesLast DEF Kept
      <4> HIDE DEF s
      <4>4. saved' = saved \cup {s} /\ disk' = [disk EXCEPT ![s] = call[c].out]
        BY <3>1 DEF Saves, s
      <4> QED
        BY <1>0, <2>2, <2>5, <4>3, <4>4
    <3>2. CASE UNCHANGED <<saved, disk>>
      BY <2>5, <3>2
    <3> QED
      BY <1>3, <3>1, <3>2 DEF LaterTo, Looks, FindsGit, Checks, Marks, Writes
  <2> QED
    BY <2>1, <2>2, <2>4, <2>6, CopiesStep
<1>4. ASSUME NEW c \in Calls, Bind(c) PROVE CopiesInv'
  <2> DEFINE s == call[c].on
             l == [call[c] EXCEPT !.pc = "saveNew", !.out = call[c].rec]
  <2>1. /\ call[c].pc = "bind" /\ s \in Sessions /\ s \notin known
        /\ records' = [records EXCEPT ![s] = call[c].rec] /\ call' = [call EXCEPT ![c] = l]
        /\ UNCHANGED <<saved, disk, ran>>
    BY <1>0, <1>4 DEF Bind, OwnInv, diskVars, TypeInv, CallsOK, CallOK, Anonymous
  <2>2. l.pc = "saveNew" /\ l.rec = call[c].rec /\ l.out = call[c].rec /\ l.on = s
        /\ l.force = call[c].force
    BY <1>0 DEF Locals
  <2>3. Fresh(call[c].rec) /\ ran[s] \in Nat
    BY <1>0, <2>1 DEF HistoryInv
  <2>4. CopiesNext(call[c].rec, s)
    BY <1>0, <2>1, <2>3 DEF CopiesNext, Fresh, LatestOf
  <2> HIDE DEF l
  <2>5. \A t \in saved : t # s /\ CopiesNext(disk[t], t)
    BY <1>0, <2>1 DEF CopiesInv, Copies, CopiesNext, OwnInv
  <2>6. \A d \in Calls : call[d].pc \notin Unbound => call[d].on # s
    BY <2>1 DEF OwnInv
  <2>7. ASSUME NEW d \in Calls PROVE CallCopiesNext(call'[d])
    <3>1. CASE d = c
      <4>1. call'[d] = l
        BY <1>0, <2>1, <3>1
      <4> QED
        BY <2>2, <2>4, <4>1 DEF CallCopiesNext, Unbound, Anonymous
    <3>2. CASE d # c
      <4>1. call'[d] = call[d] /\ CallCopies(call[d])
        BY <2>1, <3>2 DEF CopiesInv, CallCopies
      <4>2. ASSUME call[d].pc \notin Unbound
            PROVE  records'[call[d].on] = records[call[d].on] /\ ran'[call[d].on] = ran[call[d].on]
        BY <1>0, <2>1, <2>6, <4>2
      <4> QED
        BY <4>1, <4>2 DEF CallCopies, CallCopiesNext, Copies, CopiesNext
    <3> QED
      BY <3>1, <3>2
  <2>8. \A t \in saved' : Copies(disk[t], t)'
    BY <2>1, <2>5 DEF Copies, CopiesNext
  <2>9. ASSUME NEW d \in Calls
        PROVE  /\ call'[d].pc \notin Unbound =>
                    /\ Copies(call[d].rec, call[d].on)'
                    /\ call'[d].pc \in Saving => Copies(call[d].out, call[d].on)'
               /\ call'[d].force => call'[d].pc \notin Unbound
    BY <2>7 DEF CallCopiesNext, Copies, CopiesNext
  <2> QED
    BY <2>8, <2>9 DEF CopiesInv
<1>5. CASE Crash
  <2>1. /\ records' = disk /\ UNCHANGED <<saved, disk>>
        /\ \A c \in Calls : call'[c] = NoCall
        /\ \A s \in Sessions : ran'[s] = LatestOf(disk[s])
    BY <1>5 DEF Crash, diskVars, LatestOf
  <2>2. \A s \in saved' : Copies(disk[s], s)'
    BY <1>0, <2>1, LatestType DEF Copies, LatestOf
  <2> QED
    BY <2>1, <2>2 DEF CopiesInv, NoCall, Unbound, Anonymous
<1> QED
  BY <1>1, <1>2, <1>3, <1>4, <1>5, StepsKnown

LEMMA FirstCopies == Init => CopiesInv
  BY DEF Init, CopiesInv, NoCall, Unbound, Anonymous

-----------------------------------------------------------------------------
(* A worktree is one session's, or one Open's that has none yet             *)

SlotsOnce ==
    /\ \A p \in Slots : \A c \in Calls : Opens(c, p) =>
         /\ p \in used
         /\ \A s \in known : records[s].place # p
         /\ \A d \in Calls : Opens(d, p) => c = d
    /\ \A s \in known : records[s].place \in Slots =>
         /\ records[s].place \in used
         /\ \A t \in known : records[t].place = records[s].place => s = t

\* No place is taken, and no session bound.
LEMMA SlotsStep ==
  ASSUME TypeInv, SlotsOnce, used \subseteq used', known' = known,
         \A s \in known : records'[s].place = records[s].place,
         \A d \in Calls, p \in Slots : Opens(d, p)' => Opens(d, p)
  PROVE  SlotsOnce'
  BY DEF SlotsOnce

LEMMA SlotsPreserved ==
  ASSUME TypeInv, OwnInv, HistoryInv, CopiesInv, SlotsOnce, [Next]_vars PROVE SlotsOnce'
<1>0. /\ call \in [Calls -> Locals] /\ records \in [Sessions -> Record]
      /\ saved \subseteq Sessions /\ known \subseteq Sessions
  BY DEF TypeInv, TypeOK, Locals
<1>1. CASE Aside
  BY <1>1, SlotsStep DEF Aside, Opens
<1>2. ASSUME NEW c \in Calls, NEW l, FirstTo(c, l) PROVE SlotsOnce'
  <2>1. /\ UNCHANGED <<records, known>> /\ used \subseteq used'
        /\ \A d \in Calls : call'[d] = IF d = c THEN l ELSE call[d]
    BY <1>0, <1>2 DEF FirstTo
  <2>2. CASE Ends(l) \/ StartsOn(l)
    <3>1. l.pc \notin Opening
      BY <2>2 DEF Ends, StartsOn, Opening, Unbound, Anonymous
    <3>2. \A d \in Calls, p \in Slots : Opens(d, p)' => Opens(d, p)
      BY <2>1, <3>1 DEF Opens
    <3> QED
      BY <2>1, <3>2, SlotsStep
  <2>3. CASE Keeps(c, l)
    <3>1. \A d \in Calls, p \in Slots : Opens(d, p)' => Opens(d, p)
      BY <2>1, <2>3 DEF Opens, Keeps
    <3> QED
      BY <2>1, <3>1, SlotsStep
  <2>4. CASE Takes(l)
    <3>1. \A d \in Calls, p \in Slots : Opens(d, p)' =>
             IF d = c THEN l.rec.place = p ELSE Opens(d, p)
      BY <2>1 DEF Opens
    <3>2. \A p \in Slots : l.rec.place = p =>
             /\ p \in used' /\ \A s \in known : records[s].place # p
             /\ \A d \in Calls : ~Opens(d, p)
      BY <2>4 DEF Takes, SlotsOnce
    <3>3. ASSUME NEW p \in Slots, NEW d \in Calls, Opens(d, p)'
          PROVE  /\ p \in used'
                 /\ \A s \in known' : records'[s].place # p
                 /\ \A e \in Calls : Opens(e, p)' => d = e
      <4>1. CASE l.rec.place = p
        BY <2>1, <3>1, <3>2, <3>3, <4>1
      <4>2. CASE l.rec.place # p
        BY <2>1, <3>1, <3>3, <4>2 DEF SlotsOnce
      <4> QED
        BY <4>1, <4>2
    <3> QED
      BY <2>1, <3>3 DEF SlotsOnce
  <2> QED
    BY <1>2, <2>2, <2>3, <2>4 DEF FirstTo
<1>3. ASSUME NEW c \in Calls, NEW l, LaterTo(c, l) PROVE SlotsOnce'
  <2>1. /\ UNCHANGED <<known, used>> /\ l.pc \notin Opening
        /\ \A d \in Calls : call'[d] = IF d = c THEN l ELSE call[d]
    BY <1>0, <1>3 DEF LaterTo, Ends, GoesOn, Opening, Unbound, Anonymous
  <2>2. \A s \in known : records'[s].place = records[s].place
    BY <1>0, <1>3, LaterKeeps DEF Kept
  <2>3. \A d \in Calls, p \in Slots : Opens(d, p)' => Opens(d, p)
    BY <2>1 DEF Opens
  <2> QED
    BY <2>1, <2>2, <2>3, SlotsStep
<1>4. ASSUME NEW c \in Calls, Bind(c) PROVE SlotsOnce'
  <2> DEFINE s == call[c].on
             l == [call[c] EXCEPT !.pc = "saveNew", !.out = call[c].rec]
  <2>1. /\ call[c].pc = "bind" /\ s \in Sessions /\ s \notin known
        /\ records' = [records EXCEPT ![s] = call[c].rec] /\ call' = [call EXCEPT ![c] = l]
        /\ known' = known \cup {s} /\ used' = used
    BY <1>0, <1>4 DEF Bind, OwnInv, TypeInv, CallsOK, CallOK, Anonymous
  <2>2. l.pc = "saveNew"
    BY <1>0 DEF Locals
  <2>3. /\ \A t \in known : t # s /\ records'[t] = records[t]
        /\ records'[s].place = call[c].rec.place
    BY <1>0, <2>1
  <2>4. \A d \in Calls, p \in Slots : Opens(d, p)' => Opens(d, p) /\ d # c
    BY <1>0, <2>1, <2>2 DEF Opens, Opening
  <2>5. \A p \in Slots : call[c].rec.place = p => Opens(c, p)
    BY <2>1 DEF Opens, Opening
  <2> HIDE DEF l, s
  <2>6. ASSUME NEW p \in Slots, NEW d \in Calls, Opens(d, p)'
        PROVE  /\ p \in used'
               /\ \A t \in known' : records'[t].place # p
               /\ \A e \in Calls : Opens(e, p)' => d = e
    BY <2>1, <2>3, <2>4, <2>5, <2>6 DEF SlotsOnce
  <2>7. ASSUME NEW t \in known', records'[t].place \in Slots
        PROVE  /\ records'[t].place \in used'
               /\ \A u \in known' : records'[u].place = records'[t].place => t = u
    BY <2>1, <2>3, <2>5, <2>7 DEF SlotsOnce
  <2> QED
    BY <2>6, <2>7 DEF SlotsOnce
<1>5. CASE Crash
  <2>1. /\ records' = disk /\ known' = saved /\ used' = used
        /\ \A c \in Calls : call'[c] = NoCall
    BY <1>5 DEF Crash
  <2>2. saved \subseteq known /\ \A s \in saved : disk[s].place = records[s].place
    BY DEF OwnInv, CopiesInv, Copies
  <2>3. \A d \in Calls, p \in Slots : ~Opens(d, p)'
    BY <2>1 DEF Opens, Opening, NoCall
  <2> QED
    BY <2>1, <2>2, <2>3 DEF SlotsOnce
<1> QED
  BY <1>1, <1>2, <1>3, <1>4, <1>5, StepsKnown

LEMMA FirstSlots == Init => SlotsOnce
  BY DEF Init, SlotsOnce, Opens, Opening, NoCall

-----------------------------------------------------------------------------
(* What WorkspaceLifecycle sees of a step                                    *)

\* A worktree id that was not handed out has nothing on disk.
UnusedBare == \A p \in Slots \ used : tree[p] = "none" /\ history[p] = "none"

LEMMA UnusedStaysBare == ASSUME TypeInv, UnusedBare, [Next]_vars PROVE UnusedBare'
<1> USE StoreTyped DEF UnusedBare, StoreType, Places, memVars, diskVars, fsVars, ghosts
<1>1. CASE UNCHANGED <<tree, history>> /\ used \subseteq used'
  BY <1>1
<1>2. ASSUME NEW q \in Places, Outside(q) PROVE UnusedBare'
  BY <1>2 DEF Outside, Works, InitsRepository, Commits, Vanishes, Present
<1>3. ASSUME NEW c \in Calls, OpenWorktree(c) \/ AddInterrupted(c) PROVE UnusedBare'
  <2>1. ASSUME NEW p \in Slots, used' = used \cup {p},
               \A q \in Slots \ {p} : tree'[q] = tree[q] /\ history'[q] = history[q]
        PROVE  UnusedBare'
    BY <2>1
  <2>2. CASE OpenWorktree(c)
    BY <2>1, <2>2 DEF OpenWorktree
  <2>3. CASE AddInterrupted(c)
    <3>1. PICK p \in Slots \ used :
             /\ used' = used \cup {p}
             /\ tree' \in {tree, [tree EXCEPT ![p] = "clean"]}
             /\ history' = [history EXCEPT ![p] = "base"]
      BY <2>3 DEF AddInterrupted
    <3>2. \A q \in Slots \ {p} : tree'[q] = tree[q] /\ history'[q] = history[q]
      BY <3>1
    <3> QED
      BY <2>1, <3>1, <3>2
  <2> QED
    BY <1>3, <2>2, <2>3
<1>4. ASSUME NEW c \in Calls, OpenGreenfield(c) PROVE UnusedBare'
  BY <1>4, PlacesAssumption DEF OpenGreenfield
<1>5. ASSUME NEW c \in Calls, SessionOpened(c) PROVE UNCHANGED <<tree, history>> /\ used \subseteq used'
  BY <1>5 DEF SessionOpened
<1>6. ASSUME NEW c \in Calls, RollbackTree(c) \/ RollbackBranch(c) \/ RemoveTree(c)
                              \/ RemoveBranch(c) \/ RemoveAll(c)
      PROVE  UnusedBare'
  <2>1. CASE RollbackTree(c) BY <2>1 DEF RollbackTree
  <2>2. CASE RollbackBranch(c) BY <2>2 DEF RollbackBranch
  <2>3. CASE RemoveTree(c) BY <2>3 DEF RemoveTree
  <2>4. CASE RemoveBranch(c) BY <2>4 DEF RemoveBranch
  <2>5. CASE RemoveAll(c) BY <2>5 DEF RemoveAll
  <2> QED
    BY <1>6, <2>1, <2>2, <2>3, <2>4, <2>5
<1>7. ASSUME NEW c \in Calls,
             \/ OpenDirect(c) \/ SessionRefused(c) \/ Bind(c) \/ SaveNew(c)
             \/ CheckRuns(c) \/ SaveCheck(c) \/ VerifyEnds(c)
             \/ Stat(c) \/ Discover(c) \/ RecordGit(c) \/ SaveGit(c) \/ Scan(c)
             \/ Decide(c) \/ CheckEmpty(c) \/ MarkCleaned(c) \/ SaveMark(c)
      PROVE  UNCHANGED <<tree, history, used>>
  BY <1>7 DEF OpenDirect, SessionRefused, Bind, SaveNew, CheckRuns, SaveCheck, VerifyEnds,
              Stat, Discover, RecordGit, SaveGit, Scan, Decide, CheckEmpty, MarkCleaned, SaveMark, Save
<1>8. ASSUME NEW c \in Calls, NEW s \in Sessions,
             VerifyBegin(c, s) \/ InspectBegin(c, s) \/ \E force \in BOOLEAN : CleanupBegin(c, s, force)
      PROVE  UNCHANGED <<tree, history, used>>
  BY <1>8 DEF VerifyBegin, InspectBegin, CleanupBegin
<1>9. ASSUME Crash \/ UNCHANGED vars PROVE UNCHANGED <<tree, history, used>>
  BY <1>9 DEF Crash, vars
<1> HIDE DEF UnusedBare, StoreType, Places, memVars, diskVars, fsVars, ghosts
<1> QED
  BY <1>1, <1>2, <1>3, <1>4, <1>5, <1>6, <1>7, <1>8, <1>9 DEF Next, Open, Step

AbstractStep == [Lifecycle!Next]_(Lifecycle!vars)

SameView ==
    /\ known' = known
    /\ \A s \in Sessions : /\ records'[s].place = records[s].place
                           /\ records'[s].cleaned = records[s].cleaned
                           /\ records'[s].checks = records[s].checks

LEMMA ViewSame == ASSUME SameView PROVE UNCHANGED <<State, Place, Results>>
<1>1. \A s \in Sessions : LatestOf(records'[s]) = LatestOf(records[s])
  BY DEF SameView, LatestOf
<1>2. State' = State
  BY DEF SameView, State, WorkspaceOf
<1>3. Place' = Place
  BY DEF SameView, Place
<1>4. Results' = Results
  BY <1>1 DEF SameView, Results, LatestOf
<1> QED
  BY <1>2, <1>3, <1>4

LEMMA ContentSame == ASSUME UNCHANGED <<tree, history>> PROVE Content' = Content
  BY DEF Content, ContentOf, OnDisk

\* Who is being cleaned with force changes with the call that steps.
LEMMA ForcedStep ==
  ASSUME TypeInv, NEW c \in Calls, NEW l, call' = [call EXCEPT ![c] = l]
  PROVE  /\ l.force = call[c].force /\ l.on = call[c].on => ForcedNow' = ForcedNow
         /\ ~l.force /\ ~call[c].force => ForcedNow' = ForcedNow
         /\ ~l.force => ForcedNow' \in {ForcedNow, ForcedNow \ {call[c].on}}
         /\ ~call[c].force => ForcedNow' \in {ForcedNow, ForcedNow \cup {l.on}}
<1>0. call \in [Calls -> Locals]
  BY DEF TypeInv, TypeOK, Locals
<1>1. \A d \in Calls : call'[d] = IF d = c THEN l ELSE call[d]
  BY <1>0
<1>2. \A s : s \in ForcedNow' <=> s \in Sessions /\ \E d \in Calls : call'[d].force /\ call'[d].on = s
  BY DEF ForcedNow
<1>3. \A s : s \in ForcedNow <=> s \in Sessions /\ \E d \in Calls : call[d].force /\ call[d].on = s
  BY DEF ForcedNow
<1>4. ASSUME l.force = call[c].force, l.on = call[c].on PROVE ForcedNow' = ForcedNow
  BY <1>1, <1>4 DEF ForcedNow
<1>5. ASSUME ~l.force, ~call[c].force PROVE ForcedNow' = ForcedNow
  BY <1>1, <1>5 DEF ForcedNow
<1>6. ASSUME ~l.force PROVE ForcedNow' \in {ForcedNow, ForcedNow \ {call[c].on}}
  <2>1. ForcedNow \ {call[c].on} \subseteq ForcedNow' /\ ForcedNow' \subseteq ForcedNow
    BY <1>1, <1>2, <1>3, <1>6
  <2> QED
    BY <2>1
<1>7. ASSUME ~call[c].force PROVE ForcedNow' \in {ForcedNow, ForcedNow \cup {l.on}}
  <2>1. ForcedNow \subseteq ForcedNow' /\ ForcedNow' \subseteq ForcedNow \cup {l.on}
    BY <1>1, <1>2, <1>3, <1>7
  <2> QED
    BY <2>1
<1> QED
  BY <1>4, <1>5, <1>6, <1>7

LifeInv == OwnInv /\ GoneInv /\ HistoryInv /\ StrayInv /\ CopiesInv /\ SlotsOnce /\ UnusedBare

RecordsSeen == <<State, Place, Results>>

LEMMA AbstractSame ==
  ASSUME UNCHANGED <<RecordsSeen, Content, ForcedNow, crashes>> PROVE AbstractStep
  BY DEF AbstractStep, RecordsSeen, Lifecycle!vars

LEMMA AbstractForce ==
  ASSUME NEW s \in Sessions, s \in known, UNCHANGED <<RecordsSeen, Content, crashes>>,
         ForcedNow' \in {ForcedNow, ForcedNow \cup {s}, ForcedNow \ {s}}
  PROVE  AbstractStep
<1>1. CASE ForcedNow' = ForcedNow
  BY <1>1, AbstractSame
<1>2. CASE ForcedNow' # ForcedNow
  <2>1. State[s] # "none"
    BY DEF State, WorkspaceOf
  <2>2. Lifecycle!Force(s)
    BY <1>2, <2>1 DEF Lifecycle!Force, RecordsSeen
  <2> QED
    BY <2>2 DEF AbstractStep, Lifecycle!Next
<1> QED
  BY <1>1, <1>2

LEMMA ContentStep ==
  ASSUME NEW p \in Places,
         \A q \in Places : q # p => tree'[q] = tree[q] /\ history'[q] = history[q]
  PROVE  /\ Content \in [Places -> {"none", "base", "ahead"}]
         /\ Content[p] = ContentOf(p)
         /\ Content' = [Content EXCEPT ![p] = IF tree'[p] = "none" /\ history'[p] = "none" THEN "none"
                                              ELSE IF history'[p] = "ahead" THEN "ahead" ELSE "base"]
  BY DEF Content, ContentOf, OnDisk

\* Something is made, changed or removed in one place, and no record or call
\* that the lifecycle sees changes with it.
LEMMA AbstractContent ==
  ASSUME TypeInv, NEW p \in Places,
         \A q \in Places : q # p => tree'[q] = tree[q] /\ history'[q] = history[q],
         UNCHANGED <<RecordsSeen, ForcedNow, crashes>>,
         \/ UNCHANGED <<tree, history>>
         \* made
         \/ /\ tree[p] = "none" /\ history[p] = "none" /\ history'[p] # "ahead"
            /\ tree'[p] # "none" \/ history'[p] # "none"
            /\ p \in Slots => p \notin used /\ SlotsOnce
         \* changed
         \/ OnDisk(p) /\ history[p] # "ahead" /\ (tree'[p] # "none" \/ history'[p] # "none")
         \/ history[p] = "ahead" /\ history'[p] = "ahead"
         \* removed
         \/ /\ tree'[p] = "none" /\ history'[p] = "none"
            /\ p \in Slots => \A s \in known : records[s].place = p =>
                 /\ ~records[s].cleaned
                 /\ history[p] = "ahead" => s \in ForcedNow
  PROVE  AbstractStep
<1> DEFINE new == IF tree'[p] = "none" /\ history'[p] = "none" THEN "none"
                  ELSE IF history'[p] = "ahead" THEN "ahead" ELSE "base"
<1>1. /\ Content \in [Places -> {"none", "base", "ahead"}] /\ Content[p] = ContentOf(p)
      /\ Content' = [Content EXCEPT ![p] = new]
  BY ContentStep
<1> HIDE DEF new
<1>2. CASE Content' = Content
  BY <1>2, AbstractSame
<1>3. CASE Content[p] = "base" /\ new = "ahead"
  <2>1. Lifecycle!Commit(p)
    BY <1>1, <1>3 DEF Lifecycle!Commit, RecordsSeen
  <2> QED
    BY <2>1 DEF AbstractStep, Lifecycle!Next, Lifecycle!Places, Places
<1>4. \A s \in Sessions : Lifecycle!Bound(s, p) => s \in known /\ records[s].place = p
  BY DEF Lifecycle!Bound, State, Place, WorkspaceOf
<1>5. CASE Content[p] = "none" /\ new = "base" /\ (p \in Slots => p \notin used /\ SlotsOnce)
  <2>1. p \in Slots => \A s \in Sessions : ~Lifecycle!Bound(s, p)
    BY <1>4, <1>5 DEF SlotsOnce
  <2>2. Lifecycle!Make(p)
    BY <1>1, <1>5, <2>1 DEF Lifecycle!Make, RecordsSeen
  <2> QED
    BY <2>2 DEF AbstractStep, Lifecycle!Next, Lifecycle!Places, Places
<1>6. CASE /\ tree'[p] = "none" /\ history'[p] = "none"
           /\ p \in Slots => \A s \in known : records[s].place = p =>
                /\ ~records[s].cleaned
                /\ history[p] = "ahead" => s \in ForcedNow
  <2>1. new = "none" /\ (Content[p] = "ahead" => history[p] = "ahead")
    BY <1>1, <1>6 DEF new, ContentOf
  <2>2. \A s \in Sessions : s \in known /\ ~records[s].cleaned => State[s] = "open"
    BY DEF State, WorkspaceOf
  <2>3. p \in Slots => \A s \in Sessions : Lifecycle!Bound(s, p) =>
            State[s] = "open" /\ (Content[p] = "ahead" => s \in ForcedNow)
    BY <1>4, <1>6, <2>1, <2>2
  <2>4. Lifecycle!Drop(p)
    BY <1>1, <2>1, <2>3 DEF Lifecycle!Drop, RecordsSeen
  <2> QED
    BY <2>4 DEF AbstractStep, Lifecycle!Next, Lifecycle!Places, Places
<1>7. CASE UNCHANGED <<tree, history>>
  BY <1>2, <1>7, ContentSame
<1>8. CASE /\ tree[p] = "none" /\ history[p] = "none" /\ history'[p] # "ahead"
           /\ tree'[p] # "none" \/ history'[p] # "none"
           /\ p \in Slots => p \notin used /\ SlotsOnce
  BY <1>1, <1>5, <1>8 DEF new, ContentOf, OnDisk
<1>9. CASE OnDisk(p) /\ history[p] # "ahead" /\ (tree'[p] # "none" \/ history'[p] # "none")
  <2>1. Content[p] = "base" /\ new \in {"base", "ahead"}
    BY <1>1, <1>9 DEF new, ContentOf
  <2>2. CASE new = "base"
    BY <1>1, <1>2, <2>1, <2>2
  <2> QED
    BY <1>3, <2>1, <2>2
<1>10. CASE history[p] = "ahead" /\ history'[p] = "ahead"
  <2>1. Content[p] = "ahead" /\ new = "ahead"
    BY <1>1, <1>10 DEF new, ContentOf, OnDisk
  <2> QED
    BY <1>1, <1>2, <2>1
<1> QED
  BY <1>6, <1>7, <1>8, <1>9, <1>10

LEMMA ViewUnchanged == ASSUME UNCHANGED <<known, records>> PROVE UNCHANGED RecordsSeen
  BY ViewSame DEF SameView, RecordsSeen

LEMMA FirstForced ==
  ASSUME TypeInv, CopiesInv, NEW c \in Calls, NEW l, FirstTo(c, l), call[c].pc \in Unbound
  PROVE  /\ UNCHANGED <<RecordsSeen, crashes>>
         /\ l.pc \in Unbound => ForcedNow' = ForcedNow
         /\ l.pc \notin Unbound => l.on \in known
                                   /\ ForcedNow' \in {ForcedNow, ForcedNow \cup {l.on}}
<1>1. call' = [call EXCEPT ![c] = l] /\ UNCHANGED <<known, records, crashes>>
  BY DEF FirstTo
<1>2. ~call[c].force
  BY DEF CopiesInv
<1>3. l.pc \in Unbound => ~l.force
  BY <1>2 DEF FirstTo, Ends, Takes, Keeps, StartsOn
<1>4. l.pc \notin Unbound => l.on \in known
  BY DEF FirstTo, Ends, Takes, Keeps, StartsOn, Opening, Unbound, Anonymous
<1> QED
  BY <1>1, <1>2, <1>3, <1>4, ForcedStep, ViewUnchanged

LEMMA OpensAt ==
  ASSUME TypeInv, NEW c \in Calls, NEW place, NEW git, OpensIn(c, place, git)
  PROVE  call'[c].pc = "opening"
<1> DEFINE l == [NoCall EXCEPT !.pc = "opening", !.rec = [NoRecord EXCEPT !.place = place, !.git = git]]
<1>1. call' = [call EXCEPT ![c] = l]
  BY DEF OpensIn
<1>2. l.pc = "opening"
  BY DEF NoCall
<1> HIDE DEF l
<1> QED
  BY <1>1, <1>2 DEF TypeInv, TypeOK

LEMMA FirstImplements ==
  ASSUME TypeInv, LifeInv, NEW c \in Calls, First(c) PROVE AbstractStep
<1> USE DEF memVars, diskVars, fsVars, ghosts
<1>0. /\ call \in [Calls -> Locals] /\ call[c] \in Locals /\ StoreType /\ TypeInv
      /\ known \subseteq Sessions /\ CopiesInv /\ SlotsOnce /\ UnusedBare /\ PathsBare
  BY LocalsOf, StoreTyped DEF TypeInv, TypeOK, Locals, StoreType, LifeInv, StrayInv
<1>1. PICK l : FirstTo(c, l)
  BY FirstSteps
<1>2. call' = [call EXCEPT ![c] = l] /\ call'[c] = l
  BY <1>0, <1>1 DEF FirstTo
<1>3. CASE \/ OpenDirect(c) \/ SessionOpened(c) \/ SessionRefused(c)
           \/ \E s \in Sessions : \/ VerifyBegin(c, s) \/ InspectBegin(c, s)
                                  \/ \E force \in BOOLEAN : CleanupBegin(c, s, force)
  <2>1. call[c].pc \in Unbound /\ UNCHANGED <<tree, history>>
    BY <1>3 DEF OpenDirect, SessionOpened, SessionRefused, VerifyBegin, InspectBegin, CleanupBegin,
                Begin, Unbound, Anonymous
  <2>2. UNCHANGED <<RecordsSeen, Content, crashes>>
    BY <1>0, <1>1, <2>1, FirstForced, ContentSame
  <2>3. CASE l.pc \in Unbound
    BY <1>0, <1>1, <2>1, <2>2, <2>3, FirstForced, AbstractSame
  <2>4. CASE l.pc \notin Unbound
    <3>1. l.on \in Sessions /\ l.on \in known /\ ForcedNow' \in {ForcedNow, ForcedNow \cup {l.on}}
      BY <1>0, <1>1, <2>1, <2>4, FirstForced
    <3> QED
      BY <2>2, <3>1, AbstractForce
  <2> QED
    BY <2>3, <2>4
\* The others make something or undo it.
<1>4. ASSUME call[c].pc \in Unbound, l.pc \in Unbound
      PROVE  UNCHANGED <<RecordsSeen, ForcedNow, crashes>>
  BY <1>0, <1>1, <1>4, FirstForced
<1>5. CASE OpenWorktree(c)
  <2>1. PICK p \in Slots \ used : /\ tree' = [tree EXCEPT ![p] = "clean"]
                                  /\ history' = [history EXCEPT ![p] = "base"]
                                  /\ OpensIn(c, p, TRUE)
    BY <1>5 DEF OpenWorktree
  <2>2. call[c].pc \in Unbound /\ l.pc \in Unbound
    BY <1>0, <1>2, <1>5, <2>1, OpensAt DEF OpenWorktree, Unbound, Anonymous
  <2>3. p \in Places /\ tree[p] = "none" /\ history[p] = "none"
    BY <1>0, <2>1 DEF Places, UnusedBare
  <2>4. /\ \A q \in Places : q # p => tree'[q] = tree[q] /\ history'[q] = history[q]
        /\ tree'[p] = "clean" /\ history'[p] = "base"
    BY <1>0, <2>1, <2>3 DEF StoreType
  <2> QED
    BY <1>0, <1>4, <2>1, <2>2, <2>3, <2>4, AbstractContent
<1>6. CASE OpenGreenfield(c)
  <2>1. PICK p \in Paths : /\ tree[p] = "none" /\ tree' = [tree EXCEPT ![p] = "clean"]
                           /\ OpensIn(c, p, FALSE) /\ history' = history
    BY <1>6 DEF OpenGreenfield
  <2>2. call[c].pc \in Unbound /\ l.pc \in Unbound
    BY <1>0, <1>2, <1>6, <2>1, OpensAt DEF OpenGreenfield, Unbound, Anonymous
  <2>3. p \in Places /\ history[p] = "none" /\ p \notin Slots
    BY <1>0, <2>1, PlacesAssumption DEF Places, PathsBare
  <2>4. /\ \A q \in Places : q # p => tree'[q] = tree[q] /\ history'[q] = history[q]
        /\ tree'[p] = "clean" /\ history'[p] = "none"
    BY <1>0, <2>1, <2>3 DEF StoreType
  <2> QED
    BY <1>0, <1>4, <2>1, <2>2, <2>3, <2>4, AbstractContent
<1>7. CASE RollbackTree(c) \/ RollbackBranch(c)
  <2> DEFINE p == call[c].rec.place
  <2>1. call[c].pc \in Opening /\ call[c].pc \in Unbound /\ p \in Places
    BY <1>0, <1>7 DEF RollbackTree, RollbackBranch, TypeInv, CallsOK, CallOK, Opening, Unbound,
                      Anonymous, Places
  <2>2. l.pc \in Unbound
    BY <1>0, <1>2, <1>7 DEF RollbackTree, RollbackBranch, Goto, Return, NoCall, Locals, Unbound, Anonymous
  <2>3. p \in Slots => \A s \in known : records[s].place # p
    BY <1>0, <2>1 DEF SlotsOnce, Opens
  <2>4. UNCHANGED <<RecordsSeen, ForcedNow, crashes>>
    BY <1>4, <2>1, <2>2
  <2>5. CASE RollbackTree(c)
    <3>1. tree' = [tree EXCEPT ![p] = "none"] \/ tree' = tree
      BY <2>5 DEF RollbackTree
    <3>2. p \in Slots => history' = history
      BY <2>5 DEF RollbackTree
    <3>3. p \notin Slots =>
            history' = [history EXCEPT ![p] = IF tree'[p] = "none" THEN "none" ELSE @]
      BY <2>5 DEF RollbackTree
    <3>4. \A q \in Places : q # p => tree'[q] = tree[q] /\ history'[q] = history[q]
      BY <1>0, <2>1, <3>1, <3>2, <3>3 DEF StoreType
    <3>5. \/ UNCHANGED <<tree, history>>
          \/ tree'[p] = "none" /\ history'[p] = "none"
          \/ p \in Slots /\ history'[p] = history[p] /\ history[p] # "none"
      BY <1>0, <2>1, <3>1, <3>2, <3>3 DEF StoreType
    <3>6. CASE p \in Slots /\ history'[p] = history[p] /\ history[p] # "none"
      BY <2>1, <2>4, <3>4, <3>6, AbstractContent DEF OnDisk
    <3> QED
      BY <2>1, <2>3, <2>4, <3>4, <3>5, <3>6, AbstractContent
  <2>6. CASE RollbackBranch(c)
    <3>1. \/ UNCHANGED <<tree, history>>
          \/ tree' = tree /\ tree[p] = "none" /\ history' = [history EXCEPT ![p] = "none"]
      BY <2>6 DEF RollbackBranch
    <3>2. \A q \in Places : q # p => tree'[q] = tree[q] /\ history'[q] = history[q]
      BY <1>0, <2>1, <3>1 DEF StoreType
    <3>3. UNCHANGED <<tree, history>> \/ (tree'[p] = "none" /\ history'[p] = "none")
      BY <1>0, <2>1, <3>1 DEF StoreType
    <3> QED
      BY <2>1, <2>3, <2>4, <3>2, <3>3, AbstractContent
  <2> QED
    BY <1>7, <2>5, <2>6
<1> QED
  BY <1>3, <1>5, <1>6, <1>7 DEF First, Open

LEMMA ResultsType ==
  ASSUME NEW recs \in [Sessions -> Record], NEW ks
  PROVE  [s \in Sessions |-> IF s \in ks THEN LatestOf(recs[s]) ELSE 0] \in [Sessions -> Nat]
<1>1. \A s \in Sessions : LatestOf(recs[s]) \in Nat
  BY LatestType
<1> HIDE DEF LatestOf
<1> QED
  BY <1>1

LEMMA ResultsNext ==
  ASSUME TypeInv' PROVE Results' \in [Sessions -> Nat]
<1>1. records' \in [Sessions -> Record]
  BY DEF TypeInv, TypeOK
<1>2. Results' = [s \in Sessions |-> IF s \in known' THEN LatestOf(records'[s]) ELSE 0]
  BY DEF Results, LatestOf
<1> QED
  BY <1>1, <1>2, ResultsType

\* A step of a later call that leaves the places alone.
LEMMA LaterQuiet ==
  ASSUME TypeInv, TypeInv', LifeInv, NEW c \in Calls, NEW l, LaterTo(c, l), UNCHANGED Content
  PROVE  AbstractStep
<1> DEFINE s == call[c].on
<1>0. /\ records \in [Sessions -> Record] /\ ran \in [Sessions -> Nat]
      /\ s \in Sessions /\ s \in known /\ records[s] \in Record /\ ran[s] \in Nat
      /\ call[c].rec \in Record /\ known' = known /\ crashes' = crashes
      /\ call' = [call EXCEPT ![c] = l]
  BY LocalsOf, RecordTypes
  DEF TypeInv, TypeOK, LaterTo, Unbound, CallsOK, CallOK, LifeInv, OwnInv
<1>1. Copies(call[c].rec, s) /\ RunTo(records[s], ran[s])
  BY <1>0 DEF LaterTo, LifeInv, CopiesInv, HistoryInv
<1> HIDE DEF s
<1>2. ~records[s].cleaned => LatestOf(records[s]) = ran[s]
  BY <1>0, <1>1, LatestOfRun
<1>3. /\ Ends(l) => ForcedNow' \in {ForcedNow, ForcedNow \ {s}}
      /\ GoesOn(c, l) => ForcedNow' = ForcedNow
  BY <1>0, ForcedStep DEF Ends, GoesOn, s
<1>4. ASSUME SameView PROVE AbstractStep
  BY <1>0, <1>3, <1>4, ViewSame, AbstractForce DEF RecordsSeen, LaterTo
<1>5. CASE Looks(l) \/ Saves(c, l)
  BY <1>0, <1>4, <1>5 DEF Looks, Saves, SameView
<1>6. CASE FindsGit(c, l)
  <2> DEFINE now == WithGit(records[s])
  <2>1. /\ now.place = records[s].place /\ now.cleaned = records[s].cleaned
        /\ now.checks = records[s].checks
    BY <1>0, WithGitType
  <2>2. records' = [records EXCEPT ![s] = now]
    BY <1>6 DEF FindsGit, Writes, s
  <2> HIDE DEF now
  <2>3. \A t \in Sessions : records'[t] = IF t = s THEN now ELSE records[t]
    BY <1>0, <2>2
  <2>4. SameView
    BY <1>0, <2>1, <2>3 DEF SameView
  <2> QED
    BY <1>4, <2>4
<1>7. CASE Checks(c, l)
  <2> DEFINE now == Recorded(records[s], call[c].rec, ran[s] + 1)
  <2>1. now \in Record /\ now.place = records[s].place /\ now.cleaned = records[s].cleaned
    BY <1>0, RecordedType
  <2>2. records' = [records EXCEPT ![s] = now] /\ l.pc # "idle"
    BY <1>7 DEF Checks, Writes, s
  <2>3. RunTo(now, ran[s] + 1)
    BY <1>0, <1>1, RecordedRun
  <2> HIDE DEF now
  <2>4. ~records[s].cleaned => LatestOf(now) = ran[s] + 1
    BY <1>0, <2>1, <2>3, LatestOfRun
  <2>5. \A t \in Sessions : records'[t] = IF t = s THEN now ELSE records[t]
    BY <1>0, <2>2
  <2>6. /\ Results[s] = LatestOf(records[s]) /\ Results'[s] = LatestOf(now)
        /\ \A t \in Sessions \ {s} : Results'[t] = Results[t]
    BY <1>0, <2>5 DEF Results, LatestOf
  <2>7. State' = State /\ Place' = Place
    BY <1>0, <2>1, <2>5 DEF State, WorkspaceOf, Place
  <2>8. /\ State[s] # "none" /\ (State[s] = "open" => ~records[s].cleaned)
    BY <1>0 DEF State, WorkspaceOf
  <2>9. ForcedNow' = ForcedNow
    BY <1>3, <2>2 DEF LaterTo, Ends
  <2>10. State[s] = "open" => Results'[s] = Results[s] + 1
    BY <1>2, <2>4, <2>6, <2>8
  <2>11. Lifecycle!Verify(s)
    BY <1>0, <2>6, <2>7, <2>8, <2>9, <2>10, ResultsNext DEF Lifecycle!Verify, Lifecycle!ResultsOf
  <2> QED
    BY <1>0, <2>11 DEF AbstractStep, Lifecycle!Next
<1>8. CASE Marks(c, l)
  <2> DEFINE now == [call[c].rec EXCEPT !.cleaned = TRUE]
  <2>1. /\ now.place = call[c].rec.place /\ now.cleaned
        /\ now.checks = call[c].rec.checks
    BY <1>0 DEF Record
  <2>2. records' = [records EXCEPT ![s] = now] /\ l.pc # "idle" /\ call[c].pc = "mark"
    BY <1>8 DEF Marks, Writes, s
  <2> HIDE DEF now
  <2>3. /\ call[c].rec.place = records[s].place
        /\ ~records[s].cleaned => LatestOf(call[c].rec) <= ran[s]
    BY <1>1 DEF Copies
  <2>4. \A t \in Sessions : records'[t] = IF t = s THEN now ELSE records[t]
    BY <1>0, <2>2
  <2>5. /\ Results[s] = LatestOf(records[s]) /\ Results'[s] = LatestOf(call[c].rec)
        /\ \A t \in Sessions \ {s} : Results'[t] = Results[t]
    BY <1>0, <2>1, <2>4 DEF Results, LatestOf
  <2>6. State' = [State EXCEPT ![s] = "cleaned"] /\ Place' = Place
    BY <1>0, <2>1, <2>3, <2>4 DEF State, WorkspaceOf, Place
  <2>7. /\ State[s] # "none" /\ (State[s] = "open" => ~records[s].cleaned)
        /\ Place[s] = records[s].place
    BY <1>0 DEF State, WorkspaceOf, Place
  <2>8. ForcedNow' = ForcedNow
    BY <1>3, <2>2 DEF LaterTo, Ends
  <2>9. State[s] = "open" => Results'[s] <= Results[s]
    BY <1>2, <2>3, <2>5, <2>7
  <2>10. Place[s] \in Slots => Content[Place[s]] = "none"
    <3>1. call[c].rec.place \in Slots => ~OnDisk(call[c].rec.place)
      BY <2>2 DEF LifeInv, GoneInv, GoneCall
    <3> QED
      BY <2>3, <2>7, <3>1 DEF Content, ContentOf, Places
  <2>11. Lifecycle!Clean(s)
    BY <1>0, <2>5, <2>6, <2>7, <2>8, <2>9, <2>10, ResultsNext DEF Lifecycle!Clean, Lifecycle!ResultsOf
  <2> QED
    BY <1>0, <2>11 DEF AbstractStep, Lifecycle!Next
<1> QED
  BY <1>5, <1>6, <1>7, <1>8 DEF LaterTo

LEMMA LaterImplements ==
  ASSUME TypeInv, TypeInv', LifeInv, NEW c \in Calls, Later(c) PROVE AbstractStep
<1> USE DEF memVars, diskVars, fsVars, ghosts
<1>0. /\ call \in [Calls -> Locals] /\ call[c] \in Locals /\ StoreType
      /\ known \subseteq Sessions /\ GoneInv /\ SlotsOnce
  BY LocalsOf, StoreTyped DEF TypeInv, TypeOK, Locals, StoreType, LifeInv
<1>1. PICK l : LaterTo(c, l)
  BY LaterSteps
<1>2. CASE \/ SaveNew(c) \/ CheckRuns(c) \/ SaveCheck(c) \/ VerifyEnds(c)
           \/ Stat(c) \/ Discover(c) \/ RecordGit(c) \/ SaveGit(c) \/ Scan(c)
           \/ Decide(c) \/ CheckEmpty(c) \/ MarkCleaned(c) \/ SaveMark(c)
  <2>1. UNCHANGED <<tree, history>>
    BY <1>2 DEF SaveNew, CheckRuns, SaveCheck, VerifyEnds, Stat, Discover, RecordGit, SaveGit, Scan, Decide,
                CheckEmpty, MarkCleaned, SaveMark, Save
  <2> QED
    BY <1>1, <2>1, ContentSame, LaterQuiet
<1>3. CASE RemoveTree(c) \/ RemoveBranch(c) \/ RemoveAll(c)
  <2> DEFINE s == call[c].on
             p == call[c].rec.place
  <2>1. /\ call[c].pc \in {"removeTree", "removeBranch", "removeAll"} /\ p \in Places
        /\ call[c].pc # "removeAll" => p \in Slots
        /\ call[c].pc = "removeAll" => p \notin Slots
    BY <1>0, <1>3, PlacesAssumption
    DEF RemoveTree, RemoveBranch, RemoveAll, TypeInv, CallsOK, CallOK, Places
  <2>2. s \in known /\ s \in Sessions /\ records[s].place = p
    BY <1>0, <2>1 DEF LifeInv, OwnInv, CopiesInv, Copies, Unbound, Anonymous
  <2>3. UNCHANGED <<known, records, crashes>>
    BY <1>3 DEF RemoveTree, RemoveBranch, RemoveAll
  <2>4. ASSUME NEW where \in {"removeBranch", "mark"}, Goto(c, where)
        PROVE  UNCHANGED <<RecordsSeen, ForcedNow, crashes>>
    <3>1. call' = [call EXCEPT ![c] = l] /\ (Ends(l) \/ GoesOn(c, l))
      BY <1>1 DEF LaterTo
    <3>2. l = call'[c] /\ call'[c].pc = where
      BY <1>0, <2>4, <3>1 DEF Goto, Locals
    <3>3. GoesOn(c, l)
      BY <3>1, <3>2 DEF Ends
    <3>4. l.force = call[c].force /\ l.on = call[c].on
      BY <3>3 DEF GoesOn
    <3> QED
      BY <2>3, <3>1, <3>4, ForcedStep, ViewUnchanged
  \* The worktree of an open session is bound to no other, and of a cleaned
  \* one nothing is there.
  <2>5. \A t \in known : p \in Slots /\ records[t].place = p => t = s
    BY <1>0, <2>2 DEF SlotsOnce
  <2>6. p \in Slots /\ records[s].cleaned => tree[p] = "none" /\ history[p] = "none"
    BY <1>0, <2>2 DEF GoneInv, GoneRec, OnDisk
  <2>7. CASE UNCHANGED <<tree, history>>
    BY <1>1, <2>7, ContentSame, LaterQuiet
  <2>8. CASE /\ RemoveTree(c) /\ ~UNCHANGED <<tree, history>>
    <3>1. /\ tree' = [tree EXCEPT ![p] = "none"] /\ history' = history
          /\ Goto(c, "removeBranch") /\ p \in Slots
      BY <2>1, <2>8 DEF RemoveTree
    <3>2. /\ \A q \in Places : q # p => tree'[q] = tree[q] /\ history'[q] = history[q]
          /\ tree'[p] = "none" /\ history'[p] = history[p]
      BY <1>0, <2>1, <3>1 DEF StoreType
    <3>3. UNCHANGED <<RecordsSeen, ForcedNow, crashes>>
      BY <2>4, <3>1
    <3>4. CASE history[p] = "none"
      <4>1. records[s].cleaned => UNCHANGED <<tree, history>>
        BY <1>0, <2>1, <2>6, <3>1 DEF StoreType
      <4>2. \A t \in known : records[t].place = p =>
               ~records[t].cleaned /\ (history[p] = "ahead" => t \in ForcedNow)
        BY <2>5, <2>8, <3>1, <3>4, <4>1
      <4> QED
        BY <2>1, <3>2, <3>3, <3>4, <4>2, AbstractContent
    <3>5. CASE history[p] # "none"
      BY <2>1, <3>2, <3>3, <3>5, AbstractContent DEF OnDisk
    <3> QED
      BY <3>4, <3>5
  <2>9. CASE RemoveBranch(c) /\ ~UNCHANGED <<tree, history>>
    <3>1. /\ history' = [history EXCEPT ![p] = "none"] /\ tree' = tree
          /\ Goto(c, "mark") /\ p \in Slots /\ Deletable(p, call[c].force)
      BY <2>1, <2>9 DEF RemoveBranch
    <3>2. tree[p] = "none"
      BY <1>0, <2>1, <2>9 DEF RemoveBranch, GoneInv, GoneCall
    <3>3. /\ \A q \in Places : q # p => tree'[q] = tree[q] /\ history'[q] = history[q]
          /\ tree'[p] = "none" /\ history'[p] = "none"
      BY <1>0, <2>1, <3>1, <3>2 DEF StoreType
    <3>4. history[p] # "none" /\ (history[p] = "ahead" => call[c].force)
      BY <3>1 DEF Deletable
    <3>5. history[p] = "ahead" => s \in ForcedNow
      BY <2>2, <3>4 DEF ForcedNow
    <3>6. \A t \in known : records[t].place = p =>
             ~records[t].cleaned /\ (history[p] = "ahead" => t \in ForcedNow)
      BY <2>5, <2>6, <3>1, <3>4, <3>5
    <3>7. UNCHANGED <<RecordsSeen, ForcedNow, crashes>>
      BY <2>4, <3>1
    <3> QED
      BY <2>1, <3>3, <3>6, <3>7, AbstractContent
  <2>10. CASE RemoveAll(c) /\ ~UNCHANGED <<tree, history>>
    <3>1. /\ tree' = [tree EXCEPT ![p] = "none"] /\ history' = [history EXCEPT ![p] = "none"]
          /\ Goto(c, "mark")
      BY <2>10 DEF RemoveAll
    <3>2. p \notin Slots
      BY <2>1, <2>10 DEF RemoveAll
    <3>3. /\ \A q \in Places : q # p => tree'[q] = tree[q] /\ history'[q] = history[q]
          /\ tree'[p] = "none" /\ history'[p] = "none"
      BY <1>0, <2>1, <3>1 DEF StoreType
    <3>4. UNCHANGED <<RecordsSeen, ForcedNow, crashes>>
      BY <2>4, <3>1
    <3> QED
      BY <2>1, <3>2, <3>3, <3>4, AbstractContent
  <2> QED
    BY <1>3, <2>7, <2>8, <2>9, <2>10
<1> QED
  BY <1>2, <1>3 DEF Later

LEMMA BindImplements ==
  ASSUME TypeInv, TypeInv', LifeInv, NEW c \in Calls, Bind(c) PROVE AbstractStep
<1> DEFINE s == call[c].on
           rec == call[c].rec
           l == [call[c] EXCEPT !.pc = "saveNew", !.out = rec]
<1>1. /\ call \in [Calls -> Locals] /\ call[c] \in Locals /\ records \in [Sessions -> Record]
      /\ call[c].pc = "bind" /\ s \in Sessions /\ s \notin known /\ rec.place \in Places \cup {Source}
  BY LocalsOf, RecordTypes
  DEF TypeInv, TypeOK, Locals, CallsOK, CallOK, Anonymous, Bind, LifeInv, OwnInv
<1>2. /\ known' = known \cup {s} /\ records' = [records EXCEPT ![s] = rec] /\ call' = [call EXCEPT ![c] = l]
      /\ UNCHANGED <<tree, history, crashes>>
  BY <1>1 DEF Bind, fsVars
<1>3. Fresh(rec)
  BY <1>1 DEF LifeInv, HistoryInv
<1>4. l.on = call[c].on /\ l.force = call[c].force
  BY <1>1 DEF Locals
<1> HIDE DEF l
<1>5. ForcedNow' = ForcedNow /\ Content' = Content
  BY <1>2, <1>4, ForcedStep, ContentSame
<1> HIDE DEF s
<1>6. /\ State' = [State EXCEPT ![s] = "open"] /\ State[s] = "none"
  BY <1>1, <1>2, <1>3 DEF State, WorkspaceOf, Fresh
<1>7. Place' = [Place EXCEPT ![s] = rec.place]
  BY <1>1, <1>2 DEF Place
<1>8. Results' = [Results EXCEPT ![s] = 0]
  BY <1>1, <1>2, <1>3 DEF Results, LatestOf, Fresh
<1>9. rec.place \in Slots => \A t \in Sessions : ~Lifecycle!Bound(t, rec.place)
  <2>1. rec.place \in Slots => \A t \in known : records[t].place # rec.place
    BY <1>1 DEF LifeInv, SlotsOnce, Opens, Opening
  <2> QED
    BY <2>1 DEF Lifecycle!Bound, State, Place, WorkspaceOf
<1>10. Lifecycle!Bind(s, rec.place)
  BY <1>2, <1>5, <1>6, <1>7, <1>8, <1>9 DEF Lifecycle!Bind
<1> QED
  BY <1>1, <1>10 DEF AbstractStep, Lifecycle!Next, Lifecycle!Places, Places

LEMMA CrashImplements ==
  ASSUME TypeInv, LifeInv, Crash PROVE AbstractStep
<1>1. /\ records' = disk /\ known' = saved /\ crashes' = crashes + 1 /\ UNCHANGED <<tree, history>>
      /\ \A c \in Calls : call'[c] = NoCall
  BY DEF Crash, fsVars
<1>2. Content' = Content /\ ForcedNow' = {}
  BY <1>1, ContentSame DEF ForcedNow, NoCall
<1>3. /\ records \in [Sessions -> Record] /\ ran \in [Sessions -> Nat] /\ disk \in [Sessions -> Record]
      /\ saved \subseteq known
  BY DEF TypeInv, TypeOK, LifeInv, OwnInv
<1>4. ASSUME NEW s \in Sessions
      PROVE  /\ State'[s] \in Lifecycle!ComesBackAs(State[s])
             /\ State'[s] # "none" => Place'[s] = Place[s]
             /\ State[s] = "open" => Results'[s] <= Results[s]
  <2>1. CASE s \notin saved
    <3>1. State'[s] = "none" /\ Results'[s] = 0
      BY <1>1, <2>1 DEF State, WorkspaceOf, Results
    <3>2. Results[s] \in Nat
      BY <1>3, LatestType DEF Results
    <3>3. "none" \in Lifecycle!ComesBackAs(State[s])
      BY DEF Lifecycle!ComesBackAs, State, WorkspaceOf
    <3> QED
      BY <3>1, <3>2, <3>3
  <2>2. CASE s \in saved
    <3>1. s \in known /\ Copies(disk[s], s)
      BY <1>3, <2>2 DEF LifeInv, CopiesInv
    <3>2. /\ State'[s] = IF disk[s].cleaned THEN "cleaned" ELSE "open"
          /\ State[s] = IF records[s].cleaned THEN "cleaned" ELSE "open"
          /\ Place'[s] = disk[s].place /\ Place[s] = records[s].place
          /\ Results'[s] = LatestOf(disk[s]) /\ Results[s] = LatestOf(records[s])
      BY <1>1, <1>3, <2>2, <3>1 DEF State, WorkspaceOf, Place, Results, LatestOf
    <3>3. ~records[s].cleaned => LatestOf(records[s]) = ran[s]
      BY <1>3, LatestOfRun DEF LifeInv, HistoryInv
    <3> QED
      BY <3>1, <3>2, <3>3 DEF Copies, Lifecycle!ComesBackAs
  <2> QED
    BY <2>1, <2>2
<1>5. Lifecycle!Restart
  BY <1>1, <1>2, <1>4 DEF Lifecycle!Restart
<1> QED
  BY <1>5 DEF AbstractStep, Lifecycle!Next

LEMMA OutsideImplements ==
  ASSUME TypeInv, LifeInv, NEW p \in Places, Outside(p) PROVE AbstractStep
<1>1. /\ UNCHANGED <<known, records, call, crashes>> /\ StoreType /\ PathsBare
  BY StoreTyped DEF Outside, memVars, LifeInv, StrayInv
<1>2. UNCHANGED <<RecordsSeen, ForcedNow, crashes>>
  BY <1>1, ViewUnchanged DEF ForcedNow
<1>3. \A q \in Places : q # p => tree'[q] = tree[q] /\ history'[q] = history[q]
  BY <1>1 DEF Outside, Works, InitsRepository, Commits, Vanishes, StoreType
<1>4. CASE Works(p)
  <2>1. tree[p] = "clean" /\ tree'[p] = "work" /\ history'[p] = history[p]
    BY <1>1, <1>4 DEF Works, StoreType
  <2> QED
    BY <1>2, <1>3, <2>1, AbstractContent DEF OnDisk
<1>5. CASE InitsRepository(p)
  <2>1. history[p] = "none" /\ tree[p] # "none" /\ tree'[p] = tree[p]
    BY <1>5 DEF InitsRepository, Present
  <2> QED
    BY <1>2, <1>3, <2>1, AbstractContent DEF OnDisk
<1>6. CASE Commits(p)
  <2>1. tree[p] = "work" /\ tree'[p] = "clean" /\ history'[p] = "ahead"
    BY <1>1, <1>6 DEF Commits, StoreType
  <2> QED
    BY <1>2, <1>3, <2>1, AbstractContent DEF OnDisk
<1>7. CASE Vanishes(p)
  <2>1. CASE p \in Slots
    <3>1. tree[p] # "none" /\ tree'[p] = "missing" /\ history'[p] = history[p]
      BY <1>1, <1>7, <2>1 DEF Vanishes, Present, StoreType
    <3> QED
      BY <1>2, <1>3, <3>1, AbstractContent DEF OnDisk
  <2>2. CASE p \notin Slots
    <3>1. tree'[p] = "none" /\ history'[p] = "none"
      BY <1>1, <1>7, <2>2 DEF Vanishes, StoreType
    <3> QED
      BY <1>2, <1>3, <2>2, <3>1, AbstractContent
  <2> QED
    BY <2>1, <2>2
<1> QED
  BY <1>4, <1>5, <1>6, <1>7 DEF Outside

LEMMA InterruptionImplements ==
  ASSUME TypeInv, LifeInv, NEW c \in Calls, AddInterrupted(c) PROVE AbstractStep
<1>1. PICK p \in Slots \ used : /\ tree' \in {tree, [tree EXCEPT ![p] = "clean"]}
                                /\ history' = [history EXCEPT ![p] = "base"]
  BY DEF AddInterrupted
<1>2. UNCHANGED <<known, records, call, crashes>> /\ StoreType /\ SlotsOnce
  BY StoreTyped DEF AddInterrupted, memVars, LifeInv
<1>3. UNCHANGED <<RecordsSeen, ForcedNow, crashes>>
  BY <1>2, ViewUnchanged DEF ForcedNow
<1>4. p \in Places /\ tree[p] = "none" /\ history[p] = "none"
  BY <1>1 DEF LifeInv, UnusedBare, Places
<1>5. /\ \A q \in Places : q # p => tree'[q] = tree[q] /\ history'[q] = history[q]
      /\ history'[p] = "base"
  BY <1>1, <1>2, <1>4 DEF StoreType
<1> QED
  BY <1>1, <1>2, <1>3, <1>4, <1>5, AbstractContent

LEMMA NextImplements == ASSUME TypeInv, TypeInv', LifeInv, [Next]_vars PROVE AbstractStep
<1>1. CASE UNCHANGED vars
  <2>1. UNCHANGED <<known, records, call, tree, history, crashes>>
    BY <1>1 DEF vars, memVars, fsVars
  <2>2. UNCHANGED <<RecordsSeen, Content, ForcedNow, crashes>>
    BY <2>1, ViewUnchanged, ContentSame DEF ForcedNow
  <2> QED
    BY <2>2, AbstractSame
<1>2. ASSUME NEW c \in Calls, First(c) \/ Later(c) \/ Bind(c) \/ AddInterrupted(c) PROVE AbstractStep
  BY <1>2, FirstImplements, LaterImplements, BindImplements, InterruptionImplements
<1>3. ASSUME NEW p \in Places, Outside(p) PROVE AbstractStep
  BY <1>3, OutsideImplements
<1>4. CASE Crash
  BY <1>4, CrashImplements
<1> QED
  BY <1>1, <1>2, <1>3, <1>4 DEF Next, Step, First, Later

LEMMA InitImplements == Init => Lifecycle!Init
<1> SUFFICES ASSUME Init PROVE Lifecycle!Init
  OBVIOUS
<1>1. State = [s \in Sessions |-> "none"] /\ Place = [s \in Sessions |-> Source]
      /\ Results = [s \in Sessions |-> 0]
  BY DEF Init, State, WorkspaceOf, Place, Results
<1>2. Content = [p \in Places |-> "none"]
  BY DEF Init, Content, ContentOf, OnDisk
<1>3. ForcedNow = {}
  BY DEF Init, ForcedNow, NoCall
<1> QED
  BY <1>1, <1>2, <1>3 DEF Init, Lifecycle!Init, Lifecycle!Places, Places

\* The manager's calls, Git commands and files do to every workspace what
\* WorkspaceLifecycle allows, and nothing else: no place is bound twice, none
\* is called cleaned that is there, commits of a worktree go by a forced
\* cleanup of its own session only, and a crash invents nothing.
THEOREM Implements == Spec => ImplementsWorkspaceLifecycle
<1>1. Init => LifeInv
  <2>1. Init => StrayInv /\ UnusedBare
    BY DEF Init, StrayInv, OnDisk, PathsBare, OwnPlace, NoCall, Unbound, Anonymous, Places, UnusedBare
  <2> QED
    BY <2>1, FirstHistory, FirstGone, FirstCopies, FirstSlots DEF LifeInv
<1>2. TypeInv /\ TypeInv' /\ LifeInv /\ [Next]_vars => LifeInv'
  BY OwnPreserved, GonePreserved, HistoryPreserved, StrayPreserved, CopiesPreserved, SlotsPreserved,
     UnusedStaysBare DEF LifeInv
<1>3. TypeInv /\ TypeInv' /\ LifeInv /\ [Next]_vars => AbstractStep
  BY NextImplements
<1>4. AbstractStep <=> [Lifecycle!Next]_(Lifecycle!vars)
  BY DEF AbstractStep
<1>5. Spec => [][Lifecycle!Next]_(Lifecycle!vars)
  BY <1>1, <1>2, <1>3, <1>4, TypeInvariant, PTL DEF Spec
<1> QED
  BY <1>5, InitImplements, PTL DEF Spec, ImplementsWorkspaceLifecycle, Lifecycle!Spec
=============================================================================
