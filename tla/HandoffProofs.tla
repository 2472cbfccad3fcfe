--------------------------- MODULE HandoffProofs ---------------------------
(* Theorems about Handoff, for any callers, sessions, jobs and requests. *)
EXTENDS Handoff, SequenceTheorems, TLAPS

Locals == [op : AllTools \cup {"none"}, on : Sessions \cup {NoSession},
           job : Jobs \cup {NoJob}, loc : Places, ended : Endings,
           was : Message, read : Message, req : Requests \cup {NoRequest}]
Results == [st : Terminal \cup {"none", "running"}, job : Jobs \cup {NoJob},
            for : Jobs \cup {NoJob}, ended : Endings, was : Message]

\* TypeOK in three parts: the calls, the managers, and OpenCode.
CallsType ==
    /\ pc \in [Callers -> Points] /\ call \in [Callers -> Locals]
    /\ \A c \in Callers : pc[c] # "idle" => On(c) \in Sessions
    /\ seen \in [Callers -> Requests \cup {NoRequest}]
    /\ result \in [Callers -> Results]
ManagersType ==
    /\ status \in [Jobs -> Terminal \cup {"none", "running"}]
    /\ place \in [Jobs -> Places]
    /\ current \in [Sessions -> Jobs \cup {NoJob}]
    /\ record \in [Sessions -> {"none", "owned", "direct", "cleaned"}]
    /\ dir \in [Sessions -> BOOLEAN]
    /\ sent \subseteq Jobs
ServerType ==
    /\ turn \in [Sessions -> Jobs \cup {NoJob}]
    /\ last \in [Sessions -> Message]
    /\ asked \in [Sessions -> Seq(Requests)]

\* A call that waits for a local job, or that found its session tracked, works
\* on a session that tracks a job.
Tracked ==
    /\ \A c \in Callers : pc[c] = "local" => call[c].job \in Jobs
    /\ \A c \in Callers : pc[c] \in {"local", "poll", "pollread", "read", "fetch", "reconcile"}
                            => current[On(c)] \in Jobs

TypeInv == CallsType /\ ManagersType /\ ServerType /\ Tracked

LEMMA TypesOK == TypeInv => TypeOK
  BY DEF TypeInv, CallsType, ManagersType, ServerType, Tracked, TypeOK, Locals, Results

LEMMA InitTypes == Init => TypeInv
<1> SUFFICES ASSUME Init PROVE TypeInv
  OBVIOUS
<1>1. NoMessage \in Message /\ NoCall \in Locals
  BY DEF NoMessage, Message, NoCall, Locals, Places, Endings
<1>2. NoResult \in Results
  BY <1>1 DEF NoResult, Results, Endings
<1>3. CallsType
  BY <1>1, <1>2 DEF Init, CallsType, Points
<1>4. ManagersType
  BY DEF Init, ManagersType, Places
<1>5. ServerType
  BY <1>1 DEF Init, ServerType
<1>6. Tracked
  BY DEF Init, Tracked
<1> QED
  BY <1>3, <1>4, <1>5, <1>6 DEF TypeInv

-----------------------------------------------------------------------------
(* What a caller keeps to itself *)

\* A session once tracked stays so.
TrackedStays == \A s \in Sessions : current[s] \in Jobs => current'[s] \in Jobs

\* A step of one call, which leaves it with local state l at a point p.
LEMMA CallMoves ==
  ASSUME CallsType, Tracked, TrackedStays, NEW c \in Callers, NEW p \in Points, NEW l \in Locals,
         pc' = [pc EXCEPT ![c] = p], call' = [call EXCEPT ![c] = l],
         p # "idle" => l.on \in Sessions,
         p = "local" => l.job \in Jobs,
         p \in {"local", "poll", "pollread", "read", "fetch", "reconcile"} => current'[l.on] \in Jobs,
         seen' \in [Callers -> Requests \cup {NoRequest}],
         result' \in [Callers -> Results]
  PROVE  CallsType' /\ Tracked'
<1>1. call' \in [Callers -> Locals] /\ pc' \in [Callers -> Points]
  BY DEF CallsType
<1>2. \A d \in Callers : d # c => pc'[d] = pc[d] /\ call'[d] = call[d]
  BY DEF CallsType
<1>3. pc'[c] = p /\ call'[c] = l
  BY DEF CallsType
<1>4. \A d \in Callers : pc'[d] # "idle" => call'[d].on \in Sessions
  BY <1>2, <1>3 DEF CallsType, On
<1>5. CallsType'
  BY <1>1, <1>4 DEF CallsType, On
<1>6. ASSUME NEW d \in Callers PROVE pc'[d] = "local" => call'[d].job \in Jobs
  BY <1>2, <1>3 DEF Tracked
<1>7. ASSUME NEW d \in Callers, pc'[d] \in {"local", "poll", "pollread", "read", "fetch", "reconcile"}
      PROVE  current'[call'[d].on] \in Jobs
  <2>1. CASE d = c
    BY <1>3, <1>7, <2>1
  <2>2. CASE d # c
    <3>1. current[call[d].on] \in Jobs /\ call[d].on \in Sessions
      BY <1>2, <1>7, <2>2 DEF Tracked, CallsType, On
    <3> QED
      BY <1>2, <2>2, <3>1 DEF TrackedStays
  <2> QED
    BY <2>1, <2>2
<1> QED
  BY <1>5, <1>6, <1>7 DEF Tracked, On

\* A step of the job manager or of OpenCode.
LEMMA CallsStay ==
  ASSUME CallsType, Tracked, TrackedStays, UNCHANGED <<pc, call, seen, result>>
  PROVE  CallsType' /\ Tracked'
<1>1. CallsType'
  BY DEF CallsType, On
<1>2. \A d \in Callers : pc'[d] = "local" => call'[d].job \in Jobs
  BY DEF Tracked
<1>3. ASSUME NEW d \in Callers, pc'[d] \in {"local", "poll", "pollread", "read", "fetch", "reconcile"}
      PROVE  current'[call'[d].on] \in Jobs
  BY <1>3 DEF Tracked, CallsType, On, TrackedStays
<1> QED
  BY <1>1, <1>2, <1>3 DEF Tracked, On

LEMMA LocalTypes ==
  /\ NoCall \in Locals
  /\ \A l \in Locals :
        /\ l.on \in Sessions \cup {NoSession} /\ l.job \in Jobs \cup {NoJob}
        /\ l.read \in Message /\ l.was \in Message /\ l.ended \in Endings
        /\ \A p \in Places : [l EXCEPT !.loc = p] \in Locals
        /\ \A j \in Jobs \cup {NoJob} : [l EXCEPT !.job = j] \in Locals
        /\ \A m \in Message : [l EXCEPT !.read = m] \in Locals
        /\ \A e \in Endings, m \in Message : [l EXCEPT !.ended = e, !.was = m] \in Locals
  /\ \A o \in AllTools, s \in Sessions : [NoCall EXCEPT !.op = o, !.on = s] \in Locals
  /\ \A o \in AllTools, s \in Sessions, r \in Requests :
        [NoCall EXCEPT !.op = o, !.on = s, !.req = r] \in Locals
<1>1. NoMessage \in Message
  BY DEF NoMessage, Message
<1>2. NoCall \in Locals
  BY <1>1 DEF NoCall, Locals, Places, Endings
<1> QED
  BY <1>2 DEF Locals

\* A call that goes to p and keeps its local state.
LEMMA CallGoes ==
  ASSUME CallsType, Tracked, TrackedStays, NEW c \in Callers, pc[c] # "idle",
         NEW p \in Points, Goto(c, p), UNCHANGED call,
         p = "local" => call[c].job \in Jobs,
         p \in {"local", "poll", "pollread", "read", "fetch", "reconcile"} => current'[On(c)] \in Jobs,
         seen' \in [Callers -> Requests \cup {NoRequest}],
         result' \in [Callers -> Results]
  PROVE  CallsType' /\ Tracked'
<1>1. call' = [call EXCEPT ![c] = call[c]] /\ call[c] \in Locals
  BY DEF CallsType
<1>2. call[c].on \in Sessions
  BY DEF CallsType, On
<1>3. pc' = [pc EXCEPT ![c] = p]
  BY DEF Goto
<1> QED
  BY <1>1, <1>2, <1>3, CallMoves DEF On

\* A call that returns.
LEMMA CallReturns ==
  ASSUME CallsType, Tracked, TrackedStays, NEW c \in Callers, Return(c),
         seen' \in [Callers -> Requests \cup {NoRequest}],
         result' \in [Callers -> Results]
  PROVE  CallsType' /\ Tracked'
<1>1. pc' = [pc EXCEPT ![c] = "idle"] /\ call' = [call EXCEPT ![c] = NoCall]
  BY DEF Return, Goto
<1>2. "idle" \in Points
  BY DEF Points
<1> QED
  BY <1>1, <1>2, LocalTypes, CallMoves

\* A call that begins.
LEMMA CallStarts ==
  ASSUME CallsType, Tracked, TrackedStays, NEW c \in Callers, NEW o \in AllTools, NEW s \in Sessions,
         NEW p \in {"resolve", "wait", "tracked", "verify", "cleanup"},
         Begin(c, o, s, p), UNCHANGED callerVars
  PROVE  CallsType' /\ Tracked'
<1>1. pc' = [pc EXCEPT ![c] = p] /\ call' = [call EXCEPT ![c] = [NoCall EXCEPT !.op = o, !.on = s]]
  BY DEF Begin, Goto
<1>2. [NoCall EXCEPT !.op = o, !.on = s] \in Locals /\ [NoCall EXCEPT !.op = o, !.on = s].on = s
  BY LocalTypes DEF NoCall
<1>3. p \in Points
  BY DEF Points
<1>4. seen' \in [Callers -> Requests \cup {NoRequest}] /\ result' \in [Callers -> Results]
  BY DEF CallsType, callerVars
<1> QED
  BY <1>1, <1>2, <1>3, <1>4, CallMoves

\* A wait that ends.
LEMMA WaitOver ==
  ASSUME TypeInv, TrackedStays, NEW c \in Callers, pc[c] # "idle", NEW how \in Endings,
         WaitEnds(c, how), UNCHANGED callerVars
  PROVE  CallsType' /\ Tracked'
<1> DEFINE p == IF call[c].op = "fire" THEN "pending" ELSE "tracked"
           l == [call[c] EXCEPT !.ended = how, !.was = last[On(c)]]
<1>1. On(c) \in Sessions /\ call[c] \in Locals
  BY DEF TypeInv, CallsType
<1>2. last[On(c)] \in Message
  BY <1>1 DEF TypeInv, ServerType
<1>3. l \in Locals
  BY <1>1, <1>2, LocalTypes
<1>4. l.on \in Sessions
  BY <1>1 DEF On, Locals
<1>5. pc' = [pc EXCEPT ![c] = p] /\ call' = [call EXCEPT ![c] = l]
  BY <1>1 DEF WaitEnds, Goto, TypeInv, CallsType
<1>6. p \in Points /\ p \in {"pending", "tracked"}
  BY DEF Points
<1>7. seen' \in [Callers -> Requests \cup {NoRequest}] /\ result' \in [Callers -> Results]
  BY DEF TypeInv, CallsType, callerVars
<1> HIDE DEF p, l
<1> QED
  BY <1>3, <1>4, <1>5, <1>6, <1>7, CallMoves DEF TypeInv

LEMMA Quiet ==
  ASSUME TypeInv, UNCHANGED <<managerVars, spaceVars>>
  PROVE  ManagersType' /\ TrackedStays
  BY DEF TypeInv, ManagersType, managerVars, spaceVars, TrackedStays

LEMMA QuietServer ==
  ASSUME TypeInv, UNCHANGED serverVars
  PROVE  ServerType'
  BY DEF TypeInv, ServerType, serverVars

\* A step that leaves managers, workspaces and OpenCode alone.
LEMMA OnlyCalls ==
  ASSUME TypeInv, UNCHANGED <<managerVars, spaceVars, serverVars>>, CallsType' /\ Tracked'
  PROVE  TypeInv'
  BY Quiet, QuietServer DEF TypeInv

LEMMA Callers0 ==
  ASSUME TypeInv, UNCHANGED callerVars
  PROVE  seen' \in [Callers -> Requests \cup {NoRequest}] /\ result' \in [Callers -> Results]
  BY DEF TypeInv, CallsType, callerVars

-----------------------------------------------------------------------------
(* The steps of the calls *)

LEMMA ExecuteCreatesTypes ==
  ASSUME TypeInv, NEW c \in Callers, NEW s \in Sessions, ExecuteCreates(c, s)
  PROVE  TypeInv'
<1>1. PICK kind \in {"owned", "direct"} :
        record' = [record EXCEPT ![s] = kind] /\ dir' = [dir EXCEPT ![s] = kind = "owned"]
  BY DEF ExecuteCreates
<1>2. UNCHANGED <<callerVars, managerVars, serverVars>>
  BY DEF ExecuteCreates
<1>3. ManagersType' /\ TrackedStays
  <2>1. record' \in [Sessions -> {"none", "owned", "direct", "cleaned"}]
    BY <1>1 DEF TypeInv, ManagersType
  <2>2. dir' \in [Sessions -> BOOLEAN]
    <3>1. (kind = "owned") \in BOOLEAN
      OBVIOUS
    <3> QED
      BY <1>1, <3>1 DEF TypeInv, ManagersType
  <2> QED
    BY <1>2, <2>1, <2>2 DEF TypeInv, ManagersType, managerVars, TrackedStays
<1>4. ServerType'
  BY <1>2, QuietServer
<1>5. CASE Begin(c, "execute", s, "resolve")
  <2>1. "execute" \in AllTools
    BY DEF AllTools
  <2>2. CallsType' /\ Tracked'
    BY <1>2, <1>3, <1>5, <2>1, CallStarts DEF TypeInv
  <2> QED
    BY <1>3, <1>4, <2>2 DEF TypeInv
<1>6. CASE UNCHANGED <<pc, call>>
  <2>1. CallsType' /\ Tracked'
    BY <1>2, <1>3, <1>6, CallsStay DEF TypeInv, callerVars
  <2> QED
    BY <1>3, <1>4, <2>1 DEF TypeInv
<1> QED
  BY <1>5, <1>6 DEF ExecuteCreates

\* The calls that only begin: fire, check, verify and cleanup.
LEMMA BeginsTypes ==
  ASSUME TypeInv, NEW c \in Callers, NEW s \in Sessions,
         FireBegins(c, s) \/ CheckBegins(c, s) \/ VerifyBegins(c, s) \/ CleanupBegins(c, s)
  PROVE  TypeInv'
<1>1. UNCHANGED <<callerVars, managerVars, spaceVars, serverVars>>
  BY DEF FireBegins, CheckBegins, VerifyBegins, CleanupBegins, WorkspaceCall
<1>2. PICK o \in AllTools, p \in {"resolve", "wait", "tracked", "verify", "cleanup"} : Begin(c, o, s, p)
  BY DEF FireBegins, CheckBegins, VerifyBegins, CleanupBegins, WorkspaceCall, AllTools
<1>3. ManagersType' /\ TrackedStays
  BY <1>1, Quiet
<1>4. CallsType' /\ Tracked'
  BY <1>1, <1>2, <1>3, CallStarts DEF TypeInv
<1> QED
  BY <1>1, <1>4, OnlyCalls

LEMMA SubmitResolvesTypes ==
  ASSUME TypeInv, NEW c \in Callers, SubmitResolves(c)
  PROVE  TypeInv'
<1> DEFINE l == [call[c] EXCEPT !.loc = Resolved(On(c))]
<1>1. UNCHANGED <<callerVars, managerVars, spaceVars, serverVars>>
  BY DEF SubmitResolves
<1>2. TrackedStays
  BY <1>1, Quiet
<1>3. call[c] \in Locals /\ call[c].on \in Sessions
  BY DEF SubmitResolves, At, TypeInv, CallsType, On
<1>4. Resolved(On(c)) \in Places
  BY DEF Resolved, Places
<1>5. l \in Locals
  BY <1>3, <1>4, LocalTypes
<1>6. l.on \in Sessions
  BY <1>3 DEF Locals
<1>7. pc' = [pc EXCEPT ![c] = "submit"] /\ call' = [call EXCEPT ![c] = l] /\ "submit" \in Points
  BY <1>3 DEF SubmitResolves, Goto, TypeInv, CallsType, Points
<1> HIDE DEF l
<1>8. CallsType' /\ Tracked'
  BY <1>1, <1>2, <1>5, <1>6, <1>7, Callers0, CallMoves DEF TypeInv
<1> QED
  BY <1>1, <1>8, OnlyCalls

LEMMA SubmitsTypes ==
  ASSUME TypeInv, NEW c \in Callers, NEW j \in Jobs, Submits(c, j)
  PROVE  TypeInv'
<1>1. UNCHANGED <<call, sent, callerVars, spaceVars, serverVars>> /\ pc[c] = "submit"
  BY DEF Submits, At
<1>2. On(c) \in Sessions /\ call[c].loc \in Places
  BY <1>1 DEF TypeInv, CallsType, Locals
<1>3. ManagersType'
  BY <1>1, <1>2 DEF Submits, TypeInv, ManagersType, spaceVars
<1>4. TrackedStays
  BY <1>2 DEF Submits, TypeInv, ManagersType, TrackedStays
<1>5. PICK p \in {"wait", "tracked", "pending"} : Goto(c, p)
  BY DEF Submits
<1>6. p \in Points
  BY DEF Points
<1>7. CallsType' /\ Tracked'
  BY <1>1, <1>4, <1>5, <1>6, Callers0, CallGoes DEF TypeInv
<1>8. ServerType'
  BY <1>1, QuietServer
<1> QED
  BY <1>3, <1>7, <1>8 DEF TypeInv

LEMMA SubmitRepeatsTypes ==
  ASSUME TypeInv, NEW c \in Callers, SubmitRepeats(c)
  PROVE  TypeInv'
<1>1. UNCHANGED <<call, callerVars, managerVars, spaceVars, serverVars>> /\ pc[c] = "submit"
  BY DEF SubmitRepeats, At
<1>2. TrackedStays
  BY <1>1, Quiet
<1>3. PICK p \in {"wait", "tracked", "pending"} : Goto(c, p)
  BY DEF SubmitRepeats
<1>4. p \in Points
  BY DEF Points
<1>5. CallsType' /\ Tracked'
  BY <1>1, <1>2, <1>3, <1>4, Callers0, CallGoes DEF TypeInv
<1> QED
  BY <1>1, <1>5, OnlyCalls

\* The steps that end a call and change nothing.
LEMMA EndsTypes ==
  ASSUME TypeInv, NEW c \in Callers, SubmitRefused(c) \/ VerifyEnds(c)
  PROVE  TypeInv'
<1>1. UNCHANGED <<callerVars, managerVars, spaceVars, serverVars>> /\ Return(c)
  BY DEF SubmitRefused, VerifyEnds
<1>2. TrackedStays
  BY <1>1, Quiet
<1>3. CallsType' /\ Tracked'
  BY <1>1, <1>2, Callers0, CallReturns DEF TypeInv
<1> QED
  BY <1>1, <1>3, OnlyCalls

LEMMA WaitLooksUpTypes ==
  ASSUME TypeInv, NEW c \in Callers, WaitLooksUp(c)
  PROVE  TypeInv'
<1> DEFINE l == [call[c] EXCEPT !.job = current[On(c)]]
           p == IF current[On(c)] = NoJob THEN "remote" ELSE "local"
<1>1. UNCHANGED <<callerVars, managerVars, spaceVars, serverVars>>
  BY DEF WaitLooksUp
<1>2. TrackedStays
  BY <1>1, Quiet
<1>3. call[c] \in Locals /\ On(c) \in Sessions
  BY DEF WaitLooksUp, At, TypeInv, CallsType
<1>4. current[On(c)] \in Jobs \cup {NoJob} /\ current' = current
  BY <1>1, <1>3 DEF TypeInv, ManagersType, managerVars
<1>5. l \in Locals
  BY <1>3, <1>4, LocalTypes
<1>6. l.on = On(c) /\ l.job = current[On(c)]
  BY <1>3 DEF Locals, On
<1>7. pc' = [pc EXCEPT ![c] = p] /\ call' = [call EXCEPT ![c] = l]
  BY <1>3 DEF WaitLooksUp, Goto, TypeInv, CallsType
<1>8. p \in Points /\ p \in {"remote", "local"} /\ (p = "local" => current[On(c)] \in Jobs)
  BY <1>4 DEF Points
<1> HIDE DEF l, p
<1>9. CallsType' /\ Tracked'
  BY <1>1, <1>2, <1>3, <1>4, <1>5, <1>6, <1>7, <1>8, Callers0, CallMoves DEF TypeInv
<1> QED
  BY <1>1, <1>9, OnlyCalls

\* The steps of the waits: they end it, or go on between its points.
LEMMA WaitsTypes ==
  ASSUME TypeInv, NEW c \in Callers,
         RemoteWaitReturns(c) \/ LocalWaitReturns(c) \/ PollJob(c) \/ PollMessages(c) \/ WaitExpires(c)
  PROVE  TypeInv'
<1>1. UNCHANGED <<callerVars, managerVars, spaceVars, serverVars>>
  BY DEF RemoteWaitReturns, LocalWaitReturns, PollJob, PollMessages, WaitExpires
<1>2. TrackedStays /\ current' = current
  BY <1>1, Quiet DEF managerVars
<1>3. pc[c] \in {"remote", "local", "poll", "pollread"}
  BY DEF RemoteWaitReturns, LocalWaitReturns, PollJob, PollMessages, WaitExpires, At
<1>4. \/ \E how \in {"remote", "self", "expired"} : WaitEnds(c, how)
      \/ pc[c] \in {"local", "poll", "pollread"} /\ UNCHANGED call /\ (Goto(c, "poll") \/ Goto(c, "pollread"))
  BY DEF RemoteWaitReturns, LocalWaitReturns, PollJob, PollMessages, WaitExpires, At
<1>5. CASE \E how \in {"remote", "self", "expired"} : WaitEnds(c, how)
  <2>1. PICK how \in Endings : WaitEnds(c, how)
    BY <1>5 DEF Endings
  <2>2. CallsType' /\ Tracked'
    BY <1>1, <1>2, <1>3, <2>1, WaitOver
  <2> QED
    BY <1>1, <2>2, OnlyCalls
<1>6. CASE pc[c] \in {"local", "poll", "pollread"} /\ UNCHANGED call
           /\ (Goto(c, "poll") \/ Goto(c, "pollread"))
  <2>1. PICK p \in {"poll", "pollread"} : Goto(c, p)
    BY <1>6
  <2>2. p \in Points
    BY DEF Points
  <2>3. current'[On(c)] \in Jobs
    BY <1>2, <1>6 DEF TypeInv, Tracked
  <2>4. CallsType' /\ Tracked'
    BY <1>1, <1>2, <1>6, <2>1, <2>2, <2>3, Callers0, CallGoes DEF TypeInv
  <2> QED
    BY <1>1, <2>4, OnlyCalls
<1> QED
  BY <1>4, <1>5, <1>6

LEMMA TracksTypes ==
  ASSUME TypeInv, NEW c \in Callers, Tracks(c)
  PROVE  TypeInv'
<1>1. UNCHANGED <<call, callerVars, managerVars, spaceVars, serverVars>> /\ pc[c] = "tracked"
  BY DEF Tracks, At
<1>2. TrackedStays /\ current' = current
  BY <1>1, Quiet DEF managerVars
<1>3. current[On(c)] \in Jobs \cup {NoJob}
  BY <1>1 DEF TypeInv, CallsType, ManagersType
<1>4. PICK p \in {"untracked", "read"} : Goto(c, p) /\ (p = "read" => current[On(c)] \in Jobs)
  BY <1>3 DEF Tracks
<1>5. p \in Points
  BY DEF Points
<1>6. CallsType' /\ Tracked'
  BY <1>1, <1>2, <1>4, <1>5, Callers0, CallGoes DEF TypeInv
<1> QED
  BY <1>1, <1>6, OnlyCalls

\* What a call reports.
LEMMA ReportTypes ==
  ASSUME TypeInv, NEW c \in Callers, NEW st \in Terminal \cup {"running", "none"},
         NEW j \in Jobs \cup {NoJob}, Reports(c, st, j)
  PROVE  result' \in [Callers -> Results]
<1> DEFINE r == [st |-> st, job |-> j, for |-> call[c].job, ended |-> call[c].ended, was |-> call[c].was]
<1>1. call[c] \in Locals
  BY DEF TypeInv, CallsType
<1>2. r \in Results
  BY <1>1, LocalTypes DEF Results
<1>3. result' = [result EXCEPT ![c] = r]
  BY DEF Reports
<1> HIDE DEF r
<1> QED
  BY <1>2, <1>3 DEF TypeInv, CallsType

LEMMA ReadsUntrackedTypes ==
  ASSUME TypeInv, NEW c \in Callers, ReadsUntracked(c)
  PROVE  TypeInv'
<1>1. UNCHANGED <<call, seen, managerVars, spaceVars, serverVars>> /\ pc[c] = "untracked" /\ Goto(c, "pending")
  BY DEF ReadsUntracked, At
<1>2. TrackedStays
  BY <1>1, Quiet
<1>3. PICK st \in {"done", "running"} : Reports(c, st, NoJob)
  BY DEF ReadsUntracked
<1>4. result' \in [Callers -> Results]
  BY <1>3, ReportTypes DEF Terminal
<1>5. seen' \in [Callers -> Requests \cup {NoRequest}]
  BY <1>1 DEF TypeInv, CallsType
<1>6. "pending" \in Points
  BY DEF Points
<1>7. CallsType' /\ Tracked'
  BY <1>1, <1>2, <1>4, <1>5, <1>6, CallGoes DEF TypeInv
<1> QED
  BY <1>1, <1>7, OnlyCalls

LEMMA ReadsTypes ==
  ASSUME TypeInv, NEW c \in Callers, Reads(c)
  PROVE  TypeInv'
<1> DEFINE l == [call[c] EXCEPT !.read = last[On(c)]]
<1>1. UNCHANGED <<callerVars, managerVars, spaceVars, serverVars>> /\ pc[c] = "read"
  BY DEF Reads, At
<1>2. TrackedStays /\ current' = current
  BY <1>1, Quiet DEF managerVars
<1>3. CASE Return(c)
  <2>1. CallsType' /\ Tracked'
    BY <1>1, <1>2, <1>3, Callers0, CallReturns DEF TypeInv
  <2> QED
    BY <1>1, <2>1, OnlyCalls
<1>4. CASE Goto(c, "fetch") /\ call' = [call EXCEPT ![c].read = last[On(c)]]
  <2>1. call[c] \in Locals /\ On(c) \in Sessions /\ current[On(c)] \in Jobs
    BY <1>1 DEF TypeInv, CallsType, Tracked
  <2>2. last[On(c)] \in Message
    BY <2>1 DEF TypeInv, ServerType
  <2>3. l \in Locals
    BY <2>1, <2>2, LocalTypes
  <2>4. l.on = On(c)
    BY <2>1 DEF Locals, On
  <2>5. pc' = [pc EXCEPT ![c] = "fetch"] /\ call' = [call EXCEPT ![c] = l] /\ "fetch" \in Points
    BY <1>4, <2>1 DEF Goto, TypeInv, CallsType, Points
  <2> HIDE DEF l
  <2>6. CallsType' /\ Tracked'
    BY <1>1, <1>2, <2>1, <2>3, <2>4, <2>5, Callers0, CallMoves DEF TypeInv
  <2> QED
    BY <1>1, <2>6, OnlyCalls
<1> QED
  BY <1>3, <1>4 DEF Reads

LEMMA ReconcilesTypes ==
  ASSUME TypeInv, NEW c \in Callers, Reconciles(c)
  PROVE  TypeInv'
<1> DEFINE j == current[On(c)]
<1>1. /\ UNCHANGED <<seen, place, current, sent, spaceVars, serverVars>>
      /\ pc[c] = "reconcile" /\ Return(c)
      /\ status' = [status EXCEPT ![j] = Reconciled(c)] /\ Reports(c, Reported(c), j)
  BY DEF Reconciles, At
<1>2. j \in Jobs
  BY <1>1 DEF TypeInv, Tracked
<1>3. status[j] \in Terminal \cup {"none", "running"}
  BY <1>2 DEF TypeInv, ManagersType
<1>4. Reconciled(c) \in Terminal \cup {"none", "running"}
  BY <1>3 DEF Reconciled, Terminal
<1>5. Reported(c) \in Terminal \cup {"none", "running"}
  BY <1>4 DEF Reported
<1>6. ManagersType' /\ TrackedStays
  BY <1>1, <1>2, <1>4 DEF TypeInv, ManagersType, spaceVars, TrackedStays
<1>7. result' \in [Callers -> Results]
  BY <1>1, <1>2, <1>5, ReportTypes
<1>8. seen' \in [Callers -> Requests \cup {NoRequest}]
  BY <1>1 DEF TypeInv, CallsType
<1>9. CallsType' /\ Tracked'
  BY <1>1, <1>6, <1>7, <1>8, CallReturns DEF TypeInv
<1>10. ServerType'
  BY <1>1, QuietServer
<1> QED
  BY <1>6, <1>9, <1>10 DEF TypeInv

LEMMA FetchesPendingTypes ==
  ASSUME TypeInv, NEW c \in Callers, FetchesPending(c)
  PROVE  TypeInv'
<1>1. UNCHANGED <<result, managerVars, spaceVars, serverVars>> /\ pc[c] \in {"fetch", "pending"}
  BY DEF FetchesPending
<1>2. TrackedStays
  BY <1>1, Quiet
<1>3. asked[On(c)] \in Seq(Requests)
  BY <1>1 DEF TypeInv, CallsType, ServerType
<1>4. PICK r \in {NoRequest} \cup {asked[On(c)][i] : i \in 1 .. 1 \cap DOMAIN asked[On(c)]} :
        seen' = [seen EXCEPT ![c] = r]
  BY DEF FetchesPending
<1>5. r \in Requests \cup {NoRequest}
  BY <1>3, <1>4
<1>6. seen' \in [Callers -> Requests \cup {NoRequest}] /\ result' \in [Callers -> Results]
  BY <1>1, <1>4, <1>5 DEF TypeInv, CallsType
<1>7. CASE Return(c)
  <2>1. CallsType' /\ Tracked'
    BY <1>2, <1>6, <1>7, CallReturns DEF TypeInv
  <2> QED
    BY <1>1, <2>1, OnlyCalls
<1>8. CASE pc[c] = "fetch" /\ Goto(c, "reconcile") /\ UNCHANGED call
  <2>1. current'[On(c)] \in Jobs /\ "reconcile" \in Points
    BY <1>1, <1>8 DEF TypeInv, Tracked, managerVars, Points
  <2>2. CallsType' /\ Tracked'
    BY <1>2, <1>6, <1>8, <2>1, CallGoes DEF TypeInv
  <2> QED
    BY <1>1, <2>2, OnlyCalls
<1> QED
  BY <1>7, <1>8 DEF FetchesPending

LEMMA CleanupRemovesTypes ==
  ASSUME TypeInv, NEW c \in Callers, CleanupRemoves(c)
  PROVE  TypeInv'
<1>1. UNCHANGED <<callerVars, managerVars, serverVars>> /\ pc[c] = "cleanup"
  BY DEF CleanupRemoves, At
<1>2. ManagersType' /\ TrackedStays
  BY <1>1 DEF CleanupRemoves, TypeInv, ManagersType, managerVars, spaceVars, TrackedStays
<1>3. CASE Return(c)
  BY <1>1, <1>2, <1>3, Callers0, CallReturns, QuietServer DEF TypeInv
<1>4. CASE Goto(c, "mark") /\ UNCHANGED call
  <2>1. "mark" \in Points
    BY DEF Points
  <2>2. CallsType' /\ Tracked'
    BY <1>1, <1>2, <1>4, <2>1, Callers0, CallGoes DEF TypeInv
  <2> QED
    BY <1>1, <1>2, <2>2, QuietServer DEF TypeInv
<1> QED
  BY <1>3, <1>4 DEF CleanupRemoves

LEMMA CleanupMarksTypes ==
  ASSUME TypeInv, NEW c \in Callers, CleanupMarks(c)
  PROVE  TypeInv'
<1>1. UNCHANGED <<dir, callerVars, managerVars, serverVars>> /\ Return(c)
  BY DEF CleanupMarks
<1>2. ManagersType' /\ TrackedStays
  BY <1>1 DEF CleanupMarks, TypeInv, ManagersType, managerVars, TrackedStays
<1>3. CallsType' /\ Tracked'
  BY <1>1, <1>2, Callers0, CallReturns DEF TypeInv
<1> QED
  BY <1>1, <1>2, <1>3, QuietServer DEF TypeInv

LEMMA ReplyReadsTypes ==
  ASSUME TypeInv, NEW c \in Callers, NEW s \in Sessions, ReplyReads(c, s)
  PROVE  TypeInv'
<1> DEFINE l == [NoCall EXCEPT !.op = "reply", !.on = s, !.req = Head(asked[s])]
<1>1. UNCHANGED <<callerVars, managerVars, spaceVars, serverVars>>
  BY DEF ReplyReads
<1>2. TrackedStays
  BY <1>1, Quiet
<1>3. asked[s] \in Seq(Requests) /\ asked[s] # <<>>
  BY DEF ReplyReads, TypeInv, ServerType
<1>4. Head(asked[s]) \in Requests
  BY <1>3
<1>5. l \in Locals
  BY <1>4, LocalTypes DEF AllTools
<1>6. l.on = s
  BY DEF NoCall
<1>7. pc' = [pc EXCEPT ![c] = "reply"] /\ call' = [call EXCEPT ![c] = l] /\ "reply" \in Points
  BY DEF ReplyReads, Goto, Points
<1> HIDE DEF l
<1>8. CallsType' /\ Tracked'
  BY <1>1, <1>2, <1>5, <1>6, <1>7, Callers0, CallMoves DEF TypeInv
<1> QED
  BY <1>1, <1>8, OnlyCalls

LEMMA RemoveAtType ==
  ASSUME NEW q \in Seq(Requests), NEW i \in 1 .. Len(q)
  PROVE  RemoveAt(q, i) \in Seq(Requests)
<1>1. SubSeq(q, 1, i - 1) \in Seq(Requests)
  BY SubSeqProperties
<1>2. SubSeq(q, i + 1, Len(q)) \in Seq(Requests)
  BY SubSeqProperties
<1> QED
  BY <1>1, <1>2, ConcatProperties DEF RemoveAt

LEMMA ReplyPostsTypes ==
  ASSUME TypeInv, NEW c \in Callers, ReplyPosts(c)
  PROVE  TypeInv'
<1>1. UNCHANGED <<callerVars, managerVars, spaceVars, turn, last>> /\ pc[c] = "reply"
  BY DEF ReplyPosts, At
<1>2. ManagersType' /\ TrackedStays
  BY <1>1, Quiet
<1>3. On(c) \in Sessions /\ asked[On(c)] \in Seq(Requests)
  BY <1>1 DEF TypeInv, CallsType, ServerType
<1>4. asked' \in [Sessions -> Seq(Requests)]
  <2>1. CASE \E i \in DOMAIN asked[On(c)] : asked' = [asked EXCEPT ![On(c)] = RemoveAt(@, i)]
    <3>1. DOMAIN asked[On(c)] = 1 .. Len(asked[On(c)])
      BY <1>3
    <3>2. PICK i \in DOMAIN asked[On(c)] : asked' = [asked EXCEPT ![On(c)] = RemoveAt(@, i)]
      BY <2>1
    <3>3. RemoveAt(asked[On(c)], i) \in Seq(Requests)
      BY <1>3, <3>1, RemoveAtType
    <3> QED
      BY <3>2, <3>3 DEF TypeInv, ServerType
  <2>2. CASE UNCHANGED asked
    BY <2>2 DEF TypeInv, ServerType
  <2> QED
    BY <2>1, <2>2 DEF ReplyPosts
<1>5. ServerType'
  BY <1>1, <1>4 DEF TypeInv, ServerType
<1>6. "pending" \in Points
  BY DEF Points
<1>7. CASE Goto(c, "pending") /\ UNCHANGED call
  BY <1>1, <1>2, <1>5, <1>6, <1>7, Callers0, CallGoes DEF TypeInv
<1>8. CASE Return(c)
  BY <1>1, <1>2, <1>5, <1>8, Callers0, CallReturns DEF TypeInv
<1> QED
  BY <1>7, <1>8 DEF ReplyPosts

-----------------------------------------------------------------------------
(* The job manager and OpenCode *)

LEMMA PromptArrivesTypes ==
  ASSUME TypeInv, NEW s \in Sessions, PromptArrives(s)
  PROVE  TypeInv'
<1>1. UNCHANGED <<pc, call, seen, result, status, place, current, spaceVars, last, asked>>
  BY DEF PromptArrives, callerVars
<1>2. current[s] \in Jobs
  BY DEF PromptArrives, TypeInv, ManagersType
<1>3. ManagersType' /\ TrackedStays
  BY <1>1, <1>2 DEF PromptArrives, TypeInv, ManagersType, spaceVars, TrackedStays
<1>4. ServerType'
  BY <1>1, <1>2 DEF PromptArrives, TypeInv, ServerType
<1> QED
  BY <1>1, <1>3, <1>4, CallsStay DEF TypeInv

LEMMA JobSettlesTypes ==
  ASSUME TypeInv, NEW s \in Sessions, NEW st \in Terminal, JobSettles(s, st)
  PROVE  TypeInv'
<1>1. UNCHANGED <<pc, call, seen, result, place, current, sent, spaceVars, serverVars>>
  BY DEF JobSettles, callerVars
<1>2. ManagersType' /\ TrackedStays
  BY <1>1 DEF JobSettles, TypeInv, ManagersType, spaceVars, TrackedStays
<1> QED
  BY <1>1, <1>2, QuietServer, CallsStay DEF TypeInv

LEMMA TurnTypes ==
  ASSUME TypeInv, NEW s \in Sessions,
         TurnSpeaks(s) \/ TurnBreaks(s) \/ \E r \in Requests : TurnAsks(s, r)
  PROVE  TypeInv'
<1>1. UNCHANGED <<pc, call, seen, result, managerVars, spaceVars>>
  BY DEF TurnSpeaks, TurnBreaks, TurnAsks, callerVars
<1>2. ManagersType' /\ TrackedStays
  BY <1>1, Quiet
<1>3. turn[s] \in Jobs \cup {NoJob} /\ asked[s] \in Seq(Requests) /\ <<>> \in Seq(Requests)
  BY DEF TypeInv, ServerType
<1>4. ASSUME TurnSpeaks(s) PROVE ServerType'
  <2>1. PICK fin \in BOOLEAN :
          /\ last' = [last EXCEPT ![s] = [by |-> turn[s], fin |-> fin]]
          /\ turn' = IF fin THEN [turn EXCEPT ![s] = NoJob] ELSE turn
          /\ asked' = IF fin THEN [asked EXCEPT ![s] = <<>>] ELSE asked
    BY <1>4 DEF TurnSpeaks
  <2>2. [by |-> turn[s], fin |-> fin] \in Message
    BY <1>3 DEF Message
  <2>3. last' \in [Sessions -> Message]
    BY <2>1, <2>2 DEF TypeInv, ServerType
  <2>4. turn' \in [Sessions -> Jobs \cup {NoJob}]
    BY <2>1 DEF TypeInv, ServerType
  <2>5. asked' \in [Sessions -> Seq(Requests)]
    BY <1>3, <2>1 DEF TypeInv, ServerType
  <2> QED
    BY <2>3, <2>4, <2>5 DEF ServerType
<1>5. ASSUME TurnBreaks(s) PROVE ServerType'
  BY <1>3, <1>5 DEF TurnBreaks, TypeInv, ServerType
<1>6. ASSUME NEW r \in Requests, TurnAsks(s, r) PROVE ServerType'
  <2>1. Append(asked[s], r) \in Seq(Requests)
    BY <1>3
  <2> QED
    BY <1>6, <2>1 DEF TurnAsks, TypeInv, ServerType
<1>7. ServerType'
  BY <1>4, <1>5, <1>6
<1> QED
  BY <1>1, <1>2, <1>7, CallsStay DEF TypeInv

-----------------------------------------------------------------------------
LEMMA NextTypes ==
  ASSUME TypeInv, [Next]_vars
  PROVE  TypeInv'
<1>1. CASE UNCHANGED vars
  BY <1>1, CallsStay, Quiet, QuietServer DEF vars, callerVars, TypeInv
<1>2. ASSUME NEW c \in Callers, NEW s \in Sessions,
             ExecuteCreates(c, s) \/ FireBegins(c, s) \/ CheckBegins(c, s)
             \/ VerifyBegins(c, s) \/ CleanupBegins(c, s) \/ ReplyReads(c, s)
      PROVE  TypeInv'
  BY <1>2, ExecuteCreatesTypes, BeginsTypes, ReplyReadsTypes
<1>3. ASSUME NEW c \in Callers, CallRuns(c)
      PROVE  TypeInv'
  <2>1. CASE SubmitResolves(c) \/ (\E j \in Jobs : Submits(c, j)) \/ SubmitRepeats(c) \/ SubmitRefused(c)
    BY <2>1, SubmitResolvesTypes, SubmitsTypes, SubmitRepeatsTypes, EndsTypes
  <2>2. CASE WaitLooksUp(c) \/ LocalWaitReturns(c) \/ PollJob(c) \/ PollMessages(c)
    BY <2>2, WaitLooksUpTypes, WaitsTypes
  <2>3. CASE Tracks(c) \/ ReadsUntracked(c) \/ Reads(c) \/ Reconciles(c) \/ FetchesPending(c)
    BY <2>3, TracksTypes, ReadsUntrackedTypes, ReadsTypes, ReconcilesTypes, FetchesPendingTypes
  <2>4. CASE VerifyEnds(c) \/ CleanupRemoves(c) \/ CleanupMarks(c) \/ ReplyPosts(c)
    BY <2>4, EndsTypes, CleanupRemovesTypes, CleanupMarksTypes, ReplyPostsTypes
  <2> QED
    BY <1>3, <2>1, <2>2, <2>3, <2>4 DEF CallRuns
<1>4. ASSUME NEW c \in Callers, RemoteWaitReturns(c) \/ WaitExpires(c)
      PROVE  TypeInv'
  BY <1>4, WaitsTypes
<1>5. ASSUME NEW s \in Sessions, PromptArrives(s) \/ \E st \in Terminal : JobSettles(s, st)
      PROVE  TypeInv'
  BY <1>5, PromptArrivesTypes, JobSettlesTypes
<1>6. ASSUME NEW s \in Sessions, TurnSpeaks(s) \/ TurnBreaks(s)
      PROVE  TypeInv'
  BY <1>6, TurnTypes
<1>7. ASSUME NEW s \in Sessions, NEW r \in Requests, TurnAsks(s, r)
      PROVE  TypeInv'
  BY <1>7, TurnTypes
<1> QED
  BY <1>1, <1>2, <1>3, <1>4, <1>5, <1>6, <1>7 DEF Next, CallBegins

\* Every variable keeps its type, a call works on a session, and a call that
\* waits for, polls or reconciles a job has one: the handlers never use a
\* session's job that is not there.
THEOREM TypeCorrect == Spec => []TypeOK
<1>1. Init => TypeInv
  BY InitTypes
<1>2. TypeInv /\ [Next]_vars => TypeInv'
  BY NextTypes
<1>3. TypeInv => TypeOK
  BY TypesOK
<1> QED
  BY <1>1, <1>2, <1>3, PTL DEF Spec

-----------------------------------------------------------------------------
(***************************************************************************)
(* Calls that do not overlap on a session                                  *)
(*                                                                         *)
(* A handler looks at a session once and acts on what it saw.  What it saw *)
(* stays true while no other call works on the same session: then a wait   *)
(* that ended means what it says and no directory goes from under a job,   *)
(* whatever the job manager and OpenCode do meanwhile, and whatever is     *)
(* called for other sessions.                                              *)
(***************************************************************************)

\* A hypothesis about the callers, not about the code.
OneCallPerSession ==
    \A c, d \in Callers : c # d /\ pc[c] # "idle" /\ pc[d] # "idle" => On(c) # On(d)

\* A job was submitted once, to one session, before anything was sent for it.
Slots ==
    /\ \A s, t \in Sessions : current[s] # NoJob /\ current[t] = current[s] => t = s
    /\ \A s \in Sessions : current[s] # NoJob => status[current[s]] # "none"
    /\ \A j \in sent : status[j] # "none"

\* OpenCode runs and answers what it was sent; the turn that has given the
\* last answer of the session's job is over.
Turns ==
    \A s \in Sessions :
        /\ turn[s] # NoJob => turn[s] \in sent
        /\ last[s].by # NoJob => last[s].by \in sent
        /\ last[s].fin /\ last[s].by = current[s] => turn[s] = NoJob

\* What a call knows of its session.
IsFresh(c)  == pc[c] \in {"resolve", "submit"} => call[c].ended = "no"
IsQuiet(c)  == pc[c] \in {"verify", "cleanup"} => ~Running(On(c))
Awaits(c) ==
    /\ pc[c] \in {"local", "poll", "pollread"} => current[On(c)] = call[c].job
    /\ pc[c] \in {"poll", "pollread"} => status[call[c].job] \in Terminal
\* The wait saw the last answer of its job.
Answered(c) == call[c].was = [by |-> call[c].job, fin |-> TRUE]
HasAwaited(c) ==
    pc[c] \in {"tracked", "untracked", "read", "fetch", "reconcile"} /\ call[c].ended = "self" =>
        /\ current[On(c)] = call[c].job /\ call[c].job \in Jobs
        /\ status[call[c].job] \in Terminal
        /\ status[call[c].job] = "done" => ~Continuing(call[c].was)
        /\ Answered(c) => last[On(c)] = call[c].was
HasRead(c) ==
    pc[c] \in {"fetch", "reconcile"} /\ call[c].ended = "self" /\ Answered(c) => call[c].read = call[c].was

Knows(c) == IsFresh(c) /\ IsQuiet(c) /\ Awaits(c) /\ HasAwaited(c) /\ HasRead(c)

KnowsInv == TypeInv /\ Slots /\ Turns /\ \A c \in Callers : Knows(c)

LEMMA InitKnows == Init => KnowsInv
<1> SUFFICES ASSUME Init PROVE KnowsInv
  OBVIOUS
<1>1. TypeInv
  BY InitTypes
<1>2. Slots
  BY DEF Init, Slots
<1>3. Turns
  BY DEF Init, Turns, NoMessage
<1>4. ASSUME NEW c \in Callers PROVE pc[c] = "idle"
  BY DEF Init
<1>5. ASSUME NEW c \in Callers PROVE Knows(c)
  BY <1>4 DEF Knows, IsFresh, IsQuiet, Awaits, HasAwaited, HasRead
<1> QED
  BY <1>1, <1>2, <1>3, <1>5 DEF KnowsInv

-----------------------------------------------------------------------------
(* What a step may change of a session *)

\* Only these steps change what the managers and OpenCode say about jobs.
LEMMA StepKinds ==
  ASSUME [Next]_vars
  PROVE  \/ UNCHANGED <<status, place, current, sent, turn, last>>
         \/ \E c \in Callers, j \in Jobs : Submits(c, j)
         \/ \E c \in Callers : Reconciles(c)
         \/ \E s \in Sessions : PromptArrives(s) \/ TurnSpeaks(s) \/ TurnBreaks(s)
         \/ \E s \in Sessions, st \in Terminal : JobSettles(s, st)
<1>1. ASSUME NEW c \in Callers, CallBegins(c)
      PROVE  UNCHANGED <<status, place, current, sent, turn, last>>
  BY <1>1 DEF CallBegins, ExecuteCreates, FireBegins, CheckBegins, VerifyBegins, CleanupBegins,
              WorkspaceCall, ReplyReads, managerVars, serverVars
<1>2. ASSUME NEW c \in Callers, CallRuns(c)
      PROVE  \/ UNCHANGED <<status, place, current, sent, turn, last>>
             \/ \E j \in Jobs : Submits(c, j)
             \/ Reconciles(c)
  <2>1. CASE SubmitResolves(c) \/ SubmitRepeats(c) \/ SubmitRefused(c) \/ WaitLooksUp(c)
             \/ LocalWaitReturns(c) \/ PollJob(c) \/ PollMessages(c) \/ Tracks(c)
    BY <2>1 DEF SubmitResolves, SubmitRepeats, SubmitRefused, WaitLooksUp, LocalWaitReturns, PollJob, PollMessages,
                Tracks, managerVars, serverVars
  <2>2. CASE ReadsUntracked(c) \/ Reads(c) \/ FetchesPending(c) \/ VerifyEnds(c)
             \/ CleanupRemoves(c) \/ CleanupMarks(c) \/ ReplyPosts(c)
    BY <2>2 DEF ReadsUntracked, Reads, FetchesPending, VerifyEnds, CleanupRemoves, CleanupMarks,
                ReplyPosts, managerVars, serverVars
  <2> QED
    BY <1>2, <2>1, <2>2 DEF CallRuns
<1>3. ASSUME NEW c \in Callers, RemoteWaitReturns(c) \/ WaitExpires(c)
      PROVE  UNCHANGED <<status, place, current, sent, turn, last>>
  BY <1>3 DEF RemoteWaitReturns, WaitExpires, managerVars, serverVars
<1>4. ASSUME NEW s \in Sessions, NEW r \in Requests, TurnAsks(s, r)
      PROVE  UNCHANGED <<status, place, current, sent, turn, last>>
  BY <1>4 DEF TurnAsks, managerVars
<1>5. CASE UNCHANGED vars
  BY <1>5 DEF vars, managerVars, serverVars
<1> QED
  BY <1>1, <1>2, <1>3, <1>4, <1>5 DEF Next

LEMMA NextSlots ==
  ASSUME TypeInv, Slots, [Next]_vars
  PROVE  Slots'
<1> USE HandoffAssumption
<1>1. CASE UNCHANGED <<status, place, current, sent, turn, last>>
  BY <1>1 DEF Slots
<1>2. ASSUME NEW c \in Callers, NEW j \in Jobs, Submits(c, j)
      PROVE  Slots'
  <2>1. /\ status[j] = "none" /\ sent' = sent /\ pc[c] = "submit"
        /\ status' = [status EXCEPT ![j] = "running"] /\ current' = [current EXCEPT ![On(c)] = j]
    BY <1>2 DEF Submits, At
  <2>2. On(c) \in Sessions /\ \A s \in Sessions : current[s] \in Jobs \cup {NoJob}
    BY <2>1 DEF TypeInv, CallsType, ManagersType
  <2>3. status'[j] = "running" /\ \A i \in Jobs : i # j => status'[i] = status[i]
    BY <2>1 DEF TypeInv, ManagersType
  <2>4. current'[On(c)] = j /\ \A s \in Sessions : s # On(c) => current'[s] = current[s]
    BY <2>1, <2>2 DEF TypeInv, ManagersType
  <2>5. \A s \in Sessions : current[s] # j
    BY <2>1 DEF Slots
  <2>6. \A s, t \in Sessions : current'[s] # NoJob /\ current'[t] = current'[s] => t = s
    BY <2>2, <2>4, <2>5 DEF Slots
  <2>7. \A s \in Sessions : current'[s] # NoJob => status'[current'[s]] # "none"
    BY <2>2, <2>3, <2>4 DEF Slots
  <2>8. \A i \in sent' : status'[i] # "none"
    BY <2>1, <2>3 DEF Slots, TypeInv, ManagersType
  <2> QED
    BY <2>6, <2>7, <2>8 DEF Slots
<1>3. ASSUME NEW c \in Callers, Reconciles(c)
      PROVE  Slots'
  <2> DEFINE j == current[On(c)]
  <2>1. status' = [status EXCEPT ![j] = Reconciled(c)] /\ UNCHANGED <<current, sent>> /\ pc[c] = "reconcile"
    BY <1>3 DEF Reconciles, At
  <2>2. j \in Jobs /\ On(c) \in Sessions
    BY <2>1 DEF TypeInv, Tracked, CallsType
  <2>3. status[j] # "none"
    BY <2>2 DEF Slots
  <2>4. Reconciled(c) # "none"
    BY <2>3 DEF Reconciled
  <2>5. \A i \in Jobs : status[i] # "none" => status'[i] # "none"
    BY <2>1, <2>4 DEF TypeInv, ManagersType
  <2> QED
    BY <2>1, <2>5 DEF Slots, TypeInv, ManagersType
<1>4. ASSUME NEW s \in Sessions, PromptArrives(s)
      PROVE  Slots'
  BY <1>4 DEF PromptArrives, Slots
<1>5. ASSUME NEW s \in Sessions, TurnSpeaks(s) \/ TurnBreaks(s)
      PROVE  Slots'
  BY <1>5 DEF TurnSpeaks, TurnBreaks, managerVars, Slots
<1>6. ASSUME NEW s \in Sessions, NEW st \in Terminal, JobSettles(s, st)
      PROVE  Slots'
  <2>1. status' = [status EXCEPT ![current[s]] = st] /\ UNCHANGED <<current, sent>>
    BY <1>6 DEF JobSettles
  <2>2. \A i \in Jobs : status[i] # "none" => status'[i] # "none"
    BY <2>1 DEF TypeInv, ManagersType, Terminal
  <2> QED
    BY <2>1, <2>2 DEF Slots, TypeInv, ManagersType
<1> QED
  BY <1>1, <1>2, <1>3, <1>4, <1>5, <1>6, StepKinds

LEMMA NextTurns ==
  ASSUME TypeInv, Slots, Turns, [Next]_vars
  PROVE  Turns'
<1> USE HandoffAssumption
<1>1. CASE UNCHANGED <<status, place, current, sent, turn, last>>
  BY <1>1 DEF Turns
<1>2. ASSUME NEW c \in Callers, NEW j \in Jobs, Submits(c, j)
      PROVE  Turns'
  <2>1. status[j] = "none" /\ UNCHANGED <<sent, turn, last>> /\ current' = [current EXCEPT ![On(c)] = j]
    BY <1>2 DEF Submits, serverVars
  <2>2. \A s \in Sessions : last[s].by # j
    BY <2>1 DEF Slots, Turns
  <2>3. \A s \in Sessions : current'[s] = current[s] \/ current'[s] = j
    BY <2>1 DEF TypeInv, ManagersType
  <2> QED
    BY <2>1, <2>2, <2>3 DEF Turns
<1>3. ASSUME NEW c \in Callers, Reconciles(c)
      PROVE  Turns'
  BY <1>3 DEF Reconciles, serverVars, Turns
<1>4. ASSUME NEW s \in Sessions, PromptArrives(s)
      PROVE  Turns'
  <2>1. /\ current[s] # NoJob /\ current[s] \notin sent /\ sent' = sent \cup {current[s]}
        /\ turn' = [turn EXCEPT ![s] = current[s]] /\ UNCHANGED <<current, last>>
    BY <1>4 DEF PromptArrives
  <2>2. last[s].by # current[s]
    BY <2>1 DEF Turns
  <2>3. turn'[s] = current[s] /\ \A t \in Sessions : t # s => turn'[t] = turn[t]
    BY <2>1 DEF TypeInv, ServerType
  <2> QED
    BY <2>1, <2>2, <2>3 DEF Turns
<1>5. ASSUME NEW s \in Sessions, TurnSpeaks(s)
      PROVE  Turns'
  <2>1. PICK fin \in BOOLEAN :
          /\ last' = [last EXCEPT ![s] = [by |-> turn[s], fin |-> fin]]
          /\ turn' = IF fin THEN [turn EXCEPT ![s] = NoJob] ELSE turn
    BY <1>5 DEF TurnSpeaks
  <2>2. turn[s] \in sent /\ UNCHANGED <<sent, current>>
    BY <1>5 DEF TurnSpeaks, managerVars, Turns
  <2>3. last'[s].by = turn[s] /\ last'[s].fin = fin
    BY <2>1 DEF TypeInv, ServerType
  <2>4. turn'[s] = (IF fin THEN NoJob ELSE turn[s])
    BY <2>1 DEF TypeInv, ServerType
  <2>5. \A t \in Sessions : t # s => turn'[t] = turn[t] /\ last'[t] = last[t]
    BY <2>1 DEF TypeInv, ServerType
  <2> QED
    BY <2>2, <2>3, <2>4, <2>5 DEF Turns
<1>6. ASSUME NEW s \in Sessions, TurnBreaks(s)
      PROVE  Turns'
  <2>1. turn' = [turn EXCEPT ![s] = NoJob] /\ UNCHANGED <<last, sent, current>>
    BY <1>6 DEF TurnBreaks, managerVars
  <2> QED
    BY <2>1 DEF Turns, TypeInv, ServerType
<1>7. ASSUME NEW s \in Sessions, NEW st \in Terminal, JobSettles(s, st)
      PROVE  Turns'
  BY <1>7 DEF JobSettles, serverVars, Turns
<1> QED
  BY <1>1, <1>2, <1>3, <1>4, <1>5, <1>6, <1>7, StepKinds

\* What is settled in its slot is disturbed by a call about the session only.
SlotStays(s) ==
    /\ current'[s] = current[s]
    /\ current[s] # NoJob /\ status[current[s]] \in Terminal => status'[current[s]] = status[current[s]]

LEMMA SlotKept ==
  ASSUME TypeInv, Slots, [Next]_vars, NEW s \in Sessions
  PROVE  SlotStays(s) \/ \E c \in Callers : pc[c] \in {"submit", "reconcile"} /\ pc'[c] # pc[c] /\ On(c) = s
<1> USE HandoffAssumption
<1>1. CASE UNCHANGED <<status, place, current, sent, turn, last>>
  BY <1>1 DEF SlotStays
<1>2. ASSUME NEW c \in Callers, NEW j \in Jobs, Submits(c, j), On(c) # s
      PROVE  SlotStays(s)
  <2>1. /\ status[j] = "none"
        /\ status' = [status EXCEPT ![j] = "running"] /\ current' = [current EXCEPT ![On(c)] = j]
    BY <1>2 DEF Submits
  <2> QED
    BY <1>2, <2>1 DEF SlotStays, TypeInv, ManagersType, Terminal
<1>3. ASSUME NEW c \in Callers, Reconciles(c), On(c) # s
      PROVE  SlotStays(s)
  <2>1. status' = [status EXCEPT ![current[On(c)]] = Reconciled(c)] /\ current' = current /\ pc[c] = "reconcile"
    BY <1>3 DEF Reconciles, At
  <2>2. current[On(c)] \in Jobs /\ On(c) \in Sessions
    BY <2>1 DEF TypeInv, Tracked, CallsType
  <2>3. current[s] # current[On(c)]
    BY <1>3, <2>2 DEF Slots
  <2> QED
    BY <2>1, <2>3 DEF SlotStays, TypeInv, ManagersType
<1>4. ASSUME NEW t \in Sessions, PromptArrives(t) \/ TurnSpeaks(t) \/ TurnBreaks(t)
      PROVE  SlotStays(s)
  BY <1>4 DEF PromptArrives, TurnSpeaks, TurnBreaks, managerVars, SlotStays
<1>5. ASSUME NEW t \in Sessions, NEW st \in Terminal, JobSettles(t, st)
      PROVE  SlotStays(s)
  <2>1. status[current[t]] = "running" /\ status' = [status EXCEPT ![current[t]] = st] /\ current' = current
    BY <1>5 DEF JobSettles
  <2> QED
    BY <2>1 DEF SlotStays, TypeInv, ManagersType, Terminal
<1>6. \A c \in Callers, j \in Jobs : Submits(c, j) => pc[c] = "submit" /\ pc'[c] # pc[c]
  BY DEF Submits, At, Goto, TypeInv, CallsType
<1>7. \A c \in Callers : Reconciles(c) => pc[c] = "reconcile" /\ pc'[c] # pc[c]
  BY DEF Reconciles, At, Return, Goto, TypeInv, CallsType
<1> QED
  BY <1>1, <1>2, <1>3, <1>4, <1>5, <1>6, <1>7, StepKinds

\* The last answer of the session's job is its last message.
LEMMA AnswerKept ==
  ASSUME TypeInv, Turns, [Next]_vars, NEW s \in Sessions, last[s].fin, last[s].by = current[s]
  PROVE  last'[s] = last[s]
<1>1. turn[s] = NoJob
  BY DEF Turns
<1>2. ASSUME NEW t \in Sessions, TurnSpeaks(t)
      PROVE  last'[s] = last[s]
  BY <1>1, <1>2 DEF TurnSpeaks, TypeInv, ServerType
<1>3. ASSUME NEW c \in Callers, (\E j \in Jobs : Submits(c, j)) \/ Reconciles(c)
      PROVE  last' = last
  BY <1>3 DEF Submits, Reconciles, serverVars
<1>4. ASSUME NEW t \in Sessions, PromptArrives(t) \/ TurnBreaks(t) \/ \E st \in Terminal : JobSettles(t, st)
      PROVE  last' = last
  BY <1>4 DEF PromptArrives, TurnBreaks, JobSettles, serverVars
<1> QED
  BY <1>2, <1>3, <1>4, StepKinds

LEMMA RoomKinds ==
  ASSUME [Next]_vars
  PROVE  \/ UNCHANGED <<record, dir>>
         \/ \E c \in Callers, s \in Sessions : ExecuteCreates(c, s)
         \/ \E c \in Callers : CleanupRemoves(c) \/ CleanupMarks(c)
<1>1. ASSUME NEW c \in Callers, NEW s \in Sessions,
             FireBegins(c, s) \/ CheckBegins(c, s) \/ VerifyBegins(c, s) \/ CleanupBegins(c, s) \/ ReplyReads(c, s)
      PROVE  UNCHANGED <<record, dir>>
  BY <1>1 DEF FireBegins, CheckBegins, VerifyBegins, CleanupBegins, WorkspaceCall, ReplyReads, spaceVars
<1>2. ASSUME NEW c \in Callers, CallRuns(c)
      PROVE  UNCHANGED <<record, dir>> \/ CleanupRemoves(c) \/ CleanupMarks(c)
  <2>1. CASE SubmitResolves(c) \/ (\E j \in Jobs : Submits(c, j)) \/ SubmitRepeats(c) \/ SubmitRefused(c)
             \/ WaitLooksUp(c) \/ LocalWaitReturns(c) \/ PollJob(c) \/ PollMessages(c) \/ Tracks(c)
    BY <2>1 DEF SubmitResolves, Submits, SubmitRepeats, SubmitRefused, WaitLooksUp, LocalWaitReturns, PollJob,
                PollMessages, Tracks, spaceVars
  <2>2. CASE ReadsUntracked(c) \/ Reads(c) \/ Reconciles(c) \/ FetchesPending(c) \/ VerifyEnds(c)
             \/ ReplyPosts(c)
    BY <2>2 DEF ReadsUntracked, Reads, Reconciles, FetchesPending, VerifyEnds, ReplyPosts, spaceVars
  <2> QED
    BY <1>2, <2>1, <2>2 DEF CallRuns
<1>3. ASSUME NEW c \in Callers, RemoteWaitReturns(c) \/ WaitExpires(c)
      PROVE  UNCHANGED <<record, dir>>
  BY <1>3 DEF RemoteWaitReturns, WaitExpires, spaceVars
<1>4. ASSUME NEW s \in Sessions,
             PromptArrives(s) \/ TurnSpeaks(s) \/ TurnBreaks(s) \/ (\E st \in Terminal : JobSettles(s, st))
             \/ \E r \in Requests : TurnAsks(s, r)
      PROVE  UNCHANGED <<record, dir>>
  BY <1>4 DEF PromptArrives, TurnSpeaks, TurnBreaks, JobSettles, TurnAsks, spaceVars
<1>5. CASE UNCHANGED vars
  BY <1>5 DEF vars, spaceVars
<1> QED
  BY <1>1, <1>2, <1>3, <1>4, <1>5 DEF Next, CallBegins

\* A session once known stays so, and its directory does not come back; it goes
\* by a cleanup.
LEMMA RoomKept ==
  ASSUME TypeInv, [Next]_vars, NEW s \in Sessions
  PROVE  /\ Known(s) => Known(s)' /\ (dir'[s] => dir[s])
         /\ dir[s] /\ ~dir'[s] => ~Known(s) \/ \E c \in Callers : pc[c] = "cleanup" /\ On(c) = s
<1>1. CASE UNCHANGED <<record, dir>>
  BY <1>1 DEF Known
<1>2. ASSUME NEW c \in Callers, NEW t \in Sessions, ExecuteCreates(c, t)
      PROVE  Known(s) => Known(s)' /\ dir'[s] = dir[s]
  <2>1. PICK kind \in {"owned", "direct"} :
          record' = [record EXCEPT ![t] = kind] /\ dir' = [dir EXCEPT ![t] = kind = "owned"]
    BY <1>2 DEF ExecuteCreates
  <2>2. ~Known(t)
    BY <1>2 DEF ExecuteCreates
  <2> QED
    BY <2>1, <2>2 DEF Known, TypeInv, ManagersType
<1>3. ASSUME NEW c \in Callers, CleanupRemoves(c)
      PROVE  record' = record /\ (dir'[s] = dir[s] \/ (~dir'[s] /\ pc[c] = "cleanup" /\ On(c) = s))
  BY <1>3 DEF CleanupRemoves, At, spaceVars, TypeInv, ManagersType
<1>4. ASSUME NEW c \in Callers, CleanupMarks(c)
      PROVE  dir' = dir /\ (Known(s) => Known(s)')
  BY <1>4 DEF CleanupMarks, Known, TypeInv, ManagersType
<1> QED
  BY <1>1, <1>2, <1>3, <1>4, RoomKinds DEF Known

\* A call keeps what it knows while others act.
LEMMA OthersAct ==
  ASSUME KnowsInv, OneCallPerSession, [Next]_vars,
         NEW d \in Callers, pc'[d] = pc[d], call'[d] = call[d]
  PROVE  Knows(d)'
<1> USE HandoffAssumption
<1> DEFINE s == On(d)
<1>1. CASE pc[d] = "idle"
  BY <1>1 DEF Knows, IsFresh, IsQuiet, Awaits, HasAwaited, HasRead
<1>2. CASE pc[d] # "idle"
  <2>1. s \in Sessions /\ On(d)' = s
    BY <1>2 DEF KnowsInv, TypeInv, CallsType, On
  <2>2. \A c \in Callers : pc[c] # "idle" /\ On(c) = s => c = d
    BY <1>2 DEF OneCallPerSession
  <2>3. SlotStays(s)
    BY <2>1, <2>2, SlotKept DEF KnowsInv
  <2>5. current[s] \in Jobs \cup {NoJob} /\ call[d].job \in Jobs \cup {NoJob}
    BY <2>1 DEF KnowsInv, TypeInv, ManagersType, CallsType, Locals
  <2>6. IsFresh(d)'
    BY DEF KnowsInv, Knows, IsFresh
  <2>7. IsQuiet(d)'
    <3>1. CASE pc[d] \in {"verify", "cleanup"}
      <4>1. ~Running(s)
        BY <3>1 DEF KnowsInv, Knows, IsQuiet
      <4>2. ASSUME current[s] # NoJob PROVE status[current[s]] \in Terminal
        <5>1. status[current[s]] \in Terminal \cup {"none", "running"}
          BY <2>5, <4>2 DEF KnowsInv, TypeInv, ManagersType
        <5>2. status[current[s]] # "none"
          BY <2>1, <4>2 DEF KnowsInv, Slots
        <5> QED
          BY <4>1, <4>2, <5>1, <5>2 DEF Running
      <4>3. current'[s] = NoJob \/ status'[current'[s]] \in Terminal
        BY <2>3, <4>2 DEF SlotStays
      <4>4. ~(current'[s] # NoJob /\ status'[current'[s]] = "running")
        BY <4>3 DEF Terminal
      <4> QED
        BY <2>1, <4>4 DEF IsQuiet, Running
    <3> QED
      BY <3>1 DEF IsQuiet
  <2>8. Awaits(d)'
    BY <2>1, <2>3 DEF KnowsInv, TypeInv, Tracked, Knows, Awaits, SlotStays
  <2>9. HasAwaited(d)'
    <3> SUFFICES ASSUME pc[d] \in {"tracked", "untracked", "read", "fetch", "reconcile"}, call[d].ended = "self"
                 PROVE  HasAwaited(d)'
      BY DEF HasAwaited
    <3>1. /\ current[s] = call[d].job /\ call[d].job \in Jobs
          /\ status[call[d].job] \in Terminal
          /\ status[call[d].job] = "done" => ~Continuing(call[d].was)
          /\ Answered(d) => last[s] = call[d].was
      BY DEF KnowsInv, Knows, HasAwaited
    <3>2. current'[s] = call[d].job /\ status'[call[d].job] = status[call[d].job]
      BY <2>3, <3>1 DEF SlotStays
    <3>3. Answered(d) => last'[s] = call[d].was
      BY <2>1, <3>1, AnswerKept DEF Answered, KnowsInv
    <3> QED
      BY <2>1, <3>1, <3>2, <3>3 DEF HasAwaited, Answered
  <2>10. HasRead(d)'
    BY DEF KnowsInv, Knows, HasRead, Answered
  <2> QED
    BY <2>6, <2>7, <2>8, <2>9, <2>10 DEF Knows
<1> QED
  BY <1>1, <1>2

-----------------------------------------------------------------------------
(* What a call knows after a step of its own *)

\* Points at which a call relies on nothing it saw.
LEMMA NothingToKnow ==
  ASSUME NEW c \in Callers, pc'[c] \in {"idle", "wait", "remote", "pending", "mark", "reply"}
  PROVE  Knows(c)'
  BY DEF Knows, IsFresh, IsQuiet, Awaits, HasAwaited, HasRead

\* A check that has not awaited the end of a job.
LEMMA NothingAwaited ==
  ASSUME NEW c \in Callers, pc'[c] \in {"tracked", "untracked", "read", "fetch", "reconcile"},
         call'[c].ended # "self"
  PROVE  Knows(c)'
  BY DEF Knows, IsFresh, IsQuiet, Awaits, HasAwaited, HasRead

LEMMA StepOfOthers ==
  ASSUME TypeInv, NEW c \in Callers,
         CallBegins(c) \/ CallRuns(c) \/ RemoteWaitReturns(c) \/ WaitExpires(c),
         NEW d \in Callers, d # c
  PROVE  pc'[d] = pc[d] /\ call'[d] = call[d]
<1> USE DEF TypeInv, CallsType, Goto, Return
<1>1. ASSUME NEW s \in Sessions, ExecuteCreates(c, s)
      PROVE  pc'[d] = pc[d] /\ call'[d] = call[d]
  BY <1>1 DEF ExecuteCreates, Begin
<1>2. ASSUME NEW s \in Sessions,
             FireBegins(c, s) \/ CheckBegins(c, s) \/ VerifyBegins(c, s) \/ CleanupBegins(c, s) \/ ReplyReads(c, s)
      PROVE  pc'[d] = pc[d] /\ call'[d] = call[d]
  BY <1>2 DEF FireBegins, CheckBegins, VerifyBegins, CleanupBegins, WorkspaceCall, ReplyReads, Begin
<1>3. CASE SubmitResolves(c) \/ (\E j \in Jobs : Submits(c, j)) \/ SubmitRepeats(c) \/ SubmitRefused(c)
  BY <1>3 DEF SubmitResolves, Submits, SubmitRepeats, SubmitRefused
<1>4. CASE WaitLooksUp(c) \/ LocalWaitReturns(c) \/ PollJob(c) \/ PollMessages(c)
  BY <1>4 DEF WaitLooksUp, LocalWaitReturns, PollJob, PollMessages, WaitEnds
<1>5. CASE Tracks(c) \/ ReadsUntracked(c) \/ Reads(c) \/ Reconciles(c) \/ FetchesPending(c)
  BY <1>5 DEF Tracks, ReadsUntracked, Reads, Reconciles, FetchesPending
<1>6. CASE VerifyEnds(c) \/ CleanupRemoves(c) \/ CleanupMarks(c) \/ ReplyPosts(c)
  BY <1>6 DEF VerifyEnds, CleanupRemoves, CleanupMarks, ReplyPosts
<1>7. CASE RemoteWaitReturns(c) \/ WaitExpires(c)
  BY <1>7 DEF RemoteWaitReturns, WaitExpires, WaitEnds
<1> QED
  BY <1>1, <1>2, <1>3, <1>4, <1>5, <1>6, <1>7 DEF CallBegins, CallRuns

LEMMA Begun ==
  ASSUME TypeInv, NEW c \in Callers, NEW o \in AllTools, NEW s \in Sessions, NEW p, Begin(c, o, s, p)
  PROVE  pc'[c] = p /\ call'[c].on = s /\ call'[c].ended = "no"
<1>1. pc' = [pc EXCEPT ![c] = p] /\ call' = [call EXCEPT ![c] = [NoCall EXCEPT !.op = o, !.on = s]]
  BY DEF Begin, Goto
<1>2. [NoCall EXCEPT !.op = o, !.on = s].on = s /\ [NoCall EXCEPT !.op = o, !.on = s].ended = "no"
  BY DEF NoCall
<1> QED
  BY <1>1, <1>2 DEF TypeInv, CallsType

\* A call that begins knows what it looked at.
LEMMA BeginningKnows ==
  ASSUME KnowsInv, NEW c \in Callers, NEW s \in Sessions,
         \/ ExecuteCreates(c, s) /\ Begin(c, "execute", s, "resolve")
         \/ FireBegins(c, s) \/ CheckBegins(c, s)
         \/ VerifyBegins(c, s) \/ CleanupBegins(c, s) \/ ReplyReads(c, s)
  PROVE  Knows(c)'
<1>0. TypeInv
  BY DEF KnowsInv
<1>1. CASE (ExecuteCreates(c, s) /\ Begin(c, "execute", s, "resolve")) \/ FireBegins(c, s)
  <2>1. PICK o \in AllTools : Begin(c, o, s, "resolve")
    BY <1>1 DEF FireBegins, AllTools
  <2>2. pc'[c] = "resolve" /\ call'[c].ended = "no"
    BY <1>0, <2>1, Begun
  <2> QED
    BY <2>2 DEF Knows, IsFresh, IsQuiet, Awaits, HasAwaited, HasRead
<1>2. CASE CheckBegins(c, s)
  <2>1. PICK p \in {"wait", "tracked"} : Begin(c, "check", s, p)
    BY <1>2 DEF CheckBegins
  <2>2. pc'[c] = p /\ call'[c].ended = "no"
    BY <1>0, <2>1, Begun DEF AllTools
  <2> QED
    BY <2>2, NothingToKnow, NothingAwaited
<1>3. CASE VerifyBegins(c, s) \/ CleanupBegins(c, s)
  <2>1. PICK o \in {"verify", "cleanup"} : Begin(c, o, s, o)
    BY <1>3 DEF VerifyBegins, CleanupBegins, WorkspaceCall
  <2>2. pc'[c] \in {"verify", "cleanup"} /\ call'[c].on = s
    BY <1>0, <2>1, Begun DEF AllTools
  <2>3. Inactive(s) /\ UNCHANGED <<current, status>>
    BY <1>3 DEF VerifyBegins, CleanupBegins, WorkspaceCall, managerVars
  <2>4. IsQuiet(c)'
    BY <2>2, <2>3 DEF IsQuiet, Inactive, Running, Terminal, On
  <2> QED
    BY <2>2, <2>4 DEF Knows, IsFresh, Awaits, HasAwaited, HasRead
<1>4. CASE ReplyReads(c, s)
  <2>1. pc'[c] = "reply"
    BY <1>0, <1>4 DEF ReplyReads, Goto, TypeInv, CallsType
  <2> QED
    BY <2>1, NothingToKnow
<1> QED
  BY <1>1, <1>2, <1>3, <1>4

\* Where a wait that is over goes, and what it keeps.
LEMMA WaitOverKeeps ==
  ASSUME TypeInv, NEW c \in Callers, pc[c] # "idle", NEW how \in Endings, WaitEnds(c, how)
  PROVE  /\ pc'[c] \in {"pending", "tracked"}
         /\ call'[c].on = On(c) /\ call'[c].job = call[c].job
         /\ call'[c].ended = how /\ call'[c].was = last[On(c)]
<1>1. call[c] \in Locals /\ On(c) \in Sessions
  BY DEF TypeInv, CallsType
<1>2. call'[c] = [call[c] EXCEPT !.ended = how, !.was = last[On(c)]]
  BY DEF WaitEnds, TypeInv, CallsType
<1>3. pc'[c] \in {"pending", "tracked"}
  BY DEF WaitEnds, Goto, TypeInv, CallsType
<1> QED
  BY <1>1, <1>2, <1>3 DEF Locals, On

\* A wait that ends by itself leaves a job that is settled, and more than done
\* only where the messages do not go on.
LEMMA AwaitedKnows ==
  ASSUME KnowsInv, NEW c \in Callers, pc[c] \in {"poll", "pollread"}, WaitEnds(c, "self"),
         UNCHANGED <<managerVars, serverVars>>,
         status[call[c].job] = "done" => ~Continuing(last[On(c)])
  PROVE  Knows(c)'
<1>1. TypeInv
  BY DEF KnowsInv
<1>2. /\ pc'[c] \in {"pending", "tracked"}
      /\ call'[c].on = On(c) /\ call'[c].job = call[c].job
      /\ call'[c].ended = "self" /\ call'[c].was = last[On(c)]
  BY <1>1, WaitOverKeeps DEF Endings
<1>3. current[On(c)] = call[c].job /\ call[c].job \in Jobs /\ status[call[c].job] \in Terminal
  BY DEF KnowsInv, Knows, Awaits, TypeInv, Tracked
<1>4. UNCHANGED <<current, status, last>>
  BY DEF managerVars, serverVars
<1>5. CASE pc'[c] = "pending"
  BY <1>5, NothingToKnow
<1>6. CASE pc'[c] = "tracked"
  <2>1. HasAwaited(c)'
    BY <1>2, <1>3, <1>4, <1>6 DEF HasAwaited, On, Answered
  <2> QED
    BY <1>6, <2>1 DEF Knows, IsFresh, IsQuiet, Awaits, HasRead
<1> QED
  BY <1>2, <1>5, <1>6

LEMMA SubmissionKnows ==
  ASSUME KnowsInv, NEW c \in Callers,
         \/ SubmitResolves(c) \/ (\E j \in Jobs : Submits(c, j))
         \/ SubmitRepeats(c) \/ SubmitRefused(c)
  PROVE  Knows(c)'
<1>0. TypeInv
  BY DEF KnowsInv
<1>1. CASE SubmitResolves(c)
  <2>1. pc[c] = "resolve" /\ pc'[c] = "submit"
    BY <1>0, <1>1 DEF SubmitResolves, At, Goto, TypeInv, CallsType
  <2>2. call'[c] = [call[c] EXCEPT !.loc = Resolved(On(c))] /\ call[c] \in Locals
    BY <1>0, <1>1 DEF SubmitResolves, TypeInv, CallsType
  <2>3. call'[c].ended = call[c].ended
    BY <2>2 DEF Locals
  <2>4. IsFresh(c)'
    BY <2>1, <2>3 DEF KnowsInv, Knows, IsFresh
  <2> QED
    BY <2>1, <2>4 DEF Knows, IsQuiet, Awaits, HasAwaited, HasRead
<1>2. CASE (\E j \in Jobs : Submits(c, j)) \/ SubmitRepeats(c)
  <2>1. pc[c] = "submit" /\ call' = call /\ pc'[c] \in {"wait", "tracked", "pending"}
    BY <1>0, <1>2 DEF Submits, SubmitRepeats, At, Goto, TypeInv, CallsType
  <2>2. call'[c].ended = "no"
    BY <2>1 DEF KnowsInv, Knows, IsFresh
  <2> QED
    BY <2>1, <2>2, NothingToKnow, NothingAwaited
<1>3. CASE SubmitRefused(c)
  <2>1. pc'[c] = "idle"
    BY <1>0, <1>3 DEF SubmitRefused, Return, Goto, TypeInv, CallsType
  <2> QED
    BY <2>1, NothingToKnow
<1> QED
  BY <1>1, <1>2, <1>3

LEMMA WaitingKnows ==
  ASSUME KnowsInv, NEW c \in Callers,
         \/ WaitLooksUp(c) \/ LocalWaitReturns(c) \/ PollJob(c) \/ PollMessages(c)
         \/ RemoteWaitReturns(c) \/ WaitExpires(c)
  PROVE  Knows(c)'
<1> USE HandoffAssumption
<1>0. TypeInv
  BY DEF KnowsInv
<1>1. UNCHANGED <<managerVars, serverVars, status, current>>
  BY DEF WaitLooksUp, LocalWaitReturns, PollJob, PollMessages, RemoteWaitReturns, WaitExpires, managerVars
<1>2. ASSUME NEW how \in {"remote", "expired"}, pc[c] # "idle", WaitEnds(c, how)
      PROVE  Knows(c)'
  <2>1. pc'[c] \in {"pending", "tracked"} /\ call'[c].ended = how
    BY <1>0, <1>2, WaitOverKeeps DEF Endings
  <2> QED
    BY <2>1, NothingToKnow, NothingAwaited
<1>3. CASE WaitLooksUp(c)
  <2>1. pc[c] = "wait" /\ pc'[c] = (IF current[On(c)] = NoJob THEN "remote" ELSE "local")
    BY <1>0, <1>3 DEF WaitLooksUp, At, Goto, TypeInv, CallsType
  <2>2. call'[c] = [call[c] EXCEPT !.job = current[On(c)]] /\ call[c] \in Locals
    BY <1>0, <1>3 DEF WaitLooksUp, TypeInv, CallsType
  <2>3. call'[c].on = On(c) /\ call'[c].job = current[On(c)]
    BY <2>2 DEF Locals, On
  <2>4. CASE current[On(c)] = NoJob
    BY <2>1, <2>4, NothingToKnow
  <2>5. CASE current[On(c)] # NoJob
    <3>1. Awaits(c)'
      BY <1>1, <2>1, <2>3, <2>5 DEF Awaits, On
    <3> QED
      BY <2>1, <2>5, <3>1 DEF Knows, IsFresh, IsQuiet, HasAwaited, HasRead
  <2> QED
    BY <2>4, <2>5
<1>4. CASE RemoteWaitReturns(c) \/ WaitExpires(c)
  BY <1>2, <1>4 DEF RemoteWaitReturns, WaitExpires, At
<1>5. CASE LocalWaitReturns(c)
  <2>1. pc[c] = "local" /\ status[call[c].job] \in Terminal
    BY <1>5 DEF LocalWaitReturns, At
  <2>2. CASE call[c].op = "fire"
    <3>1. pc'[c] = "pending"
      BY <1>0, <1>5, <2>2 DEF LocalWaitReturns, WaitEnds, Goto, TypeInv, CallsType
    <3> QED
      BY <3>1, NothingToKnow
  <2>3. CASE call[c].op # "fire"
    <3>1. pc'[c] = "poll" /\ call' = call
      BY <1>0, <1>5, <2>3 DEF LocalWaitReturns, Goto, TypeInv, CallsType
    <3>2. current[On(c)] = call[c].job
      BY <2>1 DEF KnowsInv, Knows, Awaits
    <3>3. Awaits(c)'
      BY <1>1, <2>1, <3>1, <3>2 DEF Awaits, On
    <3> QED
      BY <3>1, <3>3 DEF Knows, IsFresh, IsQuiet, HasAwaited, HasRead
  <2> QED
    BY <2>2, <2>3
<1>6. ASSUME pc[c] \in {"poll", "pollread"}, NEW p \in {"poll", "pollread"}, Goto(c, p), UNCHANGED call
      PROVE  Knows(c)'
  <2>1. pc'[c] = p
    BY <1>0, <1>6 DEF Goto, TypeInv, CallsType
  <2>2. Awaits(c)'
    BY <1>1, <1>6, <2>1 DEF KnowsInv, Knows, Awaits, On
  <2> QED
    BY <2>1, <2>2 DEF Knows, IsFresh, IsQuiet, HasAwaited, HasRead
<1>7. CASE PollJob(c)
  <2>1. pc[c] = "poll" /\ current[On(c)] = call[c].job
    BY <1>7 DEF PollJob, At, KnowsInv, Knows, Awaits
  <2>2. CASE status[current[On(c)]] \in {"error", "canceled", "timed_out"}
    <3>1. WaitEnds(c, "self")
      BY <1>7, <2>2 DEF PollJob
    <3> QED
      BY <1>1, <2>1, <2>2, <3>1, AwaitedKnows
  <2>3. CASE status[current[On(c)]] \notin {"error", "canceled", "timed_out"}
    BY <1>6, <1>7, <2>1, <2>3 DEF PollJob
  <2> QED
    BY <2>2, <2>3
<1>8. CASE PollMessages(c)
  <2>1. pc[c] = "pollread"
    BY <1>8 DEF PollMessages, At
  <2>2. CASE ~Continuing(last[On(c)]) /\ WaitEnds(c, "self")
    BY <1>1, <2>1, <2>2, AwaitedKnows
  <2>3. CASE Goto(c, "poll") /\ UNCHANGED call
    BY <1>6, <2>1, <2>3
  <2> QED
    BY <1>8, <2>2, <2>3 DEF PollMessages
<1> QED
  BY <1>3, <1>4, <1>5, <1>7, <1>8

LEMMA CheckingKnows ==
  ASSUME KnowsInv, NEW c \in Callers,
         Tracks(c) \/ ReadsUntracked(c) \/ Reads(c) \/ Reconciles(c) \/ FetchesPending(c)
  PROVE  Knows(c)'
<1>0. TypeInv
  BY DEF KnowsInv
<1>1. CASE Tracks(c)
  <2>1. pc[c] = "tracked" /\ pc'[c] \in {"untracked", "read"} /\ call' = call
    BY <1>0, <1>1 DEF Tracks, At, Goto, TypeInv, CallsType
  <2>2. UNCHANGED <<current, status, last>>
    BY <1>1 DEF Tracks, managerVars, serverVars
  <2>3. HasAwaited(c)'
    BY <2>1, <2>2 DEF KnowsInv, Knows, HasAwaited, Answered, On
  <2> QED
    BY <2>1, <2>3 DEF Knows, IsFresh, IsQuiet, Awaits, HasRead
<1>2. CASE ReadsUntracked(c) \/ Reconciles(c) \/ (FetchesPending(c) /\ Return(c)) \/ (Reads(c) /\ Return(c))
  <2>1. pc'[c] \in {"pending", "idle"}
    BY <1>0, <1>2 DEF ReadsUntracked, Reconciles, Return, Goto, TypeInv, CallsType
  <2> QED
    BY <2>1, NothingToKnow
<1>3. CASE Reads(c) /\ Goto(c, "fetch") /\ call' = [call EXCEPT ![c].read = last[On(c)]]
  <2>1. pc[c] = "read" /\ pc'[c] = "fetch"
    BY <1>0, <1>3 DEF Reads, At, Goto, TypeInv, CallsType
  <2>2. UNCHANGED <<current, status, last>>
    BY <1>3 DEF Reads, managerVars, serverVars
  <2>3. call'[c] = [call[c] EXCEPT !.read = last[On(c)]] /\ call[c] \in Locals
    BY <1>0, <1>3 DEF TypeInv, CallsType
  <2>4. /\ call'[c].on = On(c) /\ call'[c].job = call[c].job /\ call'[c].was = call[c].was
        /\ call'[c].ended = call[c].ended /\ call'[c].read = last[On(c)]
    BY <2>3 DEF Locals, On
  <2>5. HasAwaited(c)
    BY DEF KnowsInv, Knows
  <2>6. HasAwaited(c)'
    BY <2>1, <2>2, <2>4, <2>5 DEF HasAwaited, Answered, On
  <2>7. HasRead(c)'
    BY <2>1, <2>4, <2>5 DEF HasAwaited, HasRead, Answered
  <2> QED
    BY <2>1, <2>6, <2>7 DEF Knows, IsFresh, IsQuiet, Awaits
<1>4. CASE FetchesPending(c) /\ pc[c] = "fetch" /\ Goto(c, "reconcile") /\ UNCHANGED call
  <2>1. pc[c] = "fetch" /\ pc'[c] = "reconcile" /\ call' = call
    BY <1>0, <1>4 DEF Goto, TypeInv, CallsType
  <2>2. UNCHANGED <<current, status, last>>
    BY <1>4 DEF FetchesPending, managerVars, serverVars
  <2>3. HasAwaited(c)' /\ HasRead(c)'
    BY <2>1, <2>2 DEF KnowsInv, Knows, HasAwaited, HasRead, Answered, On
  <2> QED
    BY <2>1, <2>3 DEF Knows, IsFresh, IsQuiet, Awaits
<1> QED
  BY <1>1, <1>2, <1>3, <1>4 DEF Reads, FetchesPending

LEMMA EndingKnows ==
  ASSUME KnowsInv, NEW c \in Callers,
         VerifyEnds(c) \/ CleanupRemoves(c) \/ CleanupMarks(c) \/ ReplyPosts(c)
  PROVE  Knows(c)'
<1>1. pc'[c] \in {"pending", "mark", "idle"}
  BY DEF KnowsInv, VerifyEnds, CleanupRemoves, CleanupMarks, ReplyPosts, Return, Goto, TypeInv, CallsType
<1> QED
  BY <1>1, NothingToKnow

\* Every call keeps or renews what it knows, if the calls on its session are
\* made one after the other.
LEMMA NextKnows ==
  ASSUME KnowsInv, OneCallPerSession, [Next]_vars
  PROVE  KnowsInv'
<1>1. TypeInv /\ Slots /\ Turns
  BY DEF KnowsInv
<1>2. TypeInv' /\ Slots' /\ Turns'
  BY <1>1, NextTypes, NextSlots, NextTurns
<1>3. CASE UNCHANGED <<pc, call>>
  <2>1. \A d \in Callers : Knows(d)'
    BY <1>3, OthersAct
  <2> QED
    BY <1>2, <2>1 DEF KnowsInv
<1>4. ASSUME NEW c \in Callers, CallBegins(c) \/ CallRuns(c) \/ RemoteWaitReturns(c) \/ WaitExpires(c)
      PROVE  UNCHANGED <<pc, call>> \/ Knows(c)'
  <2>1. CASE CallBegins(c)
    BY <2>1, BeginningKnows DEF CallBegins, ExecuteCreates
  <2>2. CASE CallRuns(c) \/ RemoteWaitReturns(c) \/ WaitExpires(c)
    BY <2>2, SubmissionKnows, WaitingKnows, CheckingKnows, EndingKnows DEF CallRuns
  <2> QED
    BY <1>4, <2>1, <2>2
<1>5. ASSUME NEW c \in Callers, CallBegins(c) \/ CallRuns(c) \/ RemoteWaitReturns(c) \/ WaitExpires(c), Knows(c)'
      PROVE  KnowsInv'
  <2>1. ASSUME NEW d \in Callers PROVE Knows(d)'
    <3>1. CASE d = c
      BY <1>5, <3>1
    <3>2. CASE d # c
      BY <1>1, <1>5, <3>2, StepOfOthers, OthersAct
    <3> QED
      BY <3>1, <3>2
  <2> QED
    BY <1>2, <2>1 DEF KnowsInv
<1>6. UNCHANGED <<pc, call>> \/ \E c \in Callers : CallBegins(c) \/ CallRuns(c) \/ RemoteWaitReturns(c) \/ WaitExpires(c)
  BY DEF Next, vars, PromptArrives, TurnSpeaks, TurnBreaks, JobSettles, TurnAsks
<1> QED
  BY <1>3, <1>4, <1>5, <1>6

LEMMA KnowsHolds == Spec /\ []OneCallPerSession => []KnowsInv
<1>1. Init => KnowsInv
  BY InitKnows
<1>2. KnowsInv /\ OneCallPerSession /\ [Next]_vars => KnowsInv'
  BY NextKnows
<1> QED
  BY <1>1, <1>2, PTL DEF Spec

-----------------------------------------------------------------------------
(* What follows for the results, the prompts and the directories *)

LEMMA ResultKinds ==
  ASSUME [Next]_vars
  PROVE  result' = result \/ \E c \in Callers : ReadsUntracked(c) \/ Reconciles(c)
<1>1. ASSUME NEW c \in Callers, NEW s \in Sessions,
             ExecuteCreates(c, s) \/ FireBegins(c, s) \/ CheckBegins(c, s) \/ VerifyBegins(c, s)
             \/ CleanupBegins(c, s) \/ ReplyReads(c, s)
      PROVE  result' = result
  BY <1>1 DEF ExecuteCreates, FireBegins, CheckBegins, VerifyBegins, CleanupBegins, WorkspaceCall,
              ReplyReads, callerVars
<1>2. ASSUME NEW c \in Callers, CallRuns(c)
      PROVE  result' = result \/ ReadsUntracked(c) \/ Reconciles(c)
  <2>1. CASE SubmitResolves(c) \/ (\E j \in Jobs : Submits(c, j)) \/ SubmitRepeats(c) \/ SubmitRefused(c)
             \/ WaitLooksUp(c) \/ LocalWaitReturns(c) \/ PollJob(c) \/ PollMessages(c) \/ Tracks(c)
    BY <2>1 DEF SubmitResolves, Submits, SubmitRepeats, SubmitRefused, WaitLooksUp, LocalWaitReturns, PollJob,
                PollMessages, Tracks, callerVars
  <2>2. CASE Reads(c) \/ FetchesPending(c) \/ VerifyEnds(c) \/ CleanupRemoves(c) \/ CleanupMarks(c)
             \/ ReplyPosts(c)
    BY <2>2 DEF Reads, FetchesPending, VerifyEnds, CleanupRemoves, CleanupMarks, ReplyPosts, callerVars
  <2> QED
    BY <1>2, <2>1, <2>2 DEF CallRuns
<1>3. ASSUME NEW c \in Callers, RemoteWaitReturns(c) \/ WaitExpires(c)
      PROVE  result' = result
  BY <1>3 DEF RemoteWaitReturns, WaitExpires, callerVars
<1>4. ASSUME NEW s \in Sessions,
             PromptArrives(s) \/ TurnSpeaks(s) \/ TurnBreaks(s) \/ (\E st \in Terminal : JobSettles(s, st))
             \/ \E r \in Requests : TurnAsks(s, r)
      PROVE  result' = result
  BY <1>4 DEF PromptArrives, TurnSpeaks, TurnBreaks, JobSettles, TurnAsks, callerVars
<1>5. CASE UNCHANGED vars
  BY <1>5 DEF vars, callerVars
<1> QED
  BY <1>1, <1>2, <1>3, <1>4, <1>5 DEF Next, CallBegins

\* What a check that awaited its job reports.
LEMMA ReportSettled ==
  ASSUME KnowsInv, NEW c \in Callers, pc[c] = "reconcile", call[c].ended = "self",
         call[c].was.by = call[c].job
  PROVE  Reported(c) \in Terminal
<1> USE HandoffAssumption
<1>1. /\ current[On(c)] = call[c].job /\ call[c].job \in Jobs
      /\ status[call[c].job] \in Terminal
      /\ status[call[c].job] = "done" => ~Continuing(call[c].was)
  BY DEF KnowsInv, Knows, HasAwaited
<1>2. Answered(c) => call[c].read = call[c].was
  BY DEF KnowsInv, Knows, HasRead
<1>3. call[c].was \in Message
  BY DEF KnowsInv, TypeInv, CallsType, Locals
<1>4. CASE status[call[c].job] = "done"
  <2>1. call[c].was.fin
    BY <1>1, <1>3, <1>4 DEF Continuing, Message
  <2>2. Answered(c)
    BY <1>3, <2>1 DEF Answered, Message
  <2>3. ~Continuing(call[c].read)
    BY <1>2, <2>1, <2>2 DEF Continuing
  <2> QED
    BY <1>1, <2>3 DEF Reported, Reconciled, Terminal
<1>5. CASE status[call[c].job] # "done"
  <2>1. Reconciled(c) = "done" => ~Continuing(call[c].read)
    BY <1>1, <1>5 DEF Reconciled, Continuing
  <2>2. Reconciled(c) \in Terminal
    BY <1>1 DEF Reconciled, Terminal
  <2> QED
    BY <2>1, <2>2 DEF Reported, Terminal
<1> QED
  BY <1>4, <1>5

LEMMA NextSettled ==
  ASSUME KnowsInv, WaitMeansSettled, [Next]_vars
  PROVE  WaitMeansSettled'
<1> USE HandoffAssumption
<1>1. CASE result' = result
  BY <1>1 DEF WaitMeansSettled
<1>2. ASSUME NEW c \in Callers, NEW st, NEW j, Reports(c, st, j),
             call[c].ended = "self" /\ j # NoJob /\ j = call[c].job /\ call[c].was.by = j => st \in Terminal
      PROVE  WaitMeansSettled'
  <2> DEFINE r == [st |-> st, job |-> j, for |-> call[c].job, ended |-> call[c].ended, was |-> call[c].was]
  <2>1. result'[c] = r /\ \A d \in Callers : d # c => result'[d] = result[d]
    BY <1>2 DEF Reports, KnowsInv, TypeInv, CallsType
  <2>2. r.st = st /\ r.job = j /\ r.for = call[c].job /\ r.ended = call[c].ended /\ r.was = call[c].was
    OBVIOUS
  <2> HIDE DEF r
  <2>3. ASSUME NEW d \in Callers,
               result'[d].ended = "self", result'[d].job # NoJob, result'[d].job = result'[d].for,
               result'[d].was.by = result'[d].job
        PROVE  result'[d].st \in Terminal
    <3>1. CASE d = c
      BY <1>2, <2>1, <2>2, <2>3, <3>1
    <3>2. CASE d # c
      BY <2>1, <2>3, <3>2 DEF WaitMeansSettled
    <3> QED
      BY <3>1, <3>2
  <2> QED
    BY <2>3 DEF WaitMeansSettled
<1>3. ASSUME NEW c \in Callers, ReadsUntracked(c)
      PROVE  WaitMeansSettled'
  <2>1. PICK st \in {"done", "running"} : Reports(c, st, NoJob)
    BY <1>3 DEF ReadsUntracked
  <2> QED
    BY <1>2, <2>1
<1>4. ASSUME NEW c \in Callers, Reconciles(c)
      PROVE  WaitMeansSettled'
  <2>1. Reports(c, Reported(c), current[On(c)]) /\ pc[c] = "reconcile"
    BY <1>4 DEF Reconciles, At
  <2>2. call[c].ended = "self" /\ current[On(c)] = call[c].job /\ call[c].was.by = current[On(c)]
        => Reported(c) \in Terminal
    BY <2>1, ReportSettled
  <2> QED
    BY <1>2, <2>1, <2>2
<1> QED
  BY <1>1, <1>3, <1>4, ResultKinds

\* handoff_check, handoff_execute: a wait that ended by itself on an answer of
\* its job is followed by a settled status of that job, for any number of
\* callers, sessions and jobs, if no two calls work on one session at a time.
THEOREM WaitSettles == Spec /\ []OneCallPerSession => []WaitMeansSettled
<1>1. Init => WaitMeansSettled
  BY DEF Init, NoResult, WaitMeansSettled
<1>2. KnowsInv /\ WaitMeansSettled /\ [Next]_vars => WaitMeansSettled'
  BY NextSettled
<1> QED
  BY <1>1, <1>2, KnowsHolds, PTL DEF Spec

\* A session begins to run a job only by a submission to it.
LEMMA RunsBySubmission ==
  ASSUME TypeInv, Slots, [Next]_vars, NEW s \in Sessions, ~Running(s), Running(s)'
  PROVE  \E c \in Callers, j \in Jobs : Submits(c, j) /\ On(c) = s
<1> USE HandoffAssumption
<1>1. ASSUME UNCHANGED <<status, current>> PROVE FALSE
  BY <1>1 DEF Running
<1>2. ASSUME NEW c \in Callers, NEW j \in Jobs, Submits(c, j)
      PROVE  On(c) = s
  <2>1. /\ status[j] = "none"
        /\ status' = [status EXCEPT ![j] = "running"] /\ current' = [current EXCEPT ![On(c)] = j]
    BY <1>2 DEF Submits
  <2>2. ASSUME On(c) # s PROVE FALSE
    <3>1. current'[s] = current[s]
      BY <2>1, <2>2 DEF TypeInv, ManagersType
    <3>2. current[s] # NoJob /\ current[s] # j /\ current[s] \in Jobs
      BY <2>1, <3>1 DEF Running, Slots, TypeInv, ManagersType
    <3>3. status'[current[s]] = status[current[s]]
      BY <2>1, <3>2 DEF TypeInv, ManagersType
    <3> QED
      BY <3>1, <3>2, <3>3 DEF Running
  <2> QED
    BY <2>2
<1>3. ASSUME NEW c \in Callers, Reconciles(c) PROVE FALSE
  <2>1. status' = [status EXCEPT ![current[On(c)]] = Reconciled(c)] /\ current' = current
    BY <1>3 DEF Reconciles
  <2>2. Reconciled(c) = "done" \/ Reconciled(c) = status[current[On(c)]]
    BY DEF Reconciled
  <2> QED
    BY <2>1, <2>2 DEF Running, TypeInv, ManagersType
<1>4. ASSUME NEW t \in Sessions, PromptArrives(t) \/ TurnSpeaks(t) \/ TurnBreaks(t)
      PROVE  UNCHANGED <<status, current>>
  BY <1>4 DEF PromptArrives, TurnSpeaks, TurnBreaks, managerVars
<1>5. ASSUME NEW t \in Sessions, NEW st \in Terminal, JobSettles(t, st) PROVE FALSE
  <2>1. status' = [status EXCEPT ![current[t]] = st] /\ current' = current
    BY <1>5 DEF JobSettles
  <2> QED
    BY <2>1 DEF Running, TypeInv, ManagersType, Terminal
<1> QED
  BY <1>1, <1>2, <1>3, <1>4, <1>5, StepKinds

-----------------------------------------------------------------------------
(* Where jobs are sent, with any calls overlapping *)

\* What a call may rely on although others act on its session: a session once
\* known stays so, and its directory does not come back.
Placed(c) ==
    /\ pc[c] \in {"resolve", "submit", "mark"} => Known(On(c))
    /\ pc[c] = "mark" => ~dir[On(c)]
    /\ pc[c] = "submit" /\ call[c].loc = "given" => ~dir[On(c)]

SpaceInv ==
    /\ TypeInv /\ Slots
    /\ \A s \in Sessions : dir[s] => record[s] = "owned"
    /\ \A c \in Callers : Placed(c)

LEMMA InitSpace == Init => SpaceInv
<1> SUFFICES ASSUME Init PROVE SpaceInv
  OBVIOUS
<1>1. Slots /\ \A s \in Sessions : dir[s] => record[s] = "owned"
  BY DEF Init, Slots
<1>2. \A c \in Callers : Placed(c)
  BY DEF Init, Placed
<1> QED
  BY <1>1, <1>2, InitTypes DEF SpaceInv

\* The directory goes before the record is marked.
LEMMA DirectoriesOwned ==
  ASSUME SpaceInv, [Next]_vars, NEW s \in Sessions, dir'[s]
  PROVE  record'[s] = "owned"
<1>0. TypeInv /\ (dir[s] => record[s] = "owned")
  BY DEF SpaceInv
<1>1. CASE UNCHANGED <<record, dir>>
  BY <1>0, <1>1
<1>2. ASSUME NEW c \in Callers, NEW t \in Sessions, ExecuteCreates(c, t)
      PROVE  record'[s] = "owned"
  <2>1. PICK kind \in {"owned", "direct"} :
          record' = [record EXCEPT ![t] = kind] /\ dir' = [dir EXCEPT ![t] = kind = "owned"]
    BY <1>2 DEF ExecuteCreates
  <2> QED
    BY <1>0, <2>1 DEF TypeInv, ManagersType
<1>3. ASSUME NEW c \in Callers, CleanupRemoves(c)
      PROVE  record'[s] = "owned"
  BY <1>0, <1>3 DEF CleanupRemoves, spaceVars, TypeInv, ManagersType
<1>4. ASSUME NEW c \in Callers, CleanupMarks(c)
      PROVE  record'[s] = "owned"
  <2>1. pc[c] = "mark" /\ dir' = dir
    BY <1>4 DEF CleanupMarks, At
  <2>2. On(c) # s
    BY <2>1 DEF SpaceInv, Placed
  <2> QED
    BY <1>0, <1>4, <2>1, <2>2 DEF CleanupMarks, TypeInv, ManagersType
<1> QED
  BY <1>1, <1>2, <1>3, <1>4, RoomKinds

LEMMA OthersPlaced ==
  ASSUME SpaceInv, [Next]_vars, NEW d \in Callers, pc'[d] = pc[d], call'[d] = call[d]
  PROVE  Placed(d)'
<1>1. CASE pc[d] \notin {"resolve", "submit", "mark"}
  BY <1>1 DEF Placed
<1>2. CASE pc[d] \in {"resolve", "submit", "mark"}
  <2>1. TypeInv /\ Placed(d)
    BY DEF SpaceInv
  <2>2. On(d) \in Sessions /\ On(d)' = On(d)
    BY <1>2, <2>1 DEF TypeInv, CallsType, On
  <2>3. Known(On(d))
    BY <1>2, <2>1 DEF Placed
  <2>4. Known(On(d))' /\ (dir'[On(d)] => dir[On(d)])
    BY <2>1, <2>2, <2>3, RoomKept DEF Known
  <2> QED
    BY <2>1, <2>2, <2>4 DEF Placed
<1> QED
  BY <1>1, <1>2

\* The call that acts.
LEMMA ActorPlaced ==
  ASSUME SpaceInv, [Next]_vars, NEW c \in Callers,
         CallBegins(c) \/ CallRuns(c) \/ RemoteWaitReturns(c) \/ WaitExpires(c)
  PROVE  UNCHANGED <<pc, call>> \/ Placed(c)'
<1>0. TypeInv /\ Placed(c)
  BY DEF SpaceInv
<1>1. ASSUME pc'[c] \notin {"resolve", "submit", "mark"}
      PROVE  Placed(c)'
  BY <1>1 DEF Placed
<1>2. ASSUME NEW s \in Sessions, ExecuteCreates(c, s) \/ FireBegins(c, s)
      PROVE  UNCHANGED <<pc, call>> \/ Placed(c)'
  <2>1. CASE UNCHANGED <<pc, call>>
    BY <2>1
  <2>2. CASE \E o \in AllTools : Begin(c, o, s, "resolve")
    <3>1. pc'[c] = "resolve" /\ call'[c].on = s
      BY <1>0, <2>2, Begun
    <3>2. record'[s] # "none"
      BY <1>0, <1>2 DEF ExecuteCreates, FireBegins, Known, spaceVars, TypeInv, ManagersType
    <3> QED
      BY <3>1, <3>2 DEF Placed, Known, On
  <2> QED
    BY <1>2, <2>1, <2>2 DEF ExecuteCreates, FireBegins, AllTools
<1>3. ASSUME NEW s \in Sessions,
             CheckBegins(c, s) \/ VerifyBegins(c, s) \/ CleanupBegins(c, s) \/ ReplyReads(c, s)
      PROVE  Placed(c)'
  <2>1. pc'[c] \notin {"resolve", "submit", "mark"}
    BY <1>0, <1>3 DEF CheckBegins, VerifyBegins, CleanupBegins, WorkspaceCall, ReplyReads, Begin, Goto,
                      TypeInv, CallsType
  <2> QED
    BY <1>1, <2>1
<1>4. CASE SubmitResolves(c)
  <2>1. pc[c] = "resolve" /\ pc'[c] = "submit" /\ UNCHANGED <<record, dir>>
    BY <1>0, <1>4 DEF SubmitResolves, At, Goto, TypeInv, CallsType, spaceVars
  <2>2. call'[c] = [call[c] EXCEPT !.loc = Resolved(On(c))] /\ call[c] \in Locals /\ On(c) \in Sessions
    BY <1>0, <1>4, <2>1 DEF SubmitResolves, TypeInv, CallsType
  <2>3. call'[c].on = On(c) /\ call'[c].loc = Resolved(On(c))
    BY <2>2 DEF Locals, On
  <2>4. Known(On(c))
    BY <1>0, <2>1 DEF Placed
  <2>5. Resolved(On(c)) = "given" => ~dir[On(c)]
    BY <2>2 DEF Resolved, SpaceInv
  <2> QED
    BY <2>1, <2>3, <2>4, <2>5 DEF Placed, Known, On
<1>5. CASE CleanupRemoves(c)
  <2>1. CASE pc'[c] = "idle"
    BY <1>1, <2>1
  <2>2. CASE record[On(c)] = "owned" /\ dir' = [dir EXCEPT ![On(c)] = FALSE] /\ Goto(c, "mark")
             /\ UNCHANGED <<call, record>>
    <3>1. pc[c] = "cleanup" /\ pc'[c] = "mark" /\ On(c) \in Sessions
      BY <1>0, <1>5, <2>2 DEF CleanupRemoves, At, Goto, TypeInv, CallsType
    <3>2. ~dir'[On(c)] /\ record'[On(c)] # "none"
      BY <1>0, <2>2, <3>1 DEF TypeInv, ManagersType
    <3> QED
      BY <2>2, <3>1, <3>2 DEF Placed, Known, On
  <2> QED
    BY <1>0, <1>5, <2>1, <2>2 DEF CleanupRemoves, Return, Goto, TypeInv, CallsType
<1>6. CASE \/ (\E j \in Jobs : Submits(c, j)) \/ SubmitRepeats(c) \/ SubmitRefused(c)
           \/ WaitLooksUp(c) \/ LocalWaitReturns(c) \/ PollJob(c) \/ PollMessages(c)
           \/ RemoteWaitReturns(c) \/ WaitExpires(c)
  <2>1. pc'[c] \notin {"resolve", "submit", "mark"}
    BY <1>0, <1>6 DEF Submits, SubmitRepeats, SubmitRefused, WaitLooksUp, LocalWaitReturns, PollJob,
                      PollMessages, RemoteWaitReturns, WaitExpires, WaitEnds, Return, Goto, TypeInv, CallsType
  <2> QED
    BY <1>1, <2>1
<1>7. CASE \/ Tracks(c) \/ ReadsUntracked(c) \/ Reads(c) \/ FetchesPending(c) \/ Reconciles(c)
           \/ VerifyEnds(c) \/ CleanupMarks(c) \/ ReplyPosts(c)
  <2>1. pc'[c] \notin {"resolve", "submit", "mark"}
    BY <1>0, <1>7 DEF Tracks, ReadsUntracked, Reads, FetchesPending, Reconciles, VerifyEnds, CleanupMarks,
                      ReplyPosts, Return, Goto, TypeInv, CallsType
  <2> QED
    BY <1>1, <2>1
<1> QED
  BY <1>2, <1>3, <1>4, <1>5, <1>6, <1>7 DEF CallBegins, CallRuns

LEMMA NextSpace ==
  ASSUME SpaceInv, [Next]_vars
  PROVE  SpaceInv'
<1>1. TypeInv /\ Slots
  BY DEF SpaceInv
<1>2. TypeInv' /\ Slots' /\ \A s \in Sessions : dir'[s] => record'[s] = "owned"
  BY <1>1, NextTypes, NextSlots, DirectoriesOwned
<1>3. ASSUME NEW d \in Callers PROVE Placed(d)'
  <2>1. CASE UNCHANGED <<pc, call>>
    BY <2>1, OthersPlaced
  <2>2. ASSUME NEW c \in Callers, CallBegins(c) \/ CallRuns(c) \/ RemoteWaitReturns(c) \/ WaitExpires(c)
        PROVE  Placed(d)'
    <3>1. CASE d = c
      BY <2>1, <2>2, <3>1, ActorPlaced
    <3>2. CASE d # c
      BY <1>1, <2>2, <3>2, StepOfOthers, OthersPlaced
    <3> QED
      BY <3>1, <3>2
  <2>3. UNCHANGED <<pc, call>> \/ \E c \in Callers : CallBegins(c) \/ CallRuns(c) \/ RemoteWaitReturns(c) \/ WaitExpires(c)
    BY DEF Next, vars, PromptArrives, TurnSpeaks, TurnBreaks, JobSettles, TurnAsks
  <2> QED
    BY <2>1, <2>2, <2>3
<1> QED
  BY <1>2, <1>3 DEF SpaceInv

LEMMA SpaceHolds == Spec => []SpaceInv
<1>1. Init => SpaceInv
  BY InitSpace
<1>2. SpaceInv /\ [Next]_vars => SpaceInv'
  BY NextSpace
<1> QED
  BY <1>1, <1>2, PTL DEF Spec

\* handoff_execute, handoff_fire, handoff_cleanup: no job is sent to the directory
\* the caller gave while the session's own is there, for any callers, whether or
\* not their calls overlap on a session and wherever a cleanup fails.
THEOREM PromptsPlaced == Spec => WorkspaceNotBypassed
<1>1. ASSUME SpaceInv, [Next]_vars, NEW s \in Sessions, ~Running(s), Running(s)',
             place'[current'[s]] = "given"
      PROVE  ~dir[s]
  <2>1. PICK c \in Callers, j \in Jobs : Submits(c, j) /\ On(c) = s
    BY <1>1, RunsBySubmission DEF SpaceInv
  <2>2. pc[c] = "submit" /\ current'[s] = j /\ place'[j] = call[c].loc
    BY <1>1, <2>1 DEF Submits, At, SpaceInv, TypeInv, ManagersType
  <2> QED
    BY <1>1, <2>1, <2>2 DEF SpaceInv, Placed
<1>2. SpaceInv /\ [Next]_vars
        => [\A s \in Sessions : ~Running(s) /\ Running(s)' =>
              (place'[current'[s]] = "given" => ~dir[s])]_vars
  BY <1>1
<1> QED
  BY <1>2, SpaceHolds, PTL DEF Spec, WorkspaceNotBypassed

-----------------------------------------------------------------------------
\* handoff_cleanup, handoff_verify: with one call per session no directory goes
\* from under a running job and no checks run beside one, which is what two
\* overlapping calls can bring about (CleanupSparesActive is violated then).
THEOREM JobsLeftAlone == Spec /\ []OneCallPerSession => CleanupSparesActive /\ []VerifyOnCompleted
<1>1. KnowsInv => VerifyOnCompleted
  BY DEF KnowsInv, Knows, IsQuiet, VerifyOnCompleted
<1>2. ASSUME KnowsInv, SpaceInv, [Next]_vars, NEW s \in Sessions, dir[s], ~dir'[s]
      PROVE  ~Running(s)
  <2>1. Known(s)
    BY <1>2 DEF SpaceInv, Known
  <2>2. PICK c \in Callers : pc[c] = "cleanup" /\ On(c) = s
    BY <1>2, <2>1, RoomKept DEF KnowsInv
  <2> QED
    BY <1>2, <2>2 DEF KnowsInv, Knows, IsQuiet
<1>3. KnowsInv /\ SpaceInv /\ [Next]_vars => [\A s \in Sessions : dir[s] /\ ~dir'[s] => ~Running(s)]_vars
  BY <1>2
<1> QED
  BY <1>1, <1>3, KnowsHolds, SpaceHolds, PTL DEF Spec, CleanupSparesActive
=============================================================================
