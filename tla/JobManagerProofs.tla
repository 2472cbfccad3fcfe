-------------------------- MODULE JobManagerProofs --------------------------
(* Theorems about JobManager, for any sets of sessions, keys, jobs and calls. *)
EXTENDS JobManager, TLAPS

-----------------------------------------------------------------------------
(* Type correctness.  A call goes through a job pointer at many places; that
   it has one there needs that the session it looks up is tracked, and stays
   tracked, from the moment it asks. *)

CallOK ==
    \A c \in Calls :
        /\ pc[c] # "idle" => call[c].on \in Sessions
        /\ pc[c] = "lookup" => current[call[c].on] \in Jobs

ControlOK == GoroutineTypeOK /\ CallOK

TypeInv == TypeOK /\ CallOK

Contexts == {"none", "live", "expired", "canceled"}
Outcomes == {"none"} \cup Terminal

LEMMA InitType == Init => TypeInv
<1> SUFFICES ASSUME Init PROVE TypeInv
  OBVIOUS
<1> USE DistinctAssumption DEF Init
<1>1. JobTypeOK
  BY DEF JobTypeOK, Status
<1>2. MapTypeOK
  BY DEF MapTypeOK, Status
<1>3. GoroutineTypeOK /\ CallOK
  BY DEF GoroutineTypeOK, CallType, CallOK, NoCall, Threads, JobPC, CallPC, HoldingPC, Status
<1>4. EnvironmentTypeOK
  BY DEF EnvironmentTypeOK, NoMessage
<1> QED
  BY <1>1, <1>2, <1>3, <1>4 DEF TypeInv, TypeOK

\* The steps of a job's goroutine move it inside its own code.
LEMMA DecidesControl ==
  ASSUME TypeInv, NEW j \in Jobs, NEW where \in JobPC, NEW outcome \in Outcomes,
         Decides(j, where, outcome), UNCHANGED <<call, current>>,
         buf' \in [Threads -> Status]
  PROVE  ControlOK' /\ ctx' = ctx /\ handle' = handle
<1>1. j \in Threads /\ j \notin Calls
  BY DistinctAssumption DEF Threads
<1>2. pc' = [pc EXCEPT ![j] = where] /\ pc \in [Threads -> JobPC \cup CallPC]
  BY DEF Decides, TypeInv, TypeOK, GoroutineTypeOK
<1>3. /\ pc' \in [Threads -> JobPC \cup CallPC]
      /\ \A i \in Jobs : pc'[i] \in JobPC
      /\ \A c \in Calls : pc'[c] = pc[c]
  BY <1>1, <1>2 DEF TypeInv, TypeOK, GoroutineTypeOK, Threads
<1>4. out' \in [Jobs -> Outcomes]
  BY DEF Decides, TypeInv, TypeOK, GoroutineTypeOK, Outcomes
<1> QED
  BY <1>3, <1>4 DEF Decides, TypeInv, TypeOK, GoroutineTypeOK, CallOK, ControlOK, Outcomes

LEMMA EndsControl ==
  ASSUME TypeInv, NEW j \in Jobs, Ends(j), UNCHANGED <<call, current>>,
         buf' \in [Threads -> Status]
  PROVE  ControlOK' /\ ctx' \in [Jobs -> Contexts] /\ handle' \in [Jobs -> BOOLEAN]
<1>1. j \in Threads /\ j \notin Calls
  BY DistinctAssumption DEF Threads
<1>2. pc' = [pc EXCEPT ![j] = "off"] /\ pc \in [Threads -> JobPC \cup CallPC]
  BY DEF Ends, TypeInv, TypeOK, GoroutineTypeOK
<1>3. /\ pc' \in [Threads -> JobPC \cup CallPC]
      /\ \A i \in Jobs : pc'[i] \in JobPC
      /\ \A c \in Calls : pc'[c] = pc[c]
  BY <1>1, <1>2 DEF TypeInv, TypeOK, GoroutineTypeOK, Threads, JobPC
<1>4. out' \in [Jobs -> Outcomes]
  BY DEF Ends, TypeInv, TypeOK, GoroutineTypeOK, Outcomes
<1>5. ControlOK'
  BY <1>3, <1>4 DEF TypeInv, TypeOK, GoroutineTypeOK, CallOK, ControlOK, Outcomes
<1> QED
  BY <1>5 DEF Ends, TypeInv, TypeOK, JobTypeOK, Contexts

\* The steps of a call move it inside its own code.
LEMMA CallControl ==
  ASSUME TypeInv, NEW c \in Calls, NEW where \in CallPC,
         pc' = [pc EXCEPT ![c] = where], call' \in [Calls -> CallType],
         \A b \in Calls : b # c => call'[b] = call[b],
         where # "idle" => call'[c].on \in Sessions,
         where = "lookup" => current[call'[c].on] \in Jobs,
         where \in HoldingPC => call'[c].job \in Jobs,
         \A s \in Sessions : current[s] \in Jobs => current'[s] \in Jobs,
         out' = out, buf' \in [Threads -> Status]
  PROVE  ControlOK'
<1>1. c \in Threads /\ c \notin Jobs
  BY DistinctAssumption DEF Threads
<1>2. /\ pc' \in [Threads -> JobPC \cup CallPC]
      /\ \A i \in Jobs : pc'[i] = pc[i]
      /\ \A b \in Calls : b # c => pc'[b] = pc[b]
      /\ pc'[c] = where
  BY <1>1 DEF TypeInv, TypeOK, GoroutineTypeOK, Threads
<1>3. GoroutineTypeOK'
  BY <1>2 DEF TypeInv, TypeOK, GoroutineTypeOK
<1>4. CallOK'
  <2> SUFFICES ASSUME NEW b \in Calls, pc'[b] # "idle"
               PROVE  call'[b].on \in Sessions /\ (pc'[b] = "lookup" => current'[call'[b].on] \in Jobs)
    BY DEF CallOK
  <2>1. CASE b = c
    BY <2>1, <1>2
  <2>2. CASE b # c
    BY <2>2, <1>2 DEF TypeInv, CallOK
  <2> QED
    BY <2>1, <2>2
<1> QED
  BY <1>3, <1>4 DEF ControlOK

LEMMA NoCallType == NoCall \in CallType
  BY DEF NoCall, CallType

LEMMA Together ==
  ASSUME JobTypeOK', MapTypeOK', ControlOK', EnvironmentTypeOK'
  PROVE  TypeInv'
  BY DEF TypeInv, TypeOK, ControlOK

\* The steps of a save, by the goroutine of a job or a call.
LEMMA HoldsTarget ==
  ASSUME TypeInv, NEW t \in Threads, pc[t] \in {"publish", "snapshot", "rename"}
  PROVE  Target(t) \in Jobs
  BY DEF Target, Threads, TypeInv, TypeOK, GoroutineTypeOK, HoldingPC

\* A save step that keeps the call and the maps, at a point that needs no lookup.
LEMMA SaveControl ==
  ASSUME TypeInv, NEW t \in Threads, NEW where \in {"snapshot", "rename"},
         pc[t] \in {"publish", "snapshot"}, Goto(t, where),
         UNCHANGED <<current, out>>, buf' \in [Threads -> Status]
  PROVE  ControlOK'
<1>1. call' = call /\ pc' = [pc EXCEPT ![t] = where]
  BY DEF Goto
<1>2. CASE t \in Jobs
  <2>1. where \in JobPC
    BY DEF JobPC
  <2>2. /\ pc' \in [Threads -> JobPC \cup CallPC]
        /\ \A i \in Jobs : pc'[i] \in JobPC
        /\ \A c \in Calls : pc'[c] = pc[c]
    BY <1>1, <1>2, <2>1, DistinctAssumption DEF TypeInv, TypeOK, GoroutineTypeOK, Threads
  <2> QED
    BY <1>1, <2>2 DEF TypeInv, TypeOK, GoroutineTypeOK, CallOK, ControlOK
<1>3. CASE t \in Calls
  <2>1. where \in CallPC /\ where # "idle" /\ where # "lookup"
    BY DEF CallPC
  <2>2. call[t].on \in Sessions /\ call[t].job \in Jobs /\ call \in [Calls -> CallType]
    BY <1>3 DEF TypeInv, TypeOK, GoroutineTypeOK, CallOK, HoldingPC
  <2> QED
    BY <1>1, <1>3, <2>1, <2>2, CallControl
<1> QED
  BY <1>2, <1>3 DEF Threads

LEMMA PublishType ==
  ASSUME TypeInv, NEW t \in Threads, Publish(t)
  PROVE  TypeInv'
<1>1. ControlOK'
  BY SaveControl DEF Publish, TypeInv, TypeOK, GoroutineTypeOK, mapVars
<1>2. JobTypeOK'
  BY DEF Publish, CancelContext, Canceled, TypeInv, TypeOK, JobTypeOK
<1>3. MapTypeOK' /\ EnvironmentTypeOK'
  BY DEF Publish, TypeInv, TypeOK, MapTypeOK, EnvironmentTypeOK, mapVars, diskVars, srvVars, procVars
<1> QED
  BY <1>1, <1>2, <1>3, Together

LEMMA SnapshotType ==
  ASSUME TypeInv, NEW t \in Threads, Snapshot(t)
  PROVE  TypeInv'
<1>1. buf' \in [Threads -> Status]
  BY HoldsTarget DEF Snapshot, TypeInv, TypeOK, JobTypeOK, GoroutineTypeOK
<1>2. ControlOK'
  BY <1>1, SaveControl DEF Snapshot, mapVars
<1>3. JobTypeOK' /\ MapTypeOK' /\ EnvironmentTypeOK'
  BY DEF Snapshot, TypeInv, TypeOK, JobTypeOK, MapTypeOK, EnvironmentTypeOK, jobVars,
         mapVars, diskVars, srvVars, procVars
<1> QED
  BY <1>2, <1>3, Together

\* The end of a save: the goroutine of a job ends, a call returns, and that of
\* SubmitJob starts the job's goroutine.
LEMMA AfterSaveType ==
  ASSUME TypeInv, NEW t \in Threads, pc[t] = "rename", AfterSave(t)
  PROVE  JobTypeOK' /\ ControlOK' /\ EnvironmentTypeOK'
<1>1. EnvironmentTypeOK'
  BY DEF AfterSave, TypeInv, TypeOK, EnvironmentTypeOK, srvVars, procVars
<1>2. buf' \in [Threads -> Status] /\ current' = current
  BY DEF AfterSave, TypeInv, TypeOK, GoroutineTypeOK, Status, mapVars
<1>3. CASE t \in Jobs
  <2>1. Ends(t) /\ call' = call
    BY <1>3 DEF AfterSave
  <2>2. ControlOK' /\ ctx' \in [Jobs -> Contexts] /\ handle' \in [Jobs -> BOOLEAN]
    BY <1>2, <1>3, <2>1, EndsControl
  <2>3. JobTypeOK'
    BY <2>2 DEF AfterSave, TypeInv, TypeOK, JobTypeOK, Contexts
  <2> QED
    BY <1>1, <2>2, <2>3
<1>4. CASE t \in Calls
  <2>1. t \notin Jobs /\ call[t].job \in Jobs
    BY <1>4, DistinctAssumption DEF TypeInv, TypeOK, GoroutineTypeOK, HoldingPC
  <2>2. JobTypeOK'
    BY <2>1 DEF AfterSave, TypeInv, TypeOK, JobTypeOK
  <2>3. /\ pc' \in [Threads -> JobPC \cup CallPC]
        /\ \A j \in Jobs : pc'[j] \in JobPC
        /\ \A c \in Calls : c # t => pc'[c] = pc[c]
        /\ pc'[t] = "idle"
    <3>1. CASE call[t].op = "submit"
      <4>1. pc' = [pc EXCEPT ![t] = "idle", ![call[t].job] = "prompt"]
        BY <2>1, <3>1 DEF AfterSave
      <4> QED
        BY <1>4, <2>1, <4>1, DistinctAssumption
        DEF TypeInv, TypeOK, GoroutineTypeOK, Threads, JobPC, CallPC
    <3>2. CASE call[t].op # "submit"
      <4>1. pc' = [pc EXCEPT ![t] = "idle"]
        BY <2>1, <3>2 DEF AfterSave
      <4> QED
        BY <1>4, <2>1, <4>1, DistinctAssumption
        DEF TypeInv, TypeOK, GoroutineTypeOK, Threads, JobPC, CallPC
    <3> QED
      BY <3>1, <3>2
  <2>4. call' = [call EXCEPT ![t] = NoCall] /\ out' = out
    BY <2>1 DEF AfterSave
  <2>5. /\ \A c \in Calls : pc'[c] \in CallPC
        /\ \A c \in Calls : pc'[c] \in HoldingPC => call'[c].job \in Jobs
    BY <2>3, <2>4 DEF TypeInv, TypeOK, GoroutineTypeOK, CallPC, HoldingPC
  <2>6. GoroutineTypeOK'
    BY <1>2, <2>3, <2>4, <2>5, NoCallType DEF TypeInv, TypeOK, GoroutineTypeOK
  <2>7. CallOK'
    BY <1>2, <2>3, <2>4 DEF TypeInv, CallOK
  <2> QED
    BY <1>1, <2>2, <2>6, <2>7 DEF ControlOK
<1> QED
  BY <1>3, <1>4 DEF Threads

LEMMA SaveType ==
  ASSUME TypeInv, NEW t \in Threads, Save(t)
  PROVE  TypeInv'
<1>1. CASE Publish(t)
  BY <1>1, PublishType
<1>2. CASE Snapshot(t)
  BY <1>2, SnapshotType
<1>3. CASE Rename(t)
  <2>1. MapTypeOK'
    BY <1>3, HoldsTarget
    DEF Rename, AfterSave, TypeInv, TypeOK, MapTypeOK, GoroutineTypeOK, mapVars
  <2> QED
    BY <1>3, <2>1, AfterSaveType, Together DEF Rename
<1>4. CASE SaveFails(t)
  <2>1. MapTypeOK'
    BY <1>4 DEF SaveFails, AfterSave, TypeInv, TypeOK, MapTypeOK, mapVars, diskVars
  <2> QED
    BY <1>4, <2>1, AfterSaveType, Together DEF SaveFails
<1> QED
  BY <1>1, <1>2, <1>3, <1>4 DEF Save

\* A step of a call that leaves jobs, records and the environment alone.
LEMMA CallTypes ==
  ASSUME TypeInv, NEW c \in Calls,
         \/ CancelMarks(c) \/ ReconcileLooksUp(c) \/ ReconcileMarks(c)
         \/ WaitReturns(c) \/ WaitExpires(c)
         \/ \E ok, killed \in BOOLEAN : CancelAborts(c, ok, killed)
         \/ CallBegins(c)
  PROVE  TypeInv'
<1>0. /\ call \in [Calls -> CallType]
      /\ out' = out => out' \in [Jobs -> Outcomes]
      /\ buf \in [Threads -> Status]
      /\ pc[c] # "idle" => call[c].on \in Sessions
      /\ pc[c] \in HoldingPC => call[c].job \in Jobs
      /\ pc[c] = "lookup" => current[call[c].on] \in Jobs
      /\ current \in [Sessions -> Jobs \cup {NoJob}]
  BY DEF TypeInv, TypeOK, MapTypeOK, GoroutineTypeOK, CallOK, Outcomes
<1>a. ASSUME NEW where \in CallPC, Goto(c, where), where # "lookup", pc[c] # "idle",
             where \in HoldingPC => call[c].job \in Jobs,
             UNCHANGED <<current, out, buf>>
      PROVE  ControlOK'
  <2>1. call' \in [Calls -> CallType] /\ \A b \in Calls : b # c => call'[b] = call[b]
    BY <1>0, <1>a, NoCallType DEF Goto
  <2>2. where # "idle" => call' = call
    BY <1>a DEF Goto
  <2>3. "idle" \notin HoldingPC
    BY DEF HoldingPC
  <2> QED
    BY <1>0, <1>a, <2>1, <2>2, <2>3, CallControl DEF Goto
<1>b. ASSUME NEW where \in CallPC \ {"idle"},
             NEW o \in {"submit", "cancel", "check", "wait"}, NEW s \in Sessions,
             NEW j \in Jobs \cup {NoJob}, Begin(c, where, o, s, j),
             where = "lookup" => current[s] \in Jobs,
             where \in HoldingPC => j \in Jobs,
             \A r \in Sessions : current[r] \in Jobs => current'[r] \in Jobs,
             UNCHANGED <<out, buf>>
      PROVE  ControlOK'
  <2>1. /\ call' = [call EXCEPT ![c] = [op |-> o, on |-> s, job |-> j]]
        /\ pc' = [pc EXCEPT ![c] = where]
    BY <1>b DEF Begin
  <2>2. [op |-> o, on |-> s, job |-> j] \in CallType
    BY DEF CallType
  <2>3. /\ call' \in [Calls -> CallType]
        /\ \A b \in Calls : b # c => call'[b] = call[b]
        /\ call'[c] = [op |-> o, on |-> s, job |-> j]
    BY <1>0, <2>1, <2>2
  <2> QED
    BY <1>0, <1>b, <2>1, <2>3, CallControl
<1>1. CASE CancelMarks(c)
  <2>1. ControlOK'
    <3>1. \/ Goto(c, "publish") \/ Goto(c, "idle")
      BY <1>1 DEF CancelMarks
    <3> QED
      BY <1>0, <1>1, <1>a, <3>1 DEF CancelMarks, CallPC, HoldingPC, mapVars
  <2>2. JobTypeOK'
    BY <1>1 DEF CancelMarks, Status, Terminal, TypeInv, TypeOK, JobTypeOK
  <2>3. MapTypeOK' /\ EnvironmentTypeOK'
    BY <1>1 DEF CancelMarks, TypeInv, TypeOK, MapTypeOK, EnvironmentTypeOK, mapVars,
                diskVars, srvVars, procVars
  <2> QED
    BY <2>1, <2>2, <2>3, Together
<1>2. CASE ReconcileLooksUp(c)
  <2>1. /\ call' = [call EXCEPT ![c].job = current[call[c].on]]
        /\ pc' = [pc EXCEPT ![c] = "reconcile"]
        /\ UNCHANGED <<current, out, buf>>
        /\ call[c].on \in Sessions /\ current[call[c].on] \in Jobs
    BY <1>0, <1>2 DEF ReconcileLooksUp, mapVars
  <2>2. /\ call'[c] = [call[c] EXCEPT !.job = current[call[c].on]]
        /\ \A b \in Calls : b # c => call'[b] = call[b]
    BY <1>0, <2>1
  <2>3. call'[c] \in CallType /\ call'[c].on = call[c].on /\ call'[c].job \in Jobs
    BY <1>0, <2>1, <2>2 DEF CallType
  <2>4. call' \in [Calls -> CallType]
    BY <1>0, <2>1, <2>2, <2>3
  <2>5. ControlOK'
    BY <1>0, <2>1, <2>2, <2>3, <2>4, CallControl DEF CallPC
  <2>6. JobTypeOK' /\ MapTypeOK' /\ EnvironmentTypeOK'
    BY <1>2 DEF ReconcileLooksUp, TypeInv, TypeOK, JobTypeOK, MapTypeOK, EnvironmentTypeOK,
                jobVars, mapVars, diskVars, srvVars, procVars
  <2> QED
    BY <2>5, <2>6, Together
<1>3. CASE ReconcileMarks(c)
  <2>1. ControlOK'
    <3>1. \/ Goto(c, "publish") \/ Goto(c, "snapshot")
      BY <1>3 DEF ReconcileMarks, AfterReconcile
    <3> QED
      BY <1>0, <1>3, <1>a, <3>1 DEF ReconcileMarks, CallPC, HoldingPC, mapVars
  <2>2. JobTypeOK'
    BY <1>3 DEF ReconcileMarks, Status, Terminal, TypeInv, TypeOK, JobTypeOK
  <2>3. MapTypeOK' /\ EnvironmentTypeOK'
    BY <1>3 DEF ReconcileMarks, TypeInv, TypeOK, MapTypeOK, EnvironmentTypeOK, mapVars,
                diskVars, srvVars, procVars
  <2> QED
    BY <2>1, <2>2, <2>3, Together
<1>4. CASE WaitReturns(c) \/ WaitExpires(c)
  <2>1. ControlOK'
    BY <1>0, <1>4, <1>a DEF WaitReturns, WaitExpires, CallPC, HoldingPC, mapVars
  <2>2. JobTypeOK' /\ MapTypeOK' /\ EnvironmentTypeOK'
    BY <1>4 DEF WaitReturns, WaitExpires, TypeInv, TypeOK, JobTypeOK, MapTypeOK,
                EnvironmentTypeOK, jobVars, mapVars, diskVars, srvVars, procVars
  <2> QED
    BY <2>1, <2>2, Together
<1>5. ASSUME NEW ok \in BOOLEAN, NEW killed \in BOOLEAN, CancelAborts(c, ok, killed)
      PROVE  TypeInv'
  <2>1. ControlOK'
    <3>1. \/ Goto(c, "mark") /\ call[c].job # NoJob
          \/ Goto(c, "idle")
      BY <1>5 DEF CancelAborts
    <3>2. call[c].job # NoJob => call[c].job \in Jobs
      BY <1>0 DEF CallType
    <3> QED
      BY <1>0, <1>5, <1>a, <3>1, <3>2 DEF CancelAborts, CallPC, HoldingPC, mapVars
  <2>2. JobTypeOK' /\ MapTypeOK'
    BY <1>5 DEF CancelAborts, TypeInv, TypeOK, JobTypeOK, MapTypeOK, jobVars, mapVars, diskVars
  <2>3. EnvironmentTypeOK'
    BY <1>5 DEF CancelAborts, TypeInv, TypeOK, EnvironmentTypeOK, procVars
  <2> QED
    BY <2>1, <2>2, <2>3, Together
<1>6. ASSUME NEW s \in Sessions, NEW k \in Keys \cup {NoKey}, NEW d \in Deadlines,
             NEW j \in Jobs, Submit(c, s, k, d, j)
      PROVE  TypeInv'
  <2>1. JobTypeOK'
    BY <1>6, BoundsAssumption
    DEF Submit, RootContext, Status, Active, TypeInv, TypeOK, JobTypeOK
  <2>2. MapTypeOK'
    BY <1>6 DEF Submit, WithoutKeyOf, TypeInv, TypeOK, MapTypeOK, diskVars
  <2>3. \A r \in Sessions : current[r] \in Jobs => current'[r] \in Jobs
    BY <1>0, <1>6 DEF Submit
  <2>4. ControlOK'
    BY <1>6, <1>b, <2>3 DEF Submit, CallPC
  <2>5. EnvironmentTypeOK'
    BY <1>6 DEF Submit, TypeInv, TypeOK, EnvironmentTypeOK, srvVars, procVars
  <2> QED
    BY <2>1, <2>2, <2>4, <2>5, Together
<1>7. ASSUME NEW s \in Sessions, CancelBegin(c, s) \/ CheckReads(c, s) \/ WaitBegin(c, s)
      PROVE  TypeInv'
  <2>1. JobTypeOK' /\ MapTypeOK' /\ EnvironmentTypeOK' /\ UNCHANGED <<current, out, buf>>
    BY <1>7 DEF CancelBegin, CheckReads, WaitBegin, TypeInv, TypeOK, JobTypeOK, MapTypeOK,
                EnvironmentTypeOK, jobVars, mapVars, diskVars, srvVars, procVars
  <2>2. ControlOK'
    <3>1. CASE CancelBegin(c, s)
      BY <1>0, <2>1, <3>1, <1>b DEF CancelBegin, CallPC, HoldingPC
    <3>2. CASE CheckReads(c, s)
      BY <1>0, <2>1, <3>2, <1>b DEF CheckReads, CallPC, HoldingPC
    <3>3. CASE WaitBegin(c, s)
      BY <1>0, <2>1, <3>3, <1>b DEF WaitBegin, CallPC, HoldingPC
    <3> QED
      BY <1>7, <3>1, <3>2, <3>3
  <2> QED
    BY <2>1, <2>2, Together
<1> QED
  BY <1>1, <1>2, <1>3, <1>4, <1>5, <1>6, <1>7 DEF CallBegins

\* A step of a job's goroutine that only moves it, or ends it.
LEMMA OwnStepType ==
  ASSUME TypeInv, NEW j \in Jobs, UNCHANGED notOwn, EnvironmentTypeOK',
         \/ \E where \in JobPC, outcome \in Outcomes : Decides(j, where, outcome)
         \/ Ends(j)
  PROVE  TypeInv'
<1>1. buf' \in [Threads -> Status] /\ UNCHANGED <<call, current>>
  BY DEF notOwn, mapVars, TypeInv, TypeOK, GoroutineTypeOK
<1>2. MapTypeOK'
  BY DEF notOwn, mapVars, diskVars, TypeInv, TypeOK, MapTypeOK
<1>3. ControlOK' /\ ctx' \in [Jobs -> Contexts] /\ handle' \in [Jobs -> BOOLEAN]
  BY <1>1, DecidesControl, EndsControl DEF TypeInv, TypeOK, JobTypeOK, Contexts
<1>4. JobTypeOK'
  BY <1>3 DEF notOwn, TypeInv, TypeOK, JobTypeOK, Contexts
<1> QED
  BY <1>2, <1>3, <1>4, Together

LEMMA TimesOutMoves ==
  ASSUME NEW j \in Jobs, TimesOut(j)
  PROVE  \/ \E where \in JobPC, outcome \in Outcomes : Decides(j, where, outcome)
         \/ Ends(j)
  BY DEF TimesOut, JobPC, Outcomes

LEMMA JobTypes ==
  ASSUME TypeInv, NEW j \in Jobs,
         \/ AwaitFinished(j) \/ AwaitStops(j) \/ Finish(j)
         \/ \E killed \in BOOLEAN : TimeoutAborts(j, killed)
         \/ \E ok \in BOOLEAN : RecoverReads(j, ok)
         \/ Answers(j) \/ Expire(j) \/ RecoveryExpires(j)
  PROVE  TypeInv'
<1> DEFINE Moves == \/ \E where \in JobPC, outcome \in Outcomes : Decides(j, where, outcome)
                    \/ Ends(j)
<1>0. UNCHANGED srvVars /\ UNCHANGED notOwn => EnvironmentTypeOK'
  BY DEF srvVars, notOwn, procVars, TypeInv, TypeOK, EnvironmentTypeOK
<1>1. CASE AwaitFinished(j)
  <2>1. Moves /\ UNCHANGED <<notOwn, srvVars>>
    BY <1>1 DEF AwaitFinished, JobPC, Outcomes, Terminal
  <2> QED
    BY <1>0, <2>1, OwnStepType
<1>2. CASE AwaitStops(j)
  <2>1. UNCHANGED <<notOwn, srvVars>> /\ (TimesOut(j) \/ Ends(j) \/ Decides(j, "snapshot", "none"))
    BY <1>2 DEF AwaitStops
  <2>2. Moves
    BY <2>1, TimesOutMoves DEF JobPC, Outcomes
  <2> QED
    BY <1>0, <2>1, <2>2, OwnStepType
<1>3. CASE Finish(j)
  <2>1. UNCHANGED <<call, current, buf>> /\ buf' \in [Threads -> Status]
    BY <1>3 DEF Finish, mapVars, TypeInv, TypeOK, GoroutineTypeOK
  <2>2. Decides(j, "publish", "none") \/ Ends(j)
    BY <1>3 DEF Finish
  <2>3. "publish" \in JobPC /\ "none" \in Outcomes
    BY DEF JobPC, Outcomes
  <2>4. ControlOK' /\ ctx' \in [Jobs -> Contexts] /\ handle' \in [Jobs -> BOOLEAN]
    BY <2>1, <2>2, <2>3, DecidesControl, EndsControl DEF TypeInv, TypeOK, JobTypeOK, Contexts
  <2>5. status' \in [Jobs -> Status]
    BY <1>3 DEF Finish, Status, TypeInv, TypeOK, JobTypeOK, GoroutineTypeOK
  <2>6. JobTypeOK'
    BY <1>3, <2>4, <2>5 DEF Finish, TypeInv, TypeOK, JobTypeOK, Contexts
  <2>7. MapTypeOK' /\ EnvironmentTypeOK'
    BY <1>3 DEF Finish, TypeInv, TypeOK, MapTypeOK, EnvironmentTypeOK, mapVars, diskVars,
                srvVars, procVars
  <2> QED
    BY <2>4, <2>6, <2>7, Together
<1>4. ASSUME NEW killed \in BOOLEAN, TimeoutAborts(j, killed) PROVE TypeInv'
  <2>1. Moves /\ UNCHANGED notOwn
    BY <1>4 DEF TimeoutAborts, JobPC, Outcomes, Terminal
  <2>2. EnvironmentTypeOK'
    BY <1>4 DEF TimeoutAborts, notOwn, procVars, TypeInv, TypeOK, EnvironmentTypeOK
  <2> QED
    BY <2>1, <2>2, OwnStepType
<1>5. ASSUME NEW ok \in BOOLEAN, RecoverReads(j, ok) PROVE TypeInv'
  <2>1. Moves /\ UNCHANGED <<notOwn, srvVars>>
    BY <1>5 DEF RecoverReads, Recovered, JobPC, Outcomes, Terminal
  <2> QED
    BY <1>0, <2>1, OwnStepType
<1>6. CASE Deliver(j)
  <2>1. UNCHANGED <<call, current>> /\ pc' = [pc EXCEPT ![j] = "inflight"]
    BY <1>6, DistinctAssumption DEF Deliver, Goto, mapVars
  <2>2. Decides(j, "inflight", out[j])
    BY <1>6, <2>1 DEF Deliver, Decides, jobVars, TypeInv, TypeOK, GoroutineTypeOK
  <2>3. out[j] \in Outcomes /\ "inflight" \in JobPC
    BY DEF TypeInv, TypeOK, GoroutineTypeOK, Outcomes, JobPC
  <2>4. EnvironmentTypeOK'
    BY <1>6 DEF Deliver, procVars, TypeInv, TypeOK, EnvironmentTypeOK
  <2>5. UNCHANGED notOwn
    BY <1>6, <2>1 DEF Deliver, notOwn, jobVars, mapVars, diskVars, procVars
  <2> QED
    BY <2>2, <2>3, <2>4, <2>5, OwnStepType
<1>7. ASSUME NEW ok \in BOOLEAN, PromptReturns(j, ok) PROVE TypeInv'
  <2>1. /\ UNCHANGED notOwn
        /\ TimesOut(j) \/ Ends(j) \/ Decides(j, "snapshot", "none")
           \/ Decides(j, "finish", "error") \/ Decides(j, "await", "none")
    BY <1>7 DEF PromptReturns
  <2>2. Moves
    BY <2>1, TimesOutMoves DEF JobPC, Outcomes, Terminal
  <2>3. EnvironmentTypeOK'
    BY <1>7 DEF PromptReturns, notOwn, procVars, TypeInv, TypeOK, EnvironmentTypeOK
  <2> QED
    BY <2>1, <2>2, <2>3, OwnStepType
<1>8. CASE RecoverWaited(j)
  <2>1. Moves /\ UNCHANGED <<notOwn, srvVars>>
    BY <1>8 DEF RecoverWaited, JobPC, Outcomes
  <2> QED
    BY <1>0, <2>1, OwnStepType
<1>9. CASE RecoverWaitFails(j)
  <2>1. UNCHANGED <<notOwn, srvVars>> /\ (TimesOut(j) \/ Decides(j, "snapshot", "none"))
    BY <1>9 DEF RecoverWaitFails
  <2>2. Moves
    BY <2>1, TimesOutMoves DEF JobPC, Outcomes
  <2> QED
    BY <1>0, <2>1, <2>2, OwnStepType
<1>10. CASE Expire(j) \/ RecoveryExpires(j)
  <2>1. JobTypeOK'
    BY <1>10 DEF Expire, RecoveryExpires, TypeInv, TypeOK, JobTypeOK
  <2>2. MapTypeOK' /\ ControlOK' /\ EnvironmentTypeOK'
    BY <1>10 DEF Expire, RecoveryExpires, TypeInv, TypeOK, MapTypeOK, ControlOK, CallOK,
                 GoroutineTypeOK, EnvironmentTypeOK, mapVars, diskVars, gorVars, srvVars, procVars
  <2> QED
    BY <2>1, <2>2, Together
<1> HIDE DEF Moves
<1> QED
  BY <1>1, <1>2, <1>3, <1>4, <1>5, <1>6, <1>7, <1>8, <1>9, <1>10 DEF Answers

LEMMA TurnTypes ==
  ASSUME TypeInv, NEW s \in Sessions, TurnWorks(s) \/ TurnFinishes(s) \/ TurnBreaks(s)
  PROVE  TypeInv'
<1> DEFINE Messages == [by : Jobs \cup {NoJob}, fin : BOOLEAN]
<1>0. /\ turn \in [Sessions -> Jobs \cup {NoJob}]
      /\ last \in [Sessions -> Messages]
      /\ finished \subseteq Jobs /\ answered \subseteq Jobs
  BY DEF TypeInv, TypeOK, EnvironmentTypeOK
<1>a. \A fin \in BOOLEAN : [by |-> turn[s], fin |-> fin] \in Messages
  BY <1>0
<1>b. UNCHANGED <<answered, procVars>>
  BY DEF TurnWorks, TurnFinishes, TurnBreaks
<1>c. turn' \in [Sessions -> Jobs \cup {NoJob}] /\ finished' \subseteq Jobs
  BY <1>0 DEF TurnWorks, TurnFinishes, TurnBreaks
<1>d. last' \in [Sessions -> Messages]
  <2> HIDE DEF Messages
  <2> QED
    BY <1>0, <1>a DEF TurnWorks, TurnFinishes, TurnBreaks
<1>1. EnvironmentTypeOK'
  BY <1>0, <1>b, <1>c, <1>d DEF TypeInv, TypeOK, EnvironmentTypeOK, procVars
<1>2. JobTypeOK' /\ MapTypeOK' /\ ControlOK'
  BY DEF TurnWorks, TurnFinishes, TurnBreaks, TypeInv, TypeOK, JobTypeOK, MapTypeOK,
         GoroutineTypeOK, CallOK, ControlOK, jobVars, mapVars, diskVars, gorVars
<1> QED
  BY <1>1, <1>2, Together

LEMMA ProcessTypes ==
  ASSUME TypeInv, Shutdown \/ \E keep \in BOOLEAN : Restart(keep)
  PROVE  TypeInv'
<1>1. CASE Shutdown
  <2>1. JobTypeOK'
    BY <1>1 DEF Shutdown, Canceled, TypeInv, TypeOK, JobTypeOK
  <2>2. MapTypeOK' /\ ControlOK' /\ EnvironmentTypeOK'
    BY <1>1 DEF Shutdown, TypeInv, TypeOK, MapTypeOK, GoroutineTypeOK, EnvironmentTypeOK,
                CallOK, ControlOK, mapVars, diskVars, gorVars, srvVars
  <2> QED
    BY <2>1, <2>2, Together
<1>2. ASSUME NEW keep \in BOOLEAN, Restart(keep) PROVE TypeInv'
  <2>1. \A j \in Jobs : StatusAfterLoad(j) \in Status
    BY DEF StatusAfterLoad, Loaded, Status, Active, TypeInv, TypeOK, JobTypeOK, MapTypeOK
  <2>2. JobTypeOK'
    BY <1>2, <2>1 DEF Restart, TypeInv, TypeOK, JobTypeOK
  <2>3. MapTypeOK'
    BY <1>2 DEF Restart, diskVars, TypeInv, TypeOK, MapTypeOK
  <2>4. /\ pc' \in [Threads -> JobPC \cup CallPC]
        /\ \A j \in Jobs : pc'[j] \in {"rwait", "off"}
        /\ \A c \in Calls : pc'[c] = "idle"
    BY <1>2, DistinctAssumption DEF Restart, Threads, JobPC, CallPC
  <2>5. call' \in [Calls -> CallType] /\ out' \in [Jobs -> Outcomes] /\ buf' \in [Threads -> Status]
    BY <1>2, NoCallType DEF Restart, Outcomes, Status
  <2>6. ControlOK'
    BY <2>4, <2>5 DEF ControlOK, GoroutineTypeOK, CallOK, JobPC, CallPC, HoldingPC, Outcomes
  <2>7. EnvironmentTypeOK'
    <3>1. turn' \in [Sessions -> Jobs \cup {NoJob}] /\ UNCHANGED <<last, finished, answered>>
      BY <1>2 DEF Restart, TypeInv, TypeOK, EnvironmentTypeOK
    <3>2. down' \in BOOLEAN
      BY <1>2 DEF Restart
    <3>3. restarts' \in Nat
      BY <1>2 DEF Restart, TypeInv, TypeOK, EnvironmentTypeOK
    <3>4. /\ last \in [Sessions -> [by : Jobs \cup {NoJob}, fin : BOOLEAN]]
          /\ finished \subseteq Jobs /\ answered \subseteq Jobs
      BY DEF TypeInv, TypeOK, EnvironmentTypeOK
    <3> QED
      BY <3>1, <3>2, <3>3, <3>4 DEF EnvironmentTypeOK
  <2> QED
    BY <2>2, <2>3, <2>6, <2>7, Together
<1> QED
  BY <1>1, <1>2

LEMMA NextType == TypeInv /\ [Next]_vars => TypeInv'
<1> SUFFICES ASSUME TypeInv, [Next]_vars PROVE TypeInv'
  OBVIOUS
<1>1. CASE UNCHANGED vars
  BY <1>1 DEF vars, TypeInv, TypeOK, JobTypeOK, MapTypeOK, GoroutineTypeOK,
              EnvironmentTypeOK, CallOK, jobVars, mapVars, diskVars, gorVars, srvVars, procVars
<1>2. CASE Next
  BY <1>2, SaveType, CallTypes, JobTypes, TurnTypes, ProcessTypes
  DEF Next, CallRuns, JobRuns, Threads
<1> QED
  BY <1>1, <1>2

\* TypeOK holds in every reachable state; with it, no call ever goes through a
\* nil job pointer.
THEOREM TypeCorrect == Spec => []TypeOK
<1>1. TypeInv => TypeOK
  BY DEF TypeInv
<1> QED
  BY InitType, NextType, <1>1, PTL DEF Spec

-----------------------------------------------------------------------------
(* The maps.  The idempotency index and the tracked jobs agree, and every
   active job is tracked, because records and pointers only ever name jobs that
   were accepted, each on its own session. *)

Known(j) == status[j] \in Active \cup Terminal

MapInv ==
    /\ \A s \in Sessions : current[s] # NoJob => sess[current[s]] = s /\ Known(current[s])
    /\ \A s \in Sessions : diskJob[s] # NoJob =>
          sess[diskJob[s]] = s /\ Known(diskJob[s]) /\ diskStatus[s] \in Active \cup Terminal
    /\ \A j \in Jobs : pc[j] # "off" => Known(j)
    /\ \A c \in Calls : call[c].job # NoJob => Known(call[c].job)
    /\ \A t \in Threads : pc[t] = "rename" => buf[t] \in Active \cup Terminal
    /\ \A j \in Jobs : pc[j] = "finish" => out[j] \in Terminal
    /\ IndexMatchesCurrent
    /\ ActiveIsTracked

LEMMA InitMaps == Init => MapInv
  BY DistinctAssumption
  DEF Init, MapInv, Known, IndexMatchesCurrent, ActiveIsTracked, NoCall, Threads, Active

\* What a step must do to keep MapInv when it settles no job and moves no map.
LEMMA QuietMaps ==
  ASSUME TypeInv, TypeInv', MapInv,
         UNCHANGED <<status, sess, key, current, index, diskJob, diskStatus>>,
         \A j \in Jobs : pc'[j] # "off" => Known(j),
         \A c \in Calls : call'[c].job # NoJob => Known(call'[c].job),
         \A t \in Threads : pc'[t] = "rename" => buf'[t] \in Active \cup Terminal,
         \A j \in Jobs : pc'[j] = "finish" => out'[j] \in Terminal
  PROVE  MapInv'
  BY DEF MapInv, Known, IndexMatchesCurrent, ActiveIsTracked

\* A save names a known job.
LEMMA TargetKnown ==
  ASSUME TypeInv, MapInv, NEW t \in Threads, pc[t] \in {"publish", "snapshot", "rename"}
  PROVE  Target(t) \in Jobs /\ Known(Target(t)) /\ status[Target(t)] \in Active \cup Terminal
<1>1. Target(t) \in Jobs
  BY HoldsTarget
<1>2. Known(Target(t))
  BY <1>1, DistinctAssumption DEF Target, Threads, MapInv
<1> QED
  BY <1>1, <1>2 DEF Known

LEMMA AfterSaveMaps ==
  ASSUME TypeInv, MapInv, NEW t \in Threads, pc[t] = "rename", AfterSave(t)
  PROVE  /\ UNCHANGED <<status, sess, key, current, index>>
         /\ \A j \in Jobs : pc'[j] # "off" => Known(j)
         /\ \A c \in Calls : call'[c].job # NoJob => Known(call'[c].job)
         /\ \A r \in Threads : pc'[r] = "rename" => buf'[r] \in Active \cup Terminal
         /\ \A j \in Jobs : pc'[j] = "finish" => out'[j] \in Terminal
<1>0. /\ UNCHANGED <<status, sess, key, current, index>>
      /\ buf' = [buf EXCEPT ![t] = "none"]
  BY DEF AfterSave, mapVars
<1>1. CASE t \in Jobs
  <2>1. /\ pc' = [pc EXCEPT ![t] = "off"] /\ call' = call
        /\ out' = [out EXCEPT ![t] = "none"]
    BY <1>1 DEF AfterSave, Ends
  <2> QED
    BY <1>0, <1>1, <2>1 DEF MapInv, Known, TypeInv, TypeOK, GoroutineTypeOK
<1>2. CASE t \in Calls
  <2>1. t \notin Jobs
    BY <1>2, DistinctAssumption
  <2>2. /\ call' = [call EXCEPT ![t] = NoCall] /\ out' = out
        /\ \/ pc' = [pc EXCEPT ![t] = "idle"]
           \/ pc' = [pc EXCEPT ![t] = "idle", ![call[t].job] = "prompt"]
    BY <2>1 DEF AfterSave
  <2>3. call[t].job \in Jobs /\ Known(call[t].job)
    BY <1>2, TargetKnown, <2>1 DEF Target
  <2>4. \A j \in Jobs : pc'[j] \in {pc[j], "prompt"} /\ (pc'[j] = pc[j] \/ j = call[t].job)
    BY <2>1, <2>2, <2>3 DEF TypeInv, TypeOK, GoroutineTypeOK, Threads
  <2>5. \A r \in Threads : pc'[r] = "rename" => pc[r] = "rename" /\ r # t
    BY <1>2, <2>1, <2>2, <2>3 DEF TypeInv, TypeOK, GoroutineTypeOK, Threads
  <2>6. \A c \in Calls : call'[c].job # NoJob => call'[c].job = call[c].job
    BY <1>2, <2>2 DEF NoCall, TypeInv, TypeOK, GoroutineTypeOK
  <2> QED
    BY <1>0, <2>2, <2>3, <2>4, <2>5, <2>6 DEF MapInv, TypeInv, TypeOK, GoroutineTypeOK
<1> QED
  BY <1>0, <1>1, <1>2 DEF Threads

LEMMA SaveMaps ==
  ASSUME TypeInv, TypeInv', MapInv, NEW t \in Threads, Save(t)
  PROVE  MapInv'
<1>1. CASE Publish(t) \/ Snapshot(t)
  <2>1. /\ UNCHANGED <<status, sess, key, current, index, diskJob, diskStatus>>
        /\ pc[t] \in {"publish", "snapshot"} /\ UNCHANGED <<call, out>>
        /\ \/ Publish(t) /\ pc' = [pc EXCEPT ![t] = "snapshot"] /\ buf' = buf
           \/ /\ Snapshot(t) /\ pc' = [pc EXCEPT ![t] = "rename"]
              /\ buf' = [buf EXCEPT ![t] = status[Target(t)]]
    BY <1>1 DEF Publish, Snapshot, Goto, mapVars, diskVars, jobVars
  <2>2. status[Target(t)] \in Active \cup Terminal
    BY <2>1, TargetKnown
  <2>3. \A r \in Threads : pc'[r] = "rename" => buf'[r] \in Active \cup Terminal
    BY <2>1, <2>2 DEF MapInv, TypeInv, TypeOK, GoroutineTypeOK
  <2>4. \A j \in Jobs : /\ pc'[j] # "off" => pc[j] # "off"
                        /\ pc'[j] = "finish" => pc[j] = "finish"
    BY <2>1 DEF Threads, TypeInv, TypeOK, GoroutineTypeOK
  <2> QED
    BY <2>1, <2>3, <2>4, QuietMaps DEF MapInv
<1>2. CASE SaveFails(t)
  BY <1>2, AfterSaveMaps, QuietMaps DEF SaveFails, diskVars
<1>3. CASE Rename(t)
  <2>1. /\ UNCHANGED <<status, sess, key, current, index>>
        /\ \A j \in Jobs : pc'[j] # "off" => Known(j)
        /\ \A c \in Calls : call'[c].job # NoJob => Known(call'[c].job)
        /\ \A r \in Threads : pc'[r] = "rename" => buf'[r] \in Active \cup Terminal
        /\ \A j \in Jobs : pc'[j] = "finish" => out'[j] \in Terminal
    BY <1>3, AfterSaveMaps DEF Rename
  <2>2. /\ diskJob'    = [diskJob EXCEPT ![sess[Target(t)]] = Target(t)]
        /\ diskStatus' = [diskStatus EXCEPT ![sess[Target(t)]] = buf[t]]
        /\ buf[t] \in Active \cup Terminal
        /\ Target(t) \in Jobs /\ Known(Target(t))
    BY <1>3, TargetKnown DEF Rename, MapInv
  <2>3. \A s \in Sessions : diskJob'[s] # NoJob =>
          sess[diskJob'[s]] = s /\ Known(diskJob'[s]) /\ diskStatus'[s] \in Active \cup Terminal
    BY <2>2 DEF MapInv, TypeInv, TypeOK, MapTypeOK, JobTypeOK
  <2> QED
    BY <2>1, <2>3 DEF MapInv, Known, IndexMatchesCurrent, ActiveIsTracked
<1> QED
  BY <1>1, <1>2, <1>3 DEF Save

\* A step that settles or amends a known job keeps it known.
LEMMA MarkMaps ==
  ASSUME TypeInv, TypeInv', MapInv, NEW j \in Jobs, NEW st \in Terminal, Known(j),
         status' = [status EXCEPT ![j] = st] \/ status' = status,
         UNCHANGED <<sess, key, current, index, diskJob, diskStatus>>,
         \A i \in Jobs : pc'[i] # "off" => Known(i),
         \A c \in Calls : call'[c].job # NoJob => Known(call'[c].job),
         \A t \in Threads : pc'[t] = "rename" => buf'[t] \in Active \cup Terminal,
         \A i \in Jobs : pc'[i] = "finish" => out'[i] \in Terminal
  PROVE  MapInv'
<1>1. \A i \in Jobs : /\ Known(i) => status'[i] \in Active \cup Terminal
                      /\ status'[i] \in Active => status[i] \in Active
  BY DEF Known, Active, Terminal, TypeInv, TypeOK, JobTypeOK
<1>2. \A i \in Jobs : Known(i) => Known(i)'
  BY <1>1 DEF Known
<1>3. \A s \in Sessions : /\ current[s] # NoJob => current[s] \in Jobs
                          /\ diskJob[s] # NoJob => diskJob[s] \in Jobs
  BY DEF TypeInv, TypeOK, MapTypeOK
<1>4. \A c \in Calls : call'[c].job # NoJob => call'[c].job \in Jobs
  BY DEF TypeInv, TypeOK, GoroutineTypeOK, CallType
<1> QED
  BY <1>1, <1>2, <1>3, <1>4 DEF MapInv, IndexMatchesCurrent, ActiveIsTracked

LEMMA CallMaps ==
  ASSUME TypeInv, TypeInv', MapInv, NEW c \in Calls,
         \/ CancelMarks(c) \/ ReconcileLooksUp(c) \/ ReconcileMarks(c)
         \/ WaitReturns(c) \/ WaitExpires(c)
         \/ \E ok, killed \in BOOLEAN : CancelAborts(c, ok, killed)
         \/ CallBegins(c)
  PROVE  MapInv'
<1>0. /\ c \in Threads /\ c \notin Jobs
      /\ pc \in [Threads -> JobPC \cup CallPC] /\ call \in [Calls -> CallType]
      /\ pc[c] \in HoldingPC => call[c].job \in Jobs /\ Known(call[c].job)
  BY DistinctAssumption DEF Threads, TypeInv, TypeOK, GoroutineTypeOK, MapInv
<1>a. ASSUME NEW where, pc' = [pc EXCEPT ![c] = where], where # "rename", UNCHANGED <<out, buf>>
      PROVE  /\ \A j \in Jobs : pc'[j] # "off" => Known(j)
             /\ \A t \in Threads : pc'[t] = "rename" => buf'[t] \in Active \cup Terminal
             /\ \A j \in Jobs : pc'[j] = "finish" => out'[j] \in Terminal
  BY <1>0, <1>a DEF MapInv, Threads
<1>b. ASSUME NEW where, Goto(c, where)
      PROVE  /\ pc' = [pc EXCEPT ![c] = where]
             /\ \A b \in Calls : call'[b].job # NoJob => Known(call'[b].job)
  BY <1>0, <1>b DEF Goto, NoCall, MapInv
<1>1. CASE CancelMarks(c)
  <2>1. /\ UNCHANGED <<sess, key, current, index, diskJob, diskStatus, out, buf>>
        /\ pc[c] = "mark" /\ (Goto(c, "publish") \/ Goto(c, "idle"))
        /\ status' = [status EXCEPT ![call[c].job] = "canceled"] \/ status' = status
    BY <1>1 DEF CancelMarks, mapVars, diskVars
  <2> QED
    BY <1>0, <1>a, <1>b, <2>1, MarkMaps DEF HoldingPC, Terminal
<1>2. CASE ReconcileLooksUp(c)
  <2>1. /\ UNCHANGED <<status, sess, key, current, index, diskJob, diskStatus, out, buf>>
        /\ pc' = [pc EXCEPT ![c] = "reconcile"]
        /\ call' = [call EXCEPT ![c].job = current[call[c].on]]
        /\ call[c].on \in Sessions /\ current[call[c].on] # NoJob
    BY <1>2, DistinctAssumption
    DEF ReconcileLooksUp, jobVars, mapVars, diskVars, TypeInv, CallOK
  <2>2. \A b \in Calls : call'[b].job # NoJob => Known(call'[b].job)
    BY <1>0, <2>1 DEF MapInv, CallType
  <2> QED
    BY <1>a, <2>1, <2>2, QuietMaps
<1>3. CASE ReconcileMarks(c)
  <2>1. /\ UNCHANGED <<sess, key, current, index, diskJob, diskStatus, out, buf>>
        /\ pc[c] = "reconcile" /\ (Goto(c, "publish") \/ Goto(c, "snapshot"))
        /\ status' = [status EXCEPT ![call[c].job] = "done"] \/ status' = status
    BY <1>3 DEF ReconcileMarks, AfterReconcile, mapVars, diskVars
  <2> QED
    BY <1>0, <1>a, <1>b, <2>1, MarkMaps DEF HoldingPC, Terminal
<1>4. CASE WaitReturns(c) \/ WaitExpires(c)
  <2>1. /\ UNCHANGED <<status, sess, key, current, index, diskJob, diskStatus, out, buf>>
        /\ Goto(c, "idle")
    BY <1>4 DEF WaitReturns, WaitExpires, jobVars, mapVars, diskVars
  <2> QED
    BY <1>a, <1>b, <2>1, QuietMaps
<1>5. ASSUME NEW ok \in BOOLEAN, NEW killed \in BOOLEAN, CancelAborts(c, ok, killed)
      PROVE  MapInv'
  <2>1. /\ UNCHANGED <<status, sess, key, current, index, diskJob, diskStatus, out, buf>>
        /\ Goto(c, "mark") \/ Goto(c, "idle")
    BY <1>5 DEF CancelAborts, jobVars, mapVars, diskVars
  <2> QED
    BY <1>a, <1>b, <2>1, QuietMaps
<1>6. ASSUME NEW s \in Sessions, NEW k \in Keys \cup {NoKey}, NEW d \in Deadlines,
             NEW j \in Jobs, Submit(c, s, k, d, j)
      PROVE  MapInv'
  <2>1. /\ status[j] = "none" /\ sess[j] = s /\ SessionFree(s) /\ pc[c] = "idle"
        /\ k # NoKey => index[s][k] = NoJob
        /\ status' = [status EXCEPT ![j] = "running"]
        /\ key' = [key EXCEPT ![j] = k] /\ current' = [current EXCEPT ![s] = j]
        /\ index' = [index EXCEPT ![s] = [h \in Keys |-> IF h = k THEN j ELSE WithoutKeyOf(s)[h]]]
        /\ pc' = [pc EXCEPT ![c] = "snapshot"]
        /\ call' = [call EXCEPT ![c] = [op |-> "submit", on |-> s, job |-> j]]
        /\ UNCHANGED <<sess, diskJob, diskStatus, out, buf>>
    BY <1>6 DEF Submit, Begin, diskVars
  <2>2. \A i \in Jobs : Known(i) => i # j
    BY <2>1 DEF Known, Active, Terminal
  <2>3. \A i \in Jobs : Known(i) => status'[i] \in Active \cup Terminal
    BY <2>1, <2>2 DEF Known, TypeInv, TypeOK, JobTypeOK
  <2>4. status'[j] \in Active \cup Terminal
    BY <2>1 DEF Active, TypeInv, TypeOK, JobTypeOK
  <2>5. /\ current \in [Sessions -> Jobs \cup {NoJob}] /\ diskJob \in [Sessions -> Jobs \cup {NoJob}]
        /\ key \in [Jobs -> Keys \cup {NoKey}]
        /\ index \in [Sessions -> [Keys -> Jobs \cup {NoJob}]]
        /\ j # NoJob
    BY DistinctAssumption DEF TypeInv, TypeOK, JobTypeOK, MapTypeOK
  <2>6. \A r \in Sessions : current'[r] # NoJob => 
          sess'[current'[r]] = r /\ status'[current'[r]] \in Active \cup Terminal
    BY <2>1, <2>3, <2>4, <2>5 DEF MapInv
  <2>7. \A r \in Sessions : diskJob'[r] # NoJob =>
          /\ sess'[diskJob'[r]] = r
          /\ status'[diskJob'[r]] \in Active \cup Terminal
          /\ diskStatus'[r] \in Active \cup Terminal
    BY <2>1, <2>3, <2>5 DEF MapInv
  <2>8. \A b \in Calls : call'[b].job # NoJob => status'[call'[b].job] \in Active \cup Terminal
    BY <1>0, <2>1, <2>3, <2>4 DEF MapInv, CallType
  <2>9. \A i \in Jobs : pc'[i] # "off" => status'[i] \in Active \cup Terminal
    BY <1>0, <1>a, <2>1, <2>3
  <2>10. IndexMatchesCurrent'
    <3> SUFFICES ASSUME NEW r \in Sessions, NEW h \in Keys
                 PROVE  index'[r][h] = IF current'[r] # NoJob /\ key'[current'[r]] = h
                                       THEN current'[r] ELSE NoJob
      BY DEF IndexMatchesCurrent
    <3>0. index[r][h] = IF current[r] # NoJob /\ key[current[r]] = h THEN current[r] ELSE NoJob
      BY DEF MapInv, IndexMatchesCurrent
    <3>1. CASE r # s
      <4>1. index'[r] = index[r] /\ current'[r] = current[r]
        BY <2>1, <2>5, <3>1
      <4>2. current[r] # NoJob => key'[current[r]] = key[current[r]]
        BY <2>1, <2>2, <2>5 DEF MapInv
      <4> QED
        BY <3>0, <4>1, <4>2
    <3>2. CASE r = s
      <4>1. index'[s][h] = IF h = k THEN j ELSE WithoutKeyOf(s)[h]
        BY <2>1, <2>5
      <4>2. current'[s] = j /\ key'[j] = k
        BY <2>1, <2>5
      <4>3. WithoutKeyOf(s)[h] = NoJob
        BY <3>0, <3>2 DEF WithoutKeyOf
      <4> QED
        BY <2>5, <3>2, <4>1, <4>2, <4>3
    <3> QED
      BY <3>1, <3>2
  <2>11. ActiveIsTracked'
    <3> SUFFICES ASSUME NEW i \in Jobs, status'[i] \in Active PROVE current'[sess'[i]] = i
      BY DEF ActiveIsTracked
    <3>1. CASE i = j
      BY <2>1, <2>5, <3>1
    <3>2. CASE i # j
      <4>1. status[i] \in Active /\ current[sess[i]] = i /\ sess[i] \in Sessions
        BY <2>1, <3>2 DEF MapInv, ActiveIsTracked, TypeInv, TypeOK, JobTypeOK
      <4>2. sess[i] # s
        BY <2>1, <2>5, <4>1, DistinctAssumption DEF SessionFree
      <4> QED
        BY <2>1, <2>5, <4>1, <4>2
    <3> QED
      BY <3>1, <3>2
  <2> QED
    BY <1>a, <2>1, <2>6, <2>7, <2>8, <2>9, <2>10, <2>11 DEF MapInv, Known
<1>7. ASSUME NEW s \in Sessions, CancelBegin(c, s) \/ CheckReads(c, s) \/ WaitBegin(c, s)
      PROVE  MapInv'
  <2>1. /\ UNCHANGED <<status, sess, key, current, index, diskJob, diskStatus, out, buf>>
        /\ \E where \in {"abort", "lookup", "blocked"}, o \in {"cancel", "check", "wait"},
              j \in {NoJob, current[s]} : Begin(c, where, o, s, j)
    BY <1>7 DEF CancelBegin, CheckReads, WaitBegin, jobVars, mapVars, diskVars
  <2>2. PICK where \in {"abort", "lookup", "blocked"}, o \in {"cancel", "check", "wait"},
             j \in {NoJob, current[s]} : Begin(c, where, o, s, j)
    BY <2>1
  <2>3. j # NoJob => Known(j)
    BY DEF MapInv
  <2>4. \A b \in Calls : call'[b].job # NoJob => Known(call'[b].job)
    BY <1>0, <2>2, <2>3 DEF Begin, MapInv
  <2> QED
    BY <1>a, <2>1, <2>2, <2>4, QuietMaps DEF Begin
<1> QED
  BY <1>1, <1>2, <1>3, <1>4, <1>5, <1>6, <1>7 DEF CallBegins

\* A step of a job's goroutine that only moves it, or ends it.
LEMMA OwnStepMaps ==
  ASSUME TypeInv, MapInv, NEW j \in Jobs, pc[j] # "off", UNCHANGED buf,
         \/ \E where \in JobPC \ {"rename"}, outcome \in Outcomes :
              Decides(j, where, outcome) /\ (where = "finish" => outcome \in Terminal)
         \/ Ends(j)
  PROVE  /\ \A i \in Jobs : pc'[i] # "off" => Known(i)
         /\ \A t \in Threads : pc'[t] = "rename" => buf'[t] \in Active \cup Terminal
         /\ \A i \in Jobs : pc'[i] = "finish" => out'[i] \in Terminal
<1>1. /\ pc \in [Threads -> JobPC \cup CallPC] /\ Jobs \subseteq Threads
      /\ out \in [Jobs -> Outcomes]
  BY DEF Threads, Outcomes, TypeInv, TypeOK, GoroutineTypeOK
<1>2. \A i \in Jobs : i # j => pc'[i] = pc[i] /\ out'[i] = out[i]
  BY <1>1 DEF Decides, Ends
<1>3. \A t \in Threads : t # j => pc'[t] = pc[t]
  BY <1>1 DEF Decides, Ends
<1>4. pc'[j] # "rename" /\ (pc'[j] = "finish" => out'[j] \in Terminal)
  BY <1>1 DEF Decides, Ends
<1> QED
  BY <1>2, <1>3, <1>4 DEF MapInv

LEMMA JobMaps ==
  ASSUME TypeInv, TypeInv', MapInv, NEW j \in Jobs,
         \/ AwaitFinished(j) \/ AwaitStops(j) \/ Finish(j)
         \/ \E killed \in BOOLEAN : TimeoutAborts(j, killed)
         \/ \E ok \in BOOLEAN : RecoverReads(j, ok)
         \/ Answers(j) \/ Expire(j) \/ RecoveryExpires(j)
  PROVE  MapInv'
<1> DEFINE Moves ==
      \/ \E where \in JobPC \ {"rename"}, outcome \in Outcomes :
           Decides(j, where, outcome) /\ (where = "finish" => outcome \in Terminal)
      \/ Ends(j)
<1>0. ASSUME pc[j] # "off", UNCHANGED notOwn, Moves PROVE MapInv'
  <2>1. /\ UNCHANGED <<status, sess, key, current, index, diskJob, diskStatus, buf, call>>
    BY <1>0 DEF notOwn, mapVars, diskVars
  <2> HIDE DEF Moves
  <2>2. /\ \A i \in Jobs : pc'[i] # "off" => Known(i)
        /\ \A t \in Threads : pc'[t] = "rename" => buf'[t] \in Active \cup Terminal
        /\ \A i \in Jobs : pc'[i] = "finish" => out'[i] \in Terminal
    BY <1>0, <2>1, OwnStepMaps DEF Moves
  <2> QED
    BY <2>1, <2>2, QuietMaps DEF MapInv
<1>a. ASSUME TimesOut(j) \/ Ends(j) \/ Decides(j, "snapshot", "none") PROVE Moves
  BY <1>a DEF TimesOut, JobPC, Outcomes
<1>1. CASE AwaitFinished(j)
  <2>1. pc[j] # "off" /\ UNCHANGED notOwn /\ Decides(j, "finish", "done")
    BY <1>1 DEF AwaitFinished
  <2>2. Moves
    BY <2>1 DEF JobPC, Outcomes, Terminal
  <2> QED
    BY <1>0, <2>1, <2>2
<1>2. CASE AwaitStops(j)
  <2>1. /\ pc[j] # "off" /\ UNCHANGED notOwn
        /\ TimesOut(j) \/ Ends(j) \/ Decides(j, "snapshot", "none")
    BY <1>2 DEF AwaitStops
  <2> QED
    BY <1>0, <1>a, <2>1
<1>3. CASE Finish(j)
  <2>1. /\ UNCHANGED <<sess, key, current, index, diskJob, diskStatus, buf, call>>
        /\ pc[j] = "finish" /\ out[j] \in Terminal
        /\ Decides(j, "publish", "none") \/ Ends(j)
        /\ status' = [status EXCEPT ![j] = out[j]] \/ status' = status
    BY <1>3 DEF Finish, MapInv, mapVars, diskVars
  <2>2. Moves
    BY <2>1 DEF JobPC, Outcomes
  <2>3. /\ \A i \in Jobs : pc'[i] # "off" => Known(i)
        /\ \A t \in Threads : pc'[t] = "rename" => buf'[t] \in Active \cup Terminal
        /\ \A i \in Jobs : pc'[i] = "finish" => out'[i] \in Terminal
    BY <2>1, <2>2, OwnStepMaps
  <2>4. Known(j) /\ \A c \in Calls : call'[c].job # NoJob => Known(call'[c].job)
    BY <2>1 DEF MapInv
  <2> HIDE DEF Moves
  <2> QED
    BY <2>1, <2>3, <2>4, MarkMaps
<1>4. ASSUME NEW killed \in BOOLEAN, TimeoutAborts(j, killed) PROVE MapInv'
  <2>1. pc[j] # "off" /\ UNCHANGED notOwn /\ Decides(j, "finish", "timed_out")
    BY <1>4 DEF TimeoutAborts
  <2>2. Moves
    BY <2>1 DEF JobPC, Outcomes, Terminal
  <2> QED
    BY <1>0, <2>1, <2>2
<1>5. ASSUME NEW ok \in BOOLEAN, RecoverReads(j, ok) PROVE MapInv'
  <2>1. /\ pc[j] # "off" /\ UNCHANGED notOwn
        /\ \/ Decides(j, "finish", "done") \/ Decides(j, "finish", "error")
           \/ Decides(j, "snapshot", "none")
    BY <1>5 DEF RecoverReads, Recovered
  <2>2. Moves
    BY <2>1 DEF JobPC, Outcomes, Terminal
  <2> QED
    BY <1>0, <2>1, <2>2
<1>6. CASE Deliver(j)
  <2>1. /\ pc[j] # "off"
        /\ UNCHANGED <<status, sess, key, current, index, diskJob, diskStatus, buf, call, out>>
        /\ pc' = [pc EXCEPT ![j] = "inflight"]
    BY <1>6 DEF Deliver, Goto, jobVars, mapVars, diskVars
  <2>2. /\ pc \in [Threads -> JobPC \cup CallPC] /\ j \in Threads /\ Jobs \subseteq Threads
    BY DEF Threads, TypeInv, TypeOK, GoroutineTypeOK
  <2>3. /\ \A i \in Jobs : pc'[i] # "off" => pc[i] # "off"
        /\ \A t \in Threads : pc'[t] = "rename" => pc[t] = "rename"
        /\ \A i \in Jobs : pc'[i] = "finish" => pc[i] = "finish"
    BY <2>1, <2>2
  <2> QED
    BY <2>1, <2>3, QuietMaps DEF MapInv
<1>7. ASSUME NEW ok \in BOOLEAN, PromptReturns(j, ok) PROVE MapInv'
  <2>1. /\ pc[j] # "off" /\ UNCHANGED notOwn
        /\ TimesOut(j) \/ Ends(j) \/ Decides(j, "snapshot", "none")
           \/ Decides(j, "finish", "error") \/ Decides(j, "await", "none")
    BY <1>7 DEF PromptReturns
  <2>2. Moves
    BY <2>1, <1>a DEF JobPC, Outcomes, Terminal
  <2> QED
    BY <1>0, <2>1, <2>2
<1>8. CASE RecoverWaited(j)
  <2>1. pc[j] # "off" /\ UNCHANGED notOwn /\ Decides(j, "rread", "none")
    BY <1>8 DEF RecoverWaited
  <2>2. Moves
    BY <2>1 DEF JobPC, Outcomes
  <2> QED
    BY <1>0, <2>1, <2>2
<1>9. CASE RecoverWaitFails(j)
  <2>1. /\ pc[j] # "off" /\ UNCHANGED notOwn
        /\ TimesOut(j) \/ Decides(j, "snapshot", "none")
    BY <1>9 DEF RecoverWaitFails
  <2> QED
    BY <1>0, <1>a, <2>1
<1>10. CASE Expire(j) \/ RecoveryExpires(j)
  <2>1. UNCHANGED <<status, sess, key, current, index, diskJob, diskStatus, buf, call, out, pc>>
    BY <1>10 DEF Expire, RecoveryExpires, mapVars, diskVars, gorVars
  <2> QED
    BY <2>1, QuietMaps DEF MapInv
<1> HIDE DEF Moves
<1> QED
  BY <1>1, <1>2, <1>3, <1>4, <1>5, <1>6, <1>7, <1>8, <1>9, <1>10 DEF Answers

LEMMA TurnMaps ==
  ASSUME TypeInv, TypeInv', MapInv,
         Shutdown \/ \E s \in Sessions : TurnWorks(s) \/ TurnFinishes(s) \/ TurnBreaks(s)
  PROVE  MapInv'
<1>1. UNCHANGED <<status, sess, key, current, index, diskJob, diskStatus, buf, call, out, pc>>
  BY DEF Shutdown, TurnWorks, TurnFinishes, TurnBreaks, jobVars, mapVars, diskVars, gorVars
<1> QED
  BY <1>1, QuietMaps DEF MapInv

LEMMA RestartMaps ==
  ASSUME TypeInv, TypeInv', MapInv, NEW keep \in BOOLEAN, Restart(keep)
  PROVE  MapInv'
<1>0. /\ status' = [j \in Jobs |-> StatusAfterLoad(j)]
      /\ current' = diskJob
      /\ UNCHANGED <<sess, key, diskJob, diskStatus>>
      /\ \A s \in Sessions : diskJob[s] \in Jobs \cup {NoJob}
      /\ sess \in [Jobs -> Sessions]
  BY DEF Restart, diskVars, TypeInv, TypeOK, MapTypeOK, JobTypeOK
<1>1. /\ \A c \in Calls : call'[c].job = NoJob
      /\ \A t \in Threads : pc'[t] \in {"idle", "rwait", "off"}
      /\ \A j \in Jobs : pc'[j] # "off" => StatusAfterLoad(j) = "unknown"
  BY DistinctAssumption DEF Restart, NoCall, Threads
<1>2. \A s \in Sessions : diskJob[s] # NoJob =>
        StatusAfterLoad(diskJob[s]) \in (Active \cup Terminal) \ {"running"}
  BY <1>0 DEF StatusAfterLoad, OnDisk, Loaded, MapInv, Known, Active, Terminal
<1>3. \A s \in Sessions : diskJob[s] # NoJob => status'[diskJob[s]] \in Active \cup Terminal
  BY <1>0, <1>2
<1>4. \A j \in Jobs : StatusAfterLoad(j) \in Active => diskJob[sess[j]] = j
  BY DEF StatusAfterLoad, OnDisk, Active
<1>5. IndexMatchesCurrent'
  BY <1>0 DEF Restart, IndexMatchesCurrent
<1>6. ActiveIsTracked'
  BY <1>0, <1>4 DEF ActiveIsTracked
<1>7. \A j \in Jobs : pc'[j] # "off" => status'[j] \in Active \cup Terminal
  BY <1>0, <1>1 DEF Active
<1>8. \A j \in Jobs : pc'[j] # "finish"
  BY <1>1 DEF Threads
<1> QED
  BY <1>0, <1>1, <1>3, <1>5, <1>6, <1>7, <1>8 DEF MapInv, Known

LEMMA NextMaps == TypeInv /\ TypeInv' /\ MapInv /\ [Next]_vars => MapInv'
<1> SUFFICES ASSUME TypeInv, TypeInv', MapInv, [Next]_vars PROVE MapInv'
  OBVIOUS
<1>1. CASE UNCHANGED vars
  BY <1>1 DEF vars, MapInv, Known, IndexMatchesCurrent, ActiveIsTracked, jobVars, mapVars,
              diskVars, gorVars
<1>2. CASE Next
  BY <1>2, SaveMaps, CallMaps, JobMaps, TurnMaps, RestartMaps DEF Next, CallRuns, JobRuns, Threads
<1> QED
  BY <1>1, <1>2

LEMMA MapsHold == Spec => []MapInv
  BY InitType, NextType, InitMaps, NextMaps, PTL DEF Spec

\* The idempotency index holds a key exactly while the session's tracked job is
\* the one submitted with it, for any number of sessions, keys and restarts.
THEOREM IndexAgrees == Spec => []IndexMatchesCurrent
<1>1. MapInv => IndexMatchesCurrent
  BY DEF MapInv
<1> QED
  BY MapsHold, <1>1, PTL

\* A running or unknown job is the one its session tracks: SubmitJob never lets
\* a second one in, and no restart leaves one untracked.
THEOREM ActiveTracked == Spec => []ActiveIsTracked
<1>1. MapInv => ActiveIsTracked
  BY DEF MapInv
<1> QED
  BY MapsHold, <1>1, PTL

-----------------------------------------------------------------------------
(* What a step may never do. *)

\* What a step does to the jobs that are over.
Stays ==
    \A j \in Jobs : status[j] \in Terminal /\ status'[j] # status[j] =>
        \/ restarts' # restarts
        \/ status[j] = "error" /\ status'[j] = "done"

LEMMA StepSettles ==
  ASSUME TypeInv, Next
  PROVE  Stays
<1> USE DEF Stays
<1>0. status \in [Jobs -> Status] /\ restarts \in Nat
  BY DEF TypeInv, TypeOK, JobTypeOK, EnvironmentTypeOK
<1>1. ASSUME NEW c \in Calls, CallRuns(c) \/ WaitExpires(c)
               \/ \E ok, killed \in BOOLEAN : CancelAborts(c, ok, killed)
      PROVE  Stays
  <2>1. CASE CancelMarks(c)
    BY <1>0, <2>1 DEF CancelMarks, Settleable
  <2>2. CASE ReconcileMarks(c)
    BY <1>0, <2>2 DEF ReconcileMarks, Reconcilable, Terminal
  <2>3. CASE Save(c)
    BY <2>3 DEF Save, Publish, Snapshot, Rename, SaveFails, AfterSave, jobVars
  <2>4. CASE \/ ReconcileLooksUp(c) \/ WaitReturns(c) \/ WaitExpires(c)
             \/ \E ok, killed \in BOOLEAN : CancelAborts(c, ok, killed)
    BY <2>4 DEF ReconcileLooksUp, WaitReturns, WaitExpires, CancelAborts, jobVars
  <2> QED
    BY <1>1, <2>1, <2>2, <2>3, <2>4 DEF CallRuns
<1>2. ASSUME NEW c \in Calls, CallBegins(c) PROVE Stays
  <2>1. ASSUME NEW s \in Sessions, NEW k \in Keys \cup {NoKey}, NEW d \in Deadlines,
               NEW i \in Jobs, Submit(c, s, k, d, i)
        PROVE  Stays
    BY <1>0, <2>1 DEF Submit, Terminal
  <2>2. ASSUME NEW s \in Sessions, CancelBegin(c, s) \/ CheckReads(c, s) \/ WaitBegin(c, s)
        PROVE  Stays
    BY <2>2 DEF CancelBegin, CheckReads, WaitBegin, jobVars
  <2> QED
    BY <1>2, <2>1, <2>2 DEF CallBegins
<1>3. ASSUME NEW i \in Jobs, JobRuns(i) \/ Answers(i) \/ Expire(i) \/ RecoveryExpires(i)
      PROVE  Stays
  <2>1. CASE Finish(i)
    BY <1>0, <2>1 DEF Finish, Settleable
  <2>2. CASE Save(i)
    BY <2>2 DEF Save, Publish, Snapshot, Rename, SaveFails, AfterSave, jobVars
  <2>3. CASE \/ AwaitFinished(i) \/ AwaitStops(i)
             \/ \E killed \in BOOLEAN : TimeoutAborts(i, killed)
             \/ \E ok \in BOOLEAN : RecoverReads(i, ok)
    BY <2>3 DEF AwaitFinished, AwaitStops, TimeoutAborts, RecoverReads, notOwn
  <2>4. CASE Answers(i) \/ Expire(i) \/ RecoveryExpires(i)
    BY <2>4 DEF Answers, Deliver, PromptReturns, RecoverWaited, RecoverWaitFails, Expire,
                RecoveryExpires, notOwn, jobVars
  <2> QED
    BY <1>3, <2>1, <2>2, <2>3, <2>4 DEF JobRuns
<1>4. ASSUME NEW s \in Sessions, TurnWorks(s) \/ TurnFinishes(s) \/ TurnBreaks(s)
      PROVE  Stays
  BY <1>4 DEF TurnWorks, TurnFinishes, TurnBreaks, jobVars
<1>5. Shutdown => Stays
  BY DEF Shutdown
<1>6. ASSUME NEW keep \in BOOLEAN, Restart(keep) PROVE Stays
  BY <1>0, <1>6 DEF Restart
<1> HIDE DEF Stays
<1> QED
  BY <1>1, <1>2, <1>3, <1>4, <1>5, <1>6 DEF Next

\* While the process lives, a job that was canceled, timed out or done stays
\* so, and one that failed can only be found done: the four places that write a
\* status ask for the old one in the same critical section.
THEOREM SettledStays == Spec => SettledIsFinal
<1>1. TypeInv /\ [Next]_vars => [Stays]_vars
  BY StepSettles
<1> QED
  BY InitType, NextType, <1>1, PTL DEF Spec, SettledIsFinal, Stays

\* No context is alive once the executor's root context is canceled: the ones
\* there are were canceled with it, and a later submission gets a canceled one.
DownInv == down => \A j \in Jobs : ctx[j] # "live"

LEMMA DownHolds == TypeInv /\ DownInv /\ [Next]_vars => DownInv'
<1> SUFFICES ASSUME TypeInv, DownInv, [Next]_vars PROVE DownInv'
  OBVIOUS
<1>0. ctx \in [Jobs -> Contexts]
  BY DEF TypeInv, TypeOK, JobTypeOK, Contexts
<1>a. ASSUME UNCHANGED down, \A j \in Jobs : ctx'[j] = "live" => ctx[j] = "live"
      PROVE  DownInv'
  BY <1>a DEF DownInv
<1>b. ASSUME NEW j \in Jobs, Ends(j), UNCHANGED down PROVE DownInv'
  BY <1>0, <1>a, <1>b DEF Ends
<1>c. ASSUME UNCHANGED <<ctx, down>> PROVE DownInv'
  BY <1>a, <1>c
<1>1. ASSUME NEW t \in Threads, Save(t) PROVE DownInv'
  <2>1. CASE Publish(t)
    <3>1. UNCHANGED down /\ ctx' = CancelContext(Target(t))
      BY <2>1 DEF Publish, procVars
    <3> QED
      BY <1>0, <1>a, <3>1 DEF CancelContext, Canceled
  <2>2. CASE Snapshot(t)
    BY <1>c, <2>2 DEF Snapshot, jobVars, procVars
  <2>3. CASE AfterSave(t)
    BY <1>b, <1>c, <2>3 DEF AfterSave, procVars
  <2> QED
    BY <1>1, <2>1, <2>2, <2>3 DEF Save, Rename, SaveFails
<1>2. ASSUME NEW c \in Calls,
             \/ CancelMarks(c) \/ ReconcileLooksUp(c) \/ ReconcileMarks(c)
             \/ WaitReturns(c) \/ WaitExpires(c)
             \/ \E ok, killed \in BOOLEAN : CancelAborts(c, ok, killed)
             \/ \E s \in Sessions : CancelBegin(c, s) \/ CheckReads(c, s) \/ WaitBegin(c, s)
      PROVE  DownInv'
  BY <1>c, <1>2 DEF CancelMarks, ReconcileLooksUp, ReconcileMarks, WaitReturns, WaitExpires,
     CancelAborts, CancelBegin, CheckReads, WaitBegin, jobVars, procVars
<1>3. ASSUME NEW c \in Calls, NEW s \in Sessions, NEW k \in Keys \cup {NoKey},
             NEW d \in Deadlines, NEW j \in Jobs, Submit(c, s, k, d, j)
      PROVE  DownInv'
  <2>1. UNCHANGED down /\ ctx' = [ctx EXCEPT ![j] = IF down THEN "canceled" ELSE "live"]
    BY <1>3 DEF Submit, RootContext, procVars
  <2> QED
    BY <1>0, <2>1 DEF DownInv
<1>4. ASSUME NEW j \in Jobs, Finish(j) \/ AwaitStops(j) \/ AwaitFinished(j)
               \/ (\E killed \in BOOLEAN : TimeoutAborts(j, killed))
               \/ (\E ok \in BOOLEAN : RecoverReads(j, ok)) \/ Answers(j)
      PROVE  DownInv'
  <2>1. UNCHANGED down
    BY <1>4 DEF Finish, AwaitStops, AwaitFinished, TimeoutAborts, RecoverReads, Answers,
       Deliver, PromptReturns, RecoverWaited, RecoverWaitFails, notOwn, procVars
  <2>2. ctx' = ctx \/ Ends(j)
    BY <1>4 DEF Finish, AwaitStops, AwaitFinished, TimeoutAborts, RecoverReads, Answers,
       Deliver, PromptReturns, RecoverWaited, RecoverWaitFails, TimesOut, Decides, jobVars
  <2> QED
    BY <1>b, <1>c, <2>1, <2>2
<1>5. ASSUME NEW j \in Jobs, Expire(j) \/ RecoveryExpires(j) PROVE DownInv'
  BY <1>0, <1>a, <1>5 DEF Expire, RecoveryExpires, procVars
<1>6. ASSUME NEW s \in Sessions, TurnWorks(s) \/ TurnFinishes(s) \/ TurnBreaks(s)
      PROVE  DownInv'
  BY <1>c, <1>6 DEF TurnWorks, TurnFinishes, TurnBreaks, jobVars, procVars
<1>7. CASE Shutdown
  BY <1>7 DEF Shutdown, Canceled, DownInv
<1>8. ASSUME NEW keep \in BOOLEAN, Restart(keep) PROVE DownInv'
  BY <1>8 DEF Restart, DownInv
<1>9. CASE UNCHANGED vars
  BY <1>9, <1>c DEF vars, jobVars, procVars
<1> QED
  BY <1>1, <1>2, <1>3, <1>4, <1>5, <1>6, <1>7, <1>8, <1>9
  DEF Next, CallRuns, JobRuns, CallBegins, Threads

\* A shutdown preserves the jobs: no goroutine decides that its job failed once
\* the root context is canceled, whenever the job was submitted.
THEOREM ShutdownPreserves == Spec => ShutdownFailsNoJob
<1> DEFINE Preserves == \A j \in Jobs :
             down /\ pc[j] # "finish" /\ pc'[j] = "finish" => out'[j] # "error"
<1>0. Init => DownInv
  BY DEF Init, DownInv
<1>1. ASSUME TypeInv, DownInv, [Next]_vars PROVE [Preserves]_vars
  <2>0. /\ pc \in [Threads -> JobPC \cup CallPC] /\ out \in [Jobs -> Outcomes]
        /\ Jobs \subseteq Threads /\ Calls \subseteq Threads
    BY <1>1 DEF TypeInv, TypeOK, GoroutineTypeOK, Outcomes, Threads
  <2>1. ASSUME NEW i \in Jobs, down, pc[i] # "finish", pc'[i] = "finish" PROVE out'[i] # "error"
    <3>0. ctx[i] # "live" /\ pc' # pc
      BY <1>1, <2>1 DEF DownInv
    <3>1. ASSUME NEW j \in Jobs, NEW where, NEW outcome, Decides(j, where, outcome)
          PROVE  i = j /\ where = "finish" /\ outcome = out'[i]
      BY <2>0, <2>1, <3>1 DEF Decides
    <3>2. \A j \in Jobs : ~Ends(j)
      BY <2>0, <2>1 DEF Ends
    <3>3. ASSUME NEW c \in Calls, NEW where, pc' = [pc EXCEPT ![c] = where] PROVE FALSE
      BY <2>0, <2>1, <3>3, DistinctAssumption
    <3>4. ASSUME NEW t \in Threads, Save(t) PROVE FALSE
      <4>1. CASE Publish(t) \/ Snapshot(t)
        BY <2>0, <2>1, <4>1 DEF Publish, Snapshot, Goto
      <4>2. CASE AfterSave(t)
        BY <2>0, <2>1, <3>2, <4>2 DEF AfterSave
      <4> QED
        BY <3>4, <4>1, <4>2 DEF Save, Rename, SaveFails
    <3>5. ASSUME NEW c \in Calls, CallRuns(c) \/ CallBegins(c) \/ WaitExpires(c)
                   \/ \E ok, killed \in BOOLEAN : CancelAborts(c, ok, killed)
          PROVE  FALSE
      BY <2>0, <3>3, <3>4, <3>5 DEF CallRuns, CallBegins, CancelMarks, ReconcileLooksUp,
         ReconcileMarks, WaitReturns, WaitExpires, CancelAborts, CancelBegin, CheckReads,
         WaitBegin, Submit, Begin, Goto
    <3>6. ASSUME NEW j \in Jobs, AwaitFinished(j) \/ AwaitStops(j) \/ Finish(j)
                   \/ \E killed \in BOOLEAN : TimeoutAborts(j, killed)
          PROVE  out'[i] # "error"
      BY <3>1, <3>2, <3>6 DEF AwaitFinished, AwaitStops, Finish, TimeoutAborts, TimesOut
    <3>7. ASSUME NEW j \in Jobs, NEW ok \in BOOLEAN, RecoverReads(j, ok) \/ PromptReturns(j, ok)
          PROVE  out'[i] # "error"
      BY <3>0, <3>1, <3>2, <3>7 DEF RecoverReads, PromptReturns, TimesOut
    <3>8. ASSUME NEW j \in Jobs, Deliver(j) \/ RecoverWaited(j) \/ RecoverWaitFails(j)
          PROVE  out'[i] # "error"
      BY <2>0, <2>1, <3>1, <3>2, <3>8 DEF Deliver, Goto, RecoverWaited, RecoverWaitFails, TimesOut
    <3>9. \A j \in Jobs : ~Expire(j) /\ ~RecoveryExpires(j)
      BY <3>0 DEF Expire, RecoveryExpires, gorVars
    <3>10. /\ \A s \in Sessions : ~TurnWorks(s) /\ ~TurnFinishes(s) /\ ~TurnBreaks(s)
           /\ ~Shutdown
      BY <3>0 DEF TurnWorks, TurnFinishes, TurnBreaks, Shutdown, gorVars
    <3>11. ASSUME NEW keep \in BOOLEAN, Restart(keep) PROVE FALSE
      BY <2>0, <2>1, <3>11 DEF Restart
    <3>12. ~UNCHANGED vars
      BY <3>0 DEF vars, gorVars
    <3> QED
      BY <1>1, <2>0, <3>4, <3>5, <3>6, <3>7, <3>8, <3>9, <3>10, <3>11, <3>12
      DEF Next, JobRuns, Answers
  <2> QED
    BY <2>1
<1> QED
  BY InitType, NextType, DownHolds, <1>0, <1>1, PTL DEF Spec, ShutdownFailsNoJob

-----------------------------------------------------------------------------
(* No lost wakeup.  Between the critical section that settles a job and the
   close of Job.done nobody else can move the goroutine that owes it: the only
   step of one goroutine that moves another is the go statement of SubmitJob,
   and the job it starts has no goroutine yet. *)

SubmitOwns ==
    /\ \A c \in Calls : call[c].op = "submit" =>
          pc[c] \in {"snapshot", "rename"} /\ call[c].job \in Jobs /\ pc[call[c].job] = "off"
    /\ \A b, c \in Calls : call[b].op = "submit" /\ call[c].op = "submit"
                           /\ call[b].job = call[c].job => b = c

WakeInv == SubmitOwns /\ NoLostWakeup

LEMMA InitWakes == Init => WakeInv
  BY DEF Init, WakeInv, SubmitOwns, NoLostWakeup, NoCall, Terminal

\* A step that settles nothing, moves no goroutine that owes a signal, and
\* starts none that a submission still has to start.
LEMMA QuietWakes ==
  ASSUME TypeInv, WakeInv,
         UNCHANGED <<status, doneClosed>>,
         \A t \in Threads : pc[t] = "publish" => pc'[t] = "publish",
         \A c \in Calls : pc[c] = "publish" => call'[c].job = call[c].job,
         \A c \in Calls : call'[c].op = "submit" =>
            pc'[c] \in {"snapshot", "rename"} /\ call'[c] = call[c],
         \A j \in Jobs : pc[j] = "off" /\ pc'[j] # "off" =>
            \A c \in Calls : call'[c].op = "submit" => call'[c].job # j
  PROVE  WakeInv'
<1>1. SubmitOwns'
  BY DEF WakeInv, SubmitOwns
<1>2. NoLostWakeup'
  BY DEF WakeInv, NoLostWakeup, Target, Threads
<1> QED
  BY <1>1, <1>2 DEF WakeInv

\* A step of a call that is not a submission.
LEMMA CallWakes ==
  ASSUME TypeInv, WakeInv, NEW c \in Calls, NEW where,
         pc' = [pc EXCEPT ![c] = where], \A b \in Calls : b # c => call'[b] = call[b],
         call'[c].op # "submit", pc[c] # "publish", UNCHANGED <<status, doneClosed>>
  PROVE  WakeInv'
<1>0. /\ pc \in [Threads -> JobPC \cup CallPC] /\ c \in Threads /\ c \notin Jobs
      /\ Jobs \subseteq Threads /\ Calls \subseteq Threads
  BY DistinctAssumption DEF TypeInv, TypeOK, GoroutineTypeOK, Threads
<1>1. \A t \in Threads : t # c => pc'[t] = pc[t]
  BY <1>0
<1>2. \A b \in Calls : call'[b].op = "submit" => b # c /\ call'[b] = call[b] /\ pc'[b] = pc[b]
  BY <1>0, <1>1
<1>3. \A b \in Calls : pc[b] = "publish" => call'[b].job = call[b].job
  OBVIOUS
<1>4. \A j \in Jobs : pc'[j] = pc[j]
  BY <1>0, <1>1
<1> QED
  BY <1>1, <1>2, <1>3, <1>4, QuietWakes DEF WakeInv, SubmitOwns

\* A step of a job's goroutine, up to finish.
LEMMA OwnWakes ==
  ASSUME TypeInv, WakeInv, NEW j \in Jobs, pc[j] \notin {"off", "publish"},
         (\E where : pc' = [pc EXCEPT ![j] = where]) \/ Ends(j),
         UNCHANGED <<status, doneClosed, call>>
  PROVE  WakeInv'
<1>1. pc \in [Threads -> JobPC \cup CallPC] /\ Jobs \subseteq Threads /\ Calls \subseteq Threads
  BY DEF TypeInv, TypeOK, GoroutineTypeOK, Threads
<1>2. j \notin Calls
  BY DistinctAssumption
<1>3. \A t \in Threads : t # j => pc'[t] = pc[t]
  BY <1>1 DEF Ends
<1> QED
  BY <1>1, <1>2, <1>3, QuietWakes DEF WakeInv, SubmitOwns

LEMMA SaveWakes ==
  ASSUME TypeInv, WakeInv, NEW t \in Threads, Save(t)
  PROVE  WakeInv'
<1>0. /\ pc \in [Threads -> JobPC \cup CallPC] /\ call \in [Calls -> CallType]
      /\ Jobs \subseteq Threads /\ Calls \subseteq Threads /\ Threads = Jobs \cup Calls
      /\ \A c \in Calls : c \notin Jobs
  BY DistinctAssumption DEF TypeInv, TypeOK, GoroutineTypeOK, Threads
<1>1. CASE Publish(t)
  <2>1. /\ pc[t] = "publish" /\ pc' = [pc EXCEPT ![t] = "snapshot"] /\ UNCHANGED <<status, call>>
        /\ doneClosed' = [doneClosed EXCEPT ![Target(t)] = TRUE]
    BY <1>1 DEF Publish, Goto
  <2>2. \A r \in Threads : r # t => pc'[r] = pc[r]
    BY <1>0, <2>1
  <2>3. SubmitOwns'
    <3>1. \A c \in Calls : call[c].op = "submit" => c # t /\ call[c].job # t
      BY <2>1 DEF WakeInv, SubmitOwns
    <3> QED
      BY <1>0, <2>1, <2>2, <3>1 DEF WakeInv, SubmitOwns
  <2>4. NoLostWakeup'
    <3> SUFFICES ASSUME NEW j \in Jobs, status[j] \in Terminal, ~doneClosed'[j]
                 PROVE  \E r \in Threads : pc'[r] = "publish" /\ Target(r) = j
      BY <2>1 DEF NoLostWakeup, Target
    <3>1. doneClosed \in [Jobs -> BOOLEAN] /\ Target(t) \in Jobs
      BY <2>1, HoldsTarget DEF TypeInv, TypeOK, JobTypeOK
    <3>2. ~doneClosed[j] /\ j # Target(t)
      BY <2>1, <3>1
    <3>3. PICK r \in Threads : pc[r] = "publish" /\ Target(r) = j
      BY <3>2 DEF WakeInv, NoLostWakeup
    <3> QED
      BY <2>2, <3>2, <3>3
  <2> QED
    BY <2>3, <2>4 DEF WakeInv
<1>2. CASE Snapshot(t)
  <2>1. /\ pc[t] = "snapshot" /\ pc' = [pc EXCEPT ![t] = "rename"]
        /\ UNCHANGED <<status, call, doneClosed>>
    BY <1>2 DEF Snapshot, Goto, jobVars
  <2>2. \A r \in Threads : r # t => pc'[r] = pc[r]
    BY <1>0, <2>1
  <2>3. pc'[t] = "rename"
    BY <1>0, <2>1
  <2> QED
    BY <1>0, <2>1, <2>2, <2>3, QuietWakes DEF WakeInv, SubmitOwns
<1>3. CASE pc[t] = "rename" /\ AfterSave(t)
  <2>1. UNCHANGED <<status, doneClosed>>
    BY <1>3 DEF AfterSave
  <2>2. CASE t \in Jobs
    BY <1>3, <2>1, <2>2, OwnWakes DEF AfterSave
  <2>3. CASE t \in Calls
    <3>1. /\ call' = [call EXCEPT ![t] = NoCall] /\ NoCall.op # "submit"
          /\ pc' = IF call[t].op = "submit"
                   THEN [pc EXCEPT ![t] = "idle", ![call[t].job] = "prompt"]
                   ELSE [pc EXCEPT ![t] = "idle"]
      BY <1>0, <1>3, <2>3 DEF AfterSave, NoCall
    <3>2. CASE call[t].op # "submit"
      BY <1>0, <1>3, <2>1, <2>3, <3>1, <3>2, CallWakes
    <3>3. CASE call[t].op = "submit"
      <4>1. /\ call[t].job \in Jobs /\ pc[call[t].job] = "off"
            /\ \A c \in Calls : c # t /\ call[c].op = "submit" => call[c].job # call[t].job
        BY <2>3, <3>3 DEF WakeInv, SubmitOwns
      <4>2. \A r \in Threads : r # t /\ r # call[t].job => pc'[r] = pc[r]
        BY <1>0, <3>1, <3>3, <4>1
      <4>3. \A c \in Calls : call'[c].op = "submit" => c # t /\ call'[c] = call[c]
        BY <1>0, <3>1
      <4>4. \A c \in Calls : pc[c] = "publish" => call'[c].job = call[c].job
        BY <1>0, <1>3, <3>1
      <4>5. \A c \in Calls : c # call[t].job
        BY <1>0, <4>1
      <4>6. \A r \in Threads : pc[r] = "publish" => pc'[r] = "publish"
        BY <1>3, <4>1, <4>2
      <4>7. \A c \in Calls : call'[c].op = "submit" =>
              pc'[c] \in {"snapshot", "rename"} /\ call'[c] = call[c]
        BY <1>0, <4>2, <4>3, <4>5 DEF WakeInv, SubmitOwns
      <4>8. \A j \in Jobs : pc[j] = "off" /\ pc'[j] # "off" =>
              \A c \in Calls : call'[c].op = "submit" => call'[c].job # j
        BY <1>0, <2>3, <4>1, <4>2, <4>3
      <4> QED
        BY <2>1, <4>4, <4>6, <4>7, <4>8, QuietWakes
    <3> QED
      BY <3>2, <3>3
  <2> QED
    BY <1>0, <2>2, <2>3
<1> QED
  BY <1>1, <1>2, <1>3 DEF Save, Rename, SaveFails

\* A step that settles a job leaves its goroutine owing the signal.
LEMMA MarkWakes ==
  ASSUME TypeInv, WakeInv, NEW t \in Threads, Target(t) \in Jobs, NEW where, NEW st,
         pc[t] \notin {"publish", "off", "snapshot", "rename"}, where # "idle",
         pc' = [pc EXCEPT ![t] = where], UNCHANGED <<doneClosed, call>>,
         status' = [status EXCEPT ![Target(t)] = st],
         status[Target(t)] \notin Terminal => where = "publish"
  PROVE  WakeInv'
<1>0. /\ pc \in [Threads -> JobPC \cup CallPC] /\ status \in [Jobs -> Status]
      /\ Jobs \subseteq Threads /\ Calls \subseteq Threads
  BY DEF TypeInv, TypeOK, JobTypeOK, GoroutineTypeOK, Threads
<1>1. \A r \in Threads : r # t => pc'[r] = pc[r]
  BY <1>0
<1>2. SubmitOwns'
  <2>1. \A c \in Calls : call[c].op = "submit" => c # t /\ call[c].job # t
    BY DEF WakeInv, SubmitOwns
  <2> QED
    BY <1>0, <1>1, <2>1 DEF WakeInv, SubmitOwns
<1>3. NoLostWakeup'
  <2> SUFFICES ASSUME NEW j \in Jobs, status'[j] \in Terminal, ~doneClosed[j]
               PROVE  \E r \in Threads : pc'[r] = "publish" /\ Target(r) = j
    BY DEF NoLostWakeup, Target
  <2>1. CASE j = Target(t) /\ status[j] \notin Terminal
    BY <1>0, <2>1
  <2>2. CASE status[j] \in Terminal
    <3>1. PICK r \in Threads : pc[r] = "publish" /\ Target(r) = j
      BY <2>2 DEF WakeInv, NoLostWakeup
    <3> QED
      BY <1>1, <3>1
  <2> QED
    BY <1>0, <2>1, <2>2
<1> QED
  BY <1>2, <1>3 DEF WakeInv

LEMMA CallsWake ==
  ASSUME TypeInv, MapInv, WakeInv, NEW c \in Calls,
         \/ CancelMarks(c) \/ ReconcileLooksUp(c) \/ ReconcileMarks(c)
         \/ WaitReturns(c) \/ WaitExpires(c)
         \/ \E ok, killed \in BOOLEAN : CancelAborts(c, ok, killed)
         \/ CallBegins(c)
  PROVE  WakeInv'
<1>0. /\ c \in Threads /\ c \notin Jobs /\ call \in [Calls -> CallType]
      /\ Target(c) = call[c].job /\ NoCall.op = "none"
      /\ pc[c] \in HoldingPC => call[c].job \in Jobs
      /\ pc[c] \notin {"snapshot", "rename"} => call[c].op # "submit"
  BY DistinctAssumption DEF Threads, Target, NoCall, TypeInv, TypeOK, GoroutineTypeOK, WakeInv,
     SubmitOwns
<1>a. ASSUME NEW where, Goto(c, where), pc[c] \notin {"publish", "snapshot", "rename"},
             UNCHANGED <<status, doneClosed>>
      PROVE  WakeInv'
  <2>1. /\ pc' = [pc EXCEPT ![c] = where] /\ call'[c].op # "submit"
        /\ \A b \in Calls : b # c => call'[b] = call[b]
    BY <1>0, <1>a DEF Goto
  <2> QED
    BY <1>a, <2>1, CallWakes
<1>b. ASSUME NEW where, NEW o, NEW s, NEW j, Begin(c, where, o, s, j), o # "submit",
             UNCHANGED <<status, doneClosed>>
      PROVE  WakeInv'
  <2>1. /\ pc' = [pc EXCEPT ![c] = where] /\ call'[c].op # "submit" /\ pc[c] # "publish"
        /\ \A b \in Calls : b # c => call'[b] = call[b]
    BY <1>0, <1>b DEF Begin
  <2> QED
    BY <1>b, <2>1, CallWakes
<1>1. CASE CancelMarks(c)
  <2>1. CASE Settleable(call[c].job)
    <3>1. /\ pc[c] = "mark" /\ UNCHANGED <<doneClosed, call>>
          /\ status' = [status EXCEPT ![call[c].job] = "canceled"]
          /\ pc' = [pc EXCEPT ![c] = "publish"]
      BY <1>1, <2>1 DEF CancelMarks, Goto
    <3> QED
      BY <1>0, <3>1, MarkWakes DEF HoldingPC
  <2>2. CASE ~Settleable(call[c].job)
    BY <1>1, <1>a, <2>2 DEF CancelMarks
  <2> QED
    BY <2>1, <2>2
<1>2. CASE ReconcileLooksUp(c)
  <2>1. /\ pc[c] = "lookup" /\ pc' = [pc EXCEPT ![c] = "reconcile"]
        /\ call' = [call EXCEPT ![c].job = current[call[c].on]]
        /\ UNCHANGED <<status, doneClosed>>
    BY <1>2 DEF ReconcileLooksUp, jobVars
  <2>2. call'[c].op # "submit" /\ \A b \in Calls : b # c => call'[b] = call[b]
    BY <1>0, <2>1 DEF CallType
  <2> QED
    BY <2>1, <2>2, CallWakes
<1>3. CASE ReconcileMarks(c)
  <2>0. /\ pc[c] = "reconcile" /\ call[c].job \in Jobs /\ UNCHANGED doneClosed
        /\ Goto(c, AfterReconcile(call[c].job))
    BY <1>0, <1>3 DEF ReconcileMarks, HoldingPC
  <2>1. CASE Reconcilable(call[c].job)
    <3>1. /\ UNCHANGED call /\ AfterReconcile(call[c].job) # "idle"
          /\ pc' = [pc EXCEPT ![c] = AfterReconcile(call[c].job)]
          /\ status' = [status EXCEPT ![call[c].job] = "done"]
          /\ status[call[c].job] \notin Terminal => AfterReconcile(call[c].job) = "publish"
      BY <1>3, <2>0, <2>1 DEF ReconcileMarks, AfterReconcile, Goto
    <3> HIDE DEF AfterReconcile
    <3> QED
      BY <1>0, <2>0, <3>1, MarkWakes
  <2>2. CASE ~Reconcilable(call[c].job)
    BY <1>3, <1>a, <2>0, <2>2 DEF ReconcileMarks
  <2> QED
    BY <2>1, <2>2
<1>4. CASE WaitReturns(c) \/ WaitExpires(c)
  BY <1>4, <1>a DEF WaitReturns, WaitExpires, jobVars
<1>5. ASSUME NEW ok \in BOOLEAN, NEW killed \in BOOLEAN, CancelAborts(c, ok, killed)
      PROVE  WakeInv'
  BY <1>5, <1>a DEF CancelAborts, jobVars
<1>6. ASSUME NEW s \in Sessions, NEW k \in Keys \cup {NoKey}, NEW d \in Deadlines,
             NEW j \in Jobs, Submit(c, s, k, d, j)
      PROVE  WakeInv'
  <2>1. /\ pc[c] = "idle" /\ pc' = [pc EXCEPT ![c] = "snapshot"] /\ status[j] = "none"
        /\ call' = [call EXCEPT ![c] = [op |-> "submit", on |-> s, job |-> j]]
        /\ status' = [status EXCEPT ![j] = "running"] /\ UNCHANGED doneClosed
    BY <1>6 DEF Submit, Begin
  <2>2. /\ pc \in [Threads -> JobPC \cup CallPC] /\ status \in [Jobs -> Status]
        /\ Jobs \subseteq Threads /\ Calls \subseteq Threads
    BY DEF TypeInv, TypeOK, JobTypeOK, GoroutineTypeOK, Threads
  <2>3. /\ \A t \in Threads : t # c => pc'[t] = pc[t]
        /\ \A b \in Calls : b # c => call'[b] = call[b]
        /\ pc'[c] = "snapshot" /\ call'[c].job = j
    BY <1>0, <2>1, <2>2
  <2>4. ~Known(j)
    BY <2>1 DEF Known, Active, Terminal
  <2>5. pc[j] = "off" /\ \A b \in Calls : call[b].job # j
    BY <2>4, DistinctAssumption DEF MapInv
  <2>6. SubmitOwns'
    BY <1>0, <2>2, <2>3, <2>5 DEF WakeInv, SubmitOwns
  <2>7. NoLostWakeup'
    <3> SUFFICES ASSUME NEW i \in Jobs, status'[i] \in Terminal, ~doneClosed'[i]
                 PROVE  \E t \in Threads : pc'[t] = "publish" /\ Target(t)' = i
      BY DEF NoLostWakeup
    <3>1. status[i] \in Terminal /\ ~doneClosed[i]
      BY <2>1, <2>2 DEF Terminal
    <3>2. PICK t \in Threads : pc[t] = "publish" /\ Target(t) = i
      BY <3>1 DEF WakeInv, NoLostWakeup
    <3>3. t # c
      BY <2>1, <3>2
    <3> QED
      BY <2>3, <3>2, <3>3 DEF Target, Threads
  <2> QED
    BY <2>6, <2>7 DEF WakeInv
<1>7. ASSUME NEW s \in Sessions, CancelBegin(c, s) \/ CheckReads(c, s) \/ WaitBegin(c, s)
      PROVE  WakeInv'
  BY <1>7, <1>b DEF CancelBegin, CheckReads, WaitBegin, jobVars
<1> QED
  BY <1>1, <1>2, <1>3, <1>4, <1>5, <1>6, <1>7 DEF CallBegins

LEMMA JobsWake ==
  ASSUME TypeInv, WakeInv, NEW j \in Jobs,
         \/ AwaitFinished(j) \/ AwaitStops(j) \/ Finish(j)
         \/ \E killed \in BOOLEAN : TimeoutAborts(j, killed)
         \/ \E ok \in BOOLEAN : RecoverReads(j, ok)
         \/ Answers(j)
  PROVE  WakeInv'
<1>1. CASE Finish(j)
  <2>1. CASE Settleable(j)
    <3>1. /\ pc[j] = "finish" /\ pc' = [pc EXCEPT ![j] = "publish"] /\ UNCHANGED <<doneClosed, call>>
          /\ status' = [status EXCEPT ![j] = out[j]]
      BY <1>1, <2>1 DEF Finish, Decides
    <3> QED
      BY <3>1, MarkWakes DEF Target, Threads
  <2>2. CASE ~Settleable(j)
    BY <1>1, <2>2, OwnWakes DEF Finish
  <2> QED
    BY <2>1, <2>2
<1>2. CASE Deliver(j)
  BY <1>2, OwnWakes DEF Deliver, Goto, jobVars
<1>3. CASE \/ AwaitFinished(j) \/ AwaitStops(j)
           \/ (\E killed \in BOOLEAN : TimeoutAborts(j, killed))
           \/ (\E ok \in BOOLEAN : RecoverReads(j, ok) \/ PromptReturns(j, ok))
           \/ RecoverWaited(j) \/ RecoverWaitFails(j)
  <2>1. pc[j] \notin {"off", "publish"} /\ UNCHANGED <<status, doneClosed, call>>
    BY <1>3 DEF AwaitFinished, AwaitStops, TimeoutAborts, RecoverReads, PromptReturns,
                RecoverWaited, RecoverWaitFails, notOwn
  <2>2. (\E where : pc' = [pc EXCEPT ![j] = where]) \/ Ends(j)
    BY <1>3 DEF AwaitFinished, AwaitStops, TimeoutAborts, RecoverReads, PromptReturns,
                RecoverWaited, RecoverWaitFails, TimesOut, Decides
  <2> QED
    BY <2>1, <2>2, OwnWakes
<1> QED
  BY <1>1, <1>2, <1>3 DEF Answers

LEMMA NextWakes == TypeInv /\ MapInv /\ WakeInv /\ [Next]_vars => WakeInv'
<1> SUFFICES ASSUME TypeInv, MapInv, WakeInv, [Next]_vars PROVE WakeInv'
  OBVIOUS
<1>1. ASSUME UNCHANGED <<status, doneClosed, pc, call>> PROVE WakeInv'
  BY <1>1 DEF WakeInv, SubmitOwns, NoLostWakeup, Target
<1>2. ASSUME NEW j \in Jobs, Expire(j) \/ RecoveryExpires(j) PROVE WakeInv'
  BY <1>1, <1>2 DEF Expire, RecoveryExpires, gorVars
<1>3. ASSUME NEW s \in Sessions, TurnWorks(s) \/ TurnFinishes(s) \/ TurnBreaks(s)
      PROVE  WakeInv'
  BY <1>1, <1>3 DEF TurnWorks, TurnFinishes, TurnBreaks, gorVars, jobVars
<1>4. CASE Shutdown
  BY <1>1, <1>4 DEF Shutdown, gorVars
<1>5. ASSUME NEW keep \in BOOLEAN, Restart(keep) PROVE WakeInv'
  <2>1. /\ \A j \in Jobs : status'[j] \in Terminal => doneClosed'[j]
        /\ \A c \in Calls : call'[c].op # "submit"
    BY <1>5 DEF Restart, NoCall
  <2> QED
    BY <2>1 DEF WakeInv, SubmitOwns, NoLostWakeup
<1>6. CASE UNCHANGED vars
  BY <1>1, <1>6 DEF vars, gorVars, jobVars
<1> QED
  BY <1>2, <1>3, <1>4, <1>5, <1>6, SaveWakes, CallsWake, JobsWake
  DEF Next, CallRuns, JobRuns, Threads

\* A job that is over has its done channel closed, or a goroutine on its way to
\* close it: nobody who waits for the job is forgotten.
THEOREM NobodyForgotten == Spec => []NoLostWakeup
<1>1. WakeInv => NoLostWakeup
  BY DEF WakeInv
<1>2. Spec => []WakeInv
  BY MapsHold, InitType, NextType, InitWakes, NextWakes, PTL DEF Spec
<1> QED
  BY <1>1, <1>2, PTL

-----------------------------------------------------------------------------
(* The records.  What is on disk, and what a save is about to put there, was
   the status of its job when it was read, and settled statuses stay. *)

\* st is no further than job j is.
Behind(st, j) ==
    st \in Terminal => status[j] = st \/ (st = "error" /\ status[j] = "done")

DiskInv ==
    /\ \A s \in Sessions : diskJob[s] = NoJob => diskStatus[s] = "none"
    /\ \A s \in Sessions : Behind(diskStatus[s], diskJob[s])
    /\ \A t \in Threads : pc[t] = "rename" => Behind(buf[t], Target(t))

LEMMA InitDisk == Init => DiskInv
  BY DEF Init, DiskInv, Behind, Terminal, Threads

\* A step that puts nothing on disk, and has no goroutine about to.
LEMMA QuietDisk ==
  ASSUME TypeInv, MapInv, DiskInv, Stays, restarts' = restarts,
         UNCHANGED <<diskJob, diskStatus>>,
         \A t \in Threads : pc'[t] = "rename" =>
            pc[t] = "rename" /\ buf'[t] = buf[t] /\ (t \in Calls => call'[t] = call[t])
  PROVE  DiskInv'
<1>1. ASSUME NEW st, NEW j \in Jobs, Behind(st, j) PROVE Behind(st, j)'
  BY <1>1 DEF Behind, Stays, Terminal
<1>2. ASSUME NEW s \in Sessions PROVE Behind(diskStatus[s], diskJob[s])'
  <2>1. CASE diskJob[s] = NoJob
    BY <2>1 DEF DiskInv, Behind, Terminal
  <2>2. CASE diskJob[s] # NoJob
    <3>1. diskJob[s] \in Jobs
      BY <2>2 DEF TypeInv, TypeOK, MapTypeOK
    <3>2. Behind(diskStatus[s], diskJob[s])
      BY DEF DiskInv
    <3> QED
      BY <1>1, <3>1, <3>2 DEF Behind
  <2> QED
    BY <2>1, <2>2
<1>3. ASSUME NEW t \in Threads, pc'[t] = "rename" PROVE Behind(buf[t], Target(t))'
  <2>1. Target(t)' = Target(t)
    BY <1>3 DEF Target, Threads
  <2>2. Target(t) \in Jobs
    BY <1>3, HoldsTarget
  <2>3. Behind(buf[t], Target(t)) /\ buf'[t] = buf[t]
    BY <1>3 DEF DiskInv
  <2> QED
    BY <1>1, <2>1, <2>2, <2>3 DEF Behind
<1> QED
  BY <1>2, <1>3 DEF DiskInv

LEMMA SaveDisk ==
  ASSUME TypeInv, MapInv, DiskInv, NEW t \in Threads, Save(t), Stays
  PROVE  DiskInv'
<1> USE DistinctAssumption
<1>0. /\ pc \in [Threads -> JobPC \cup CallPC] /\ buf \in [Threads -> Status]
      /\ call \in [Calls -> CallType] /\ Jobs \subseteq Threads /\ Calls \subseteq Threads
  BY DEF TypeInv, TypeOK, GoroutineTypeOK, Threads
<1>1. CASE Publish(t)
  <2>1. /\ pc' = [pc EXCEPT ![t] = "snapshot"]
        /\ UNCHANGED <<call, buf, diskJob, diskStatus, restarts>>
    BY <1>1 DEF Publish, Goto, diskVars, procVars
  <2> QED
    BY <1>0, <2>1, QuietDisk
<1>2. CASE Snapshot(t)
  <2>1. /\ pc' = [pc EXCEPT ![t] = "rename"] /\ buf' = [buf EXCEPT ![t] = status[Target(t)]]
        /\ UNCHANGED <<call, diskJob, diskStatus, status>>
    BY <1>2 DEF Snapshot, Goto, diskVars, jobVars
  <2>2. ASSUME NEW u \in Threads, pc'[u] = "rename" PROVE Behind(buf[u], Target(u))'
    <3>1. Target(u)' = Target(u)
      BY <2>1 DEF Target
    <3>2. CASE u = t
      BY <1>0, <2>1, <3>1, <3>2 DEF Behind
    <3>3. CASE u # t
      BY <1>0, <2>1, <2>2, <3>1, <3>3 DEF DiskInv, Behind
    <3> QED
      BY <3>2, <3>3
  <2> QED
    BY <2>1, <2>2 DEF DiskInv, Behind
<1>3. CASE Rename(t) \/ SaveFails(t)
  <2>0. pc[t] = "rename" /\ AfterSave(t)
    BY <1>3 DEF Rename, SaveFails
  <2>1. ASSUME NEW u \in Threads, pc'[u] = "rename"
        PROVE  pc[u] = "rename" /\ u # t /\ buf'[u] = buf[u] /\ (u \in Calls => call'[u] = call[u])
    BY <1>0, <2>0, <2>1 DEF AfterSave, Ends
  <2>2. UNCHANGED <<status, restarts>>
    BY <2>0 DEF AfterSave, procVars
  <2>3. CASE UNCHANGED diskVars
    BY <2>1, <2>2, <2>3, QuietDisk DEF diskVars
  <2>4. CASE Rename(t)
    <3>1. Target(t) \in Jobs /\ sess[Target(t)] \in Sessions
      BY <2>0, HoldsTarget DEF TypeInv, TypeOK, JobTypeOK
    <3>2. /\ diskJob' = [diskJob EXCEPT ![sess[Target(t)]] = Target(t)]
          /\ diskStatus' = [diskStatus EXCEPT ![sess[Target(t)]] = buf[t]]
      BY <2>4 DEF Rename
    <3>3. diskJob \in [Sessions -> Jobs \cup {NoJob}] /\ diskStatus \in [Sessions -> Status]
      BY DEF TypeInv, TypeOK, MapTypeOK
    <3>4. ASSUME NEW s \in Sessions
          PROVE  /\ diskJob'[s] = NoJob => diskStatus'[s] = "none"
                 /\ Behind(diskStatus[s], diskJob[s])'
      <4>1. CASE s = sess[Target(t)]
        BY <2>0, <2>2, <3>1, <3>2, <3>3, <4>1 DEF DiskInv, Behind
      <4>2. CASE s # sess[Target(t)]
        BY <2>2, <3>2, <3>3, <4>2 DEF DiskInv, Behind
      <4> QED
        BY <4>1, <4>2
    <3>5. ASSUME NEW u \in Threads, pc'[u] = "rename" PROVE Behind(buf[u], Target(u))'
      <4>1. Target(u)' = Target(u)
        BY <2>1, <3>5 DEF Target, Threads
      <4> QED
        BY <2>1, <2>2, <3>5, <4>1 DEF DiskInv, Behind
    <3> QED
      BY <3>4, <3>5 DEF DiskInv
  <2> QED
    BY <1>3, <2>3, <2>4 DEF SaveFails
<1> QED
  BY <1>1, <1>2, <1>3 DEF Save

\* Steps that move one goroutine to a point that is not the end of a save.
LEMMA OtherDisk ==
  ASSUME TypeInv, MapInv, DiskInv, Stays, restarts' = restarts,
         UNCHANGED <<diskJob, diskStatus, buf>>,
         NEW t \in Threads, NEW where, where # "rename", pc' = [pc EXCEPT ![t] = where],
         \A c \in Calls : c # t => call'[c] = call[c]
  PROVE  DiskInv'
<1>1. pc \in [Threads -> JobPC \cup CallPC]
  BY DEF TypeInv, TypeOK, GoroutineTypeOK
<1> QED
  BY <1>1, QuietDisk

LEMMA CallsDisk ==
  ASSUME TypeInv, MapInv, DiskInv, Stays, NEW c \in Calls,
         \/ CallBegins(c) \/ CancelMarks(c) \/ ReconcileLooksUp(c) \/ ReconcileMarks(c)
         \/ WaitReturns(c) \/ WaitExpires(c)
         \/ \E ok, killed \in BOOLEAN : CancelAborts(c, ok, killed)
  PROVE  DiskInv'
<1> USE DistinctAssumption DEF diskVars, procVars
<1>0. c \in Threads /\ call \in [Calls -> CallType]
  BY DEF Threads, TypeInv, TypeOK, GoroutineTypeOK
<1>1. CASE CallBegins(c)
  <2>1. /\ \E o, s, i : \E where \in {"snapshot", "abort", "lookup", "blocked"} : Begin(c, where, o, s, i)
        /\ UNCHANGED <<buf, diskJob, diskStatus, restarts>>
    BY <1>1 DEF CallBegins, Submit, CancelBegin, CheckReads, WaitBegin
  <2> QED
    BY <1>0, <2>1, OtherDisk DEF Begin
<1>2. CASE ReconcileLooksUp(c)
  BY <1>0, <1>2, OtherDisk DEF ReconcileLooksUp
<1>3. ASSUME NEW where \in {"idle", "publish", "snapshot", "mark"}, Goto(c, where),
             UNCHANGED <<buf, diskJob, diskStatus, restarts>>
      PROVE  DiskInv'
  BY <1>0, <1>3, OtherDisk DEF Goto
<1>4. CASE CancelMarks(c)
  BY <1>3, <1>4 DEF CancelMarks
<1>5. CASE ReconcileMarks(c)
  BY <1>3, <1>5 DEF ReconcileMarks, AfterReconcile
<1>6. CASE WaitReturns(c) \/ WaitExpires(c)
  BY <1>3, <1>6 DEF WaitReturns, WaitExpires
<1>7. CASE \E ok, killed \in BOOLEAN : CancelAborts(c, ok, killed)
  BY <1>3, <1>7 DEF CancelAborts
<1> QED
  BY <1>1, <1>2, <1>4, <1>5, <1>6, <1>7

LEMMA JobsDisk ==
  ASSUME TypeInv, MapInv, DiskInv, Stays, NEW j \in Jobs,
         \/ AwaitFinished(j) \/ AwaitStops(j) \/ Finish(j)
         \/ (\E killed \in BOOLEAN : TimeoutAborts(j, killed))
         \/ (\E ok \in BOOLEAN : RecoverReads(j, ok))
         \/ Answers(j)
  PROVE  DiskInv'
<1>1. j \in Threads /\ j \notin Calls
  BY DistinctAssumption DEF Threads
<1>2. UNCHANGED <<call, buf, diskJob, diskStatus, restarts>>
  BY <1>1 DEF AwaitFinished, AwaitStops, Finish, TimeoutAborts, RecoverReads, Answers, Deliver,
     PromptReturns, RecoverWaited, RecoverWaitFails, Goto, notOwn, diskVars, procVars
<1>3. \E where : where # "rename" /\ pc' = [pc EXCEPT ![j] = where]
  BY DEF AwaitFinished, AwaitStops, Finish, TimeoutAborts, RecoverReads, Answers, Deliver,
     PromptReturns, RecoverWaited, RecoverWaitFails, Goto, TimesOut, Decides, Ends
<1> QED
  BY <1>1, <1>2, <1>3, OtherDisk

LEMMA RestartDisk ==
  ASSUME TypeInv, MapInv, DiskInv, NEW keep \in BOOLEAN, Restart(keep)
  PROVE  DiskInv'
<1>1. /\ UNCHANGED <<diskJob, diskStatus>>
      /\ \A t \in Threads : pc'[t] # "rename"
      /\ status' = [j \in Jobs |-> StatusAfterLoad(j)]
  BY DEF Restart, diskVars
<1>2. ASSUME NEW s \in Sessions, diskStatus[s] \in Terminal
      PROVE  status'[diskJob[s]] = diskStatus[s]
  <2>1. diskJob[s] \in Jobs /\ sess[diskJob[s]] = s
    BY <1>2 DEF DiskInv, MapInv, TypeInv, TypeOK, MapTypeOK, Terminal
  <2>2. status[diskJob[s]] # "none"
    BY <1>2 DEF DiskInv, Behind, Terminal
  <2> QED
    BY <1>1, <1>2, <2>1, <2>2 DEF StatusAfterLoad, OnDisk, Loaded, Terminal
<1> QED
  BY <1>1, <1>2 DEF DiskInv, Behind

LEMMA NextDisk == TypeInv /\ MapInv /\ DiskInv /\ [Next]_vars => DiskInv'
<1> SUFFICES ASSUME TypeInv, MapInv, DiskInv, [Next]_vars PROVE DiskInv'
  OBVIOUS
<1>1. ASSUME UNCHANGED <<status, restarts, diskJob, diskStatus, pc, call, buf>> PROVE DiskInv'
  BY <1>1 DEF DiskInv, Behind, Target
<1>2. CASE Next
  <2>1. Stays
    BY <1>2, StepSettles
  <2>2. ASSUME NEW j \in Jobs, Expire(j) \/ RecoveryExpires(j) PROVE DiskInv'
    BY <1>1, <2>2 DEF Expire, RecoveryExpires, gorVars, diskVars, procVars
  <2>3. ASSUME NEW s \in Sessions, TurnWorks(s) \/ TurnFinishes(s) \/ TurnBreaks(s) PROVE DiskInv'
    BY <1>1, <2>3 DEF TurnWorks, TurnFinishes, TurnBreaks, gorVars, jobVars, diskVars, procVars
  <2>4. CASE Shutdown
    BY <1>1, <2>4 DEF Shutdown, gorVars, diskVars
  <2> QED
    BY <1>2, <2>1, <2>2, <2>3, <2>4, SaveDisk, CallsDisk, JobsDisk, RestartDisk
    DEF Next, CallRuns, JobRuns, Threads
<1>3. CASE UNCHANGED vars
  BY <1>1, <1>3 DEF vars, gorVars, jobVars, diskVars, procVars
<1> QED
  BY <1>2, <1>3

LEMMA DiskHolds == Spec => []DiskInv
  BY InitType, NextType, MapsHold, InitDisk, NextDisk, PTL DEF Spec

\* A settled status on disk is the job's own, an error possibly amended since:
\* a restart never settles a job that was not settled, nor settles it anew.
THEOREM RecordsBehind == Spec => []SettledOnDiskIsSettled
<1>1. DiskInv => SettledOnDiskIsSettled
  BY DEF DiskInv, Behind, SettledOnDiskIsSettled
<1> QED
  BY <1>1, DiskHolds, PTL

-----------------------------------------------------------------------------
(* Done.  Whoever is about to call a job done has OpenCode's answer to its
   prompt, or has seen a finished turn of its session: in its hands, in its
   outcome, or in the latest message. *)

FinishedIn(s) == \E i \in finished : sess[i] = s

Earned(j) == j \in answered \/ FinishedIn(sess[j])

EvidenceInv ==
    /\ \A s \in Sessions : turn[s] # NoJob => sess[turn[s]] = s
    /\ \A s \in Sessions : last[s].fin => FinishedIn(s)
    /\ \A j \in Jobs : pc[j] = "await" => j \in answered
    /\ \A j \in Jobs : out[j] = "done" => Earned(j)
    /\ \A c \in Calls : pc[c] = "lookup" => FinishedIn(call[c].on)
    /\ \A c \in Calls : pc[c] = "reconcile" => FinishedIn(sess[call[c].job])
    /\ \A j \in Jobs : status[j] = "done" => Earned(j)

LEMMA InitEvidence == Init => EvidenceInv
  BY DistinctAssumption DEF Init, EvidenceInv, NoMessage, Threads

\* A step of a goroutine or a call, which publishes no message.
LEMMA KeepsEvidence ==
  ASSUME TypeInv, EvidenceInv, UNCHANGED <<sess, last, finished>>, answered \subseteq answered',
         \A s \in Sessions : turn'[s] # NoJob => sess[turn'[s]] = s,
         \A j \in Jobs : pc'[j] = "await" => j \in answered',
         \A j \in Jobs : out'[j] = "done" => Earned(j),
         \A c \in Calls : pc'[c] = "lookup" => FinishedIn(call'[c].on),
         \A c \in Calls : pc'[c] = "reconcile" => FinishedIn(sess[call'[c].job]),
         \A j \in Jobs : status'[j] = "done" => Earned(j)
  PROVE  EvidenceInv'
  BY DEF EvidenceInv, FinishedIn, Earned

LEMMA TypesOfEvidence ==
  ASSUME TypeInv
  PROVE  /\ pc \in [Threads -> JobPC \cup CallPC] /\ call \in [Calls -> CallType]
         /\ out \in [Jobs -> Outcomes] /\ status \in [Jobs -> Status] /\ sess \in [Jobs -> Sessions]
         /\ turn \in [Sessions -> Jobs \cup {NoJob}]
         /\ last \in [Sessions -> [by : Jobs \cup {NoJob}, fin : BOOLEAN]] /\ finished \subseteq Jobs
         /\ Jobs \subseteq Threads /\ Calls \subseteq Threads /\ Jobs \cap Calls = {}
  BY DistinctAssumption DEF TypeInv, TypeOK, JobTypeOK, GoroutineTypeOK, EnvironmentTypeOK, Threads, Outcomes

LEMMA SaveEvidence ==
  ASSUME TypeInv, EvidenceInv, NEW t \in Threads, Save(t)
  PROVE  EvidenceInv'
<1> USE TypesOfEvidence DEF srvVars
<1>1. ASSUME NEW where \in {"snapshot", "rename"}, Goto(t, where), UNCHANGED <<status, sess, out, srvVars>>
      PROVE  EvidenceInv'
  BY <1>1, KeepsEvidence DEF Goto, EvidenceInv
<1>2. CASE Publish(t) \/ Snapshot(t)
  BY <1>1, <1>2 DEF Publish, Snapshot, jobVars
<1>3. CASE AfterSave(t)
  <2>1. UNCHANGED <<status, sess, srvVars>>
    BY <1>3 DEF AfterSave
  <2>2. \A j \in Jobs : (pc'[j] = "await" => pc[j] = "await") /\ (out'[j] = "done" => out[j] = "done")
    BY <1>3 DEF AfterSave, Ends
  <2>3. \A c \in Calls : pc'[c] \in {"lookup", "reconcile"} => pc'[c] = pc[c] /\ call'[c] = call[c]
    BY <1>3, DistinctAssumption DEF AfterSave, Ends
  <2> QED
    BY <2>1, <2>2, <2>3, KeepsEvidence DEF EvidenceInv
<1> QED
  BY <1>2, <1>3 DEF Save, Rename, SaveFails

LEMMA CallsEvidence ==
  ASSUME TypeInv, MapInv, EvidenceInv, NEW c \in Calls,
         \/ CallBegins(c) \/ CancelMarks(c) \/ ReconcileLooksUp(c) \/ ReconcileMarks(c)
         \/ WaitReturns(c) \/ WaitExpires(c)
         \/ \E ok, killed \in BOOLEAN : CancelAborts(c, ok, killed)
  PROVE  EvidenceInv'
<1> USE TypesOfEvidence DEF srvVars
<1>1. ASSUME NEW where, NEW o, NEW s \in Sessions, NEW j, Begin(c, where, o, s, j),
             where \notin {"reconcile"}, where = "lookup" => FinishedIn(s),
             \A i \in Jobs : status'[i] = "done" => status[i] = "done",
             UNCHANGED <<sess, out, srvVars>>
      PROVE  EvidenceInv'
  <2>1. /\ pc' = [pc EXCEPT ![c] = where]
        /\ call' = [call EXCEPT ![c] = [op |-> o, on |-> s, job |-> j]]
    BY <1>1 DEF Begin
  <2>2. call'[c].on = s /\ \A d \in Calls \ {c} : call'[d] = call[d] /\ pc'[d] = pc[d]
    BY <2>1
  <2>3. \A i \in Jobs : pc'[i] = pc[i]
    BY <2>1
  <2> QED
    BY <1>1, <2>1, <2>2, <2>3, KeepsEvidence DEF EvidenceInv
<1>2. ASSUME NEW s \in Sessions, NEW k, NEW d, NEW j \in Jobs, Submit(c, s, k, d, j) PROVE EvidenceInv'
  BY <1>1, <1>2 DEF Submit
<1>3. ASSUME NEW s \in Sessions, CancelBegin(c, s) \/ WaitBegin(c, s) PROVE EvidenceInv'
  BY <1>1, <1>3 DEF CancelBegin, WaitBegin, jobVars
<1>4. ASSUME NEW s \in Sessions, CheckReads(c, s) PROVE EvidenceInv'
  <2>1. Begin(c, "lookup", "check", s, NoJob) /\ UNCHANGED <<status, sess, out, srvVars>>
    BY <1>4 DEF CheckReads, jobVars
  <2>2. FinishedIn(s)
    BY <1>4 DEF CheckReads, SessionFinished, EvidenceInv
  <2> QED
    BY <1>1, <2>1, <2>2
<1>5. CASE CallBegins(c)
  BY <1>2, <1>3, <1>4, <1>5 DEF CallBegins
<1>6. CASE ReconcileLooksUp(c)
  <2>1. current[call[c].on] \in Jobs /\ call[c].on \in Sessions
    BY <1>6 DEF ReconcileLooksUp, TypeInv, CallOK
  <2>2. sess[current[call[c].on]] = call[c].on
    BY <2>1, DistinctAssumption DEF MapInv
  <2> QED
    BY <1>6, <2>2, KeepsEvidence DEF ReconcileLooksUp, EvidenceInv, jobVars
<1>7. ASSUME NEW where \in {"idle", "publish", "snapshot", "mark"}, Goto(c, where), UNCHANGED <<sess, out, last, finished, answered>>,
             \A s \in Sessions : turn'[s] # NoJob => turn'[s] = turn[s],
             \A j \in Jobs : status'[j] = "done" => Earned(j)
      PROVE  EvidenceInv'
  <2>1. \A d \in Calls : d # c => pc'[d] = pc[d] /\ call'[d] = call[d]
    BY <1>7 DEF Goto
  <2> QED
    BY <1>7, <2>1, KeepsEvidence DEF Goto, EvidenceInv
<1>8. CASE CancelMarks(c)
  BY <1>7, <1>8 DEF CancelMarks, EvidenceInv
<1>9. CASE ReconcileMarks(c)
  <2>1. FinishedIn(sess[call[c].job])
    BY <1>9 DEF ReconcileMarks, EvidenceInv
  <2>2. \A j \in Jobs : status'[j] = "done" => Earned(j)
    BY <1>9, <2>1 DEF ReconcileMarks, EvidenceInv, Earned
  <2> QED
    BY <1>7, <1>9, <2>2 DEF ReconcileMarks, AfterReconcile
<1>10. CASE WaitReturns(c) \/ WaitExpires(c)
  BY <1>7, <1>10 DEF WaitReturns, WaitExpires, EvidenceInv, jobVars
<1>11. CASE \E ok, killed \in BOOLEAN : CancelAborts(c, ok, killed)
  BY <1>7, <1>11 DEF CancelAborts, EvidenceInv, jobVars
<1> QED
  BY <1>5, <1>6, <1>8, <1>9, <1>10, <1>11

LEMMA JobsEvidence ==
  ASSUME TypeInv, EvidenceInv, NEW j \in Jobs,
         \/ AwaitFinished(j) \/ AwaitStops(j) \/ Finish(j)
         \/ (\E killed \in BOOLEAN : TimeoutAborts(j, killed))
         \/ (\E ok \in BOOLEAN : RecoverReads(j, ok))
         \/ Answers(j)
  PROVE  EvidenceInv'
<1> USE TypesOfEvidence DEF srvVars
<1>1. ASSUME pc'[j] = "await" => j \in answered',
             out'[j] = "done" => Earned(j),
             \A i \in Jobs : i # j => pc'[i] = pc[i] /\ out'[i] = out[i] /\ status'[i] = status[i],
             \A d \in Calls : pc'[d] = pc[d], UNCHANGED <<call, sess, last, finished>>,
             answered \subseteq answered',
             status'[j] = "done" => Earned(j),
             \A s \in Sessions : turn'[s] # NoJob => sess[turn'[s]] = s
      PROVE  EvidenceInv'
  BY <1>1, KeepsEvidence DEF EvidenceInv
<1>2. ASSUME NEW where, NEW outcome, Decides(j, where, outcome),
             where = "await" => j \in answered',
             outcome = "done" => Earned(j),
             UNCHANGED <<call, sess, last, finished>>, answered \subseteq answered',
             \A i \in Jobs : i # j => status'[i] = status[i],
             status'[j] = "done" => Earned(j),
             \A s \in Sessions : turn'[s] # NoJob => sess[turn'[s]] = s
      PROVE  EvidenceInv'
  BY <1>1, <1>2 DEF Decides
<1>3. ASSUME Ends(j), UNCHANGED <<status, call, sess, turn, last, finished, answered>> PROVE EvidenceInv'
  BY <1>1, <1>3 DEF Ends, EvidenceInv
<1>4. ASSUME TimesOut(j), UNCHANGED <<status, call, sess, turn, last, finished, answered>> PROVE EvidenceInv'
  BY <1>2, <1>3, <1>4 DEF TimesOut, EvidenceInv
<1>5. ASSUME UNCHANGED <<status, call, sess, turn, last, finished, answered>>,
             NEW where \in {"snapshot", "finish", "rread"}, NEW outcome \in {"none", "error", "timed_out"},
             Decides(j, where, outcome)
      PROVE  EvidenceInv'
  BY <1>2, <1>5 DEF EvidenceInv
<1>6. CASE AwaitFinished(j)
  <2>1. Earned(j)
    BY <1>6 DEF AwaitFinished, EvidenceInv, Earned
  <2> QED
    BY <1>2, <1>6, <2>1 DEF AwaitFinished, notOwn, EvidenceInv
<1>7. CASE AwaitStops(j)
  BY <1>3, <1>4, <1>5, <1>7 DEF AwaitStops, notOwn
<1>8. CASE Finish(j)
  <2>1. CASE Settleable(j)
    <3>1. Decides(j, "publish", "none") /\ status' = [status EXCEPT ![j] = out[j]]
          /\ UNCHANGED <<call, sess, turn, last, finished, answered>>
      BY <1>8, <2>1 DEF Finish
    <3> QED
      BY <1>2, <3>1 DEF EvidenceInv
  <2>2. CASE ~Settleable(j)
    BY <1>3, <1>8, <2>2 DEF Finish
  <2> QED
    BY <2>1, <2>2
<1>9. ASSUME NEW killed \in BOOLEAN, TimeoutAborts(j, killed) PROVE EvidenceInv'
  <2>1. Decides(j, "finish", "timed_out") /\ UNCHANGED <<call, status, sess, last, finished, answered>>
    BY <1>9 DEF TimeoutAborts, notOwn
  <2>2. \A s \in Sessions : turn'[s] # NoJob => sess[turn'[s]] = s
    BY <1>9 DEF TimeoutAborts, EvidenceInv
  <2> QED
    BY <1>2, <2>1, <2>2 DEF EvidenceInv
<1>10. ASSUME NEW ok \in BOOLEAN, RecoverReads(j, ok) PROVE EvidenceInv'
  <2>1. UNCHANGED <<status, call, sess, turn, last, finished, answered>>
    BY <1>10 DEF RecoverReads, notOwn
  <2>2. CASE ok /\ SessionFinished(sess[j])
    <3>1. Earned(j)
      BY <2>2 DEF SessionFinished, EvidenceInv, Earned
    <3> QED
      BY <1>2, <1>10, <2>1, <2>2, <3>1 DEF RecoverReads, Recovered, EvidenceInv
  <2>3. CASE ~(ok /\ SessionFinished(sess[j]))
    BY <1>5, <1>10, <2>1, <2>3 DEF RecoverReads, Recovered
  <2> QED
    BY <2>2, <2>3
<1>11. CASE Deliver(j)
  <2>1. turn' = [turn EXCEPT ![sess[j]] = j] /\ pc' = [pc EXCEPT ![j] = "inflight"]
        /\ UNCHANGED <<status, out, call, sess, last, finished, answered>>
    BY <1>11 DEF Deliver, Goto, jobVars
  <2>2. \A s \in Sessions : turn'[s] # NoJob => sess[turn'[s]] = s
    BY <2>1 DEF EvidenceInv
  <2> QED
    BY <1>1, <2>1, <2>2 DEF EvidenceInv
<1>12. ASSUME NEW ok \in BOOLEAN, PromptReturns(j, ok) PROVE EvidenceInv'
  <2>1. UNCHANGED <<status, call, sess, turn, last, finished>>
    BY <1>12 DEF PromptReturns, notOwn
  <2>2. CASE ~ok
    <3>1. answered' = answered
      BY <1>12, <2>2 DEF PromptReturns
    <3> QED
      BY <1>3, <1>4, <1>5, <1>12, <2>1, <2>2, <3>1 DEF PromptReturns
  <2>3. CASE ok
    <3>1. answered' = answered \cup {j}
      BY <1>12, <2>3 DEF PromptReturns
    <3>2. Decides(j, "await", "none") \/ Ends(j)
      BY <1>12, <2>3 DEF PromptReturns, Late
    <3>3. CASE Decides(j, "await", "none")
      BY <1>2, <2>1, <3>1, <3>3 DEF EvidenceInv
    <3>4. CASE Ends(j)
      BY <1>1, <2>1, <3>1, <3>4 DEF Ends, EvidenceInv
    <3> QED
      BY <3>2, <3>3, <3>4
  <2> QED
    BY <2>2, <2>3
<1>13. CASE RecoverWaited(j)
  BY <1>5, <1>13 DEF RecoverWaited, notOwn
<1>14. CASE RecoverWaitFails(j)
  BY <1>4, <1>5, <1>14 DEF RecoverWaitFails, notOwn
<1> QED
  BY <1>6, <1>7, <1>8, <1>9, <1>10, <1>11, <1>12, <1>13, <1>14 DEF Answers

LEMMA TurnEvidence ==
  ASSUME TypeInv, EvidenceInv, NEW s \in Sessions, TurnWorks(s) \/ TurnFinishes(s) \/ TurnBreaks(s)
  PROVE  EvidenceInv'
<1> USE TypesOfEvidence
<1>1. /\ UNCHANGED <<status, sess, pc, call, out>>
      /\ finished \subseteq finished' /\ answered' = answered
      /\ turn[s] # NoJob /\ sess[turn[s]] = s
      /\ turn' = turn \/ turn' = [turn EXCEPT ![s] = NoJob]
  BY DEF TurnWorks, TurnFinishes, TurnBreaks, EvidenceInv, jobVars, gorVars
<1>2. \A r \in Sessions : FinishedIn(r) => FinishedIn(r)'
  BY <1>1 DEF FinishedIn
<1>3. ASSUME NEW r \in Sessions PROVE last'[r].fin => FinishedIn(r)'
  <2>1. CASE TurnFinishes(s)
    <3>1. turn[s] \in finished'
      BY <2>1 DEF TurnFinishes
    <3>2. FinishedIn(s)'
      BY <1>1, <3>1 DEF FinishedIn
    <3> QED
      BY <1>1, <1>2, <2>1, <3>2 DEF TurnFinishes, EvidenceInv
  <2>2. CASE TurnWorks(s)
    BY <1>1, <1>2, <2>2 DEF TurnWorks, EvidenceInv
  <2>3. CASE TurnBreaks(s)
    BY <1>1, <1>2, <2>3 DEF TurnBreaks, EvidenceInv
  <2> QED
    BY <2>1, <2>2, <2>3
<1>4. \A r \in Sessions : turn'[r] # NoJob => sess[turn'[r]] = r
  BY <1>1 DEF EvidenceInv
<1>5. \A c \in Calls : /\ pc[c] = "lookup" => call[c].on \in Sessions
                       /\ pc[c] = "reconcile" => sess[call[c].job] \in Sessions
  BY DEF TypeInv, CallOK, TypeOK, GoroutineTypeOK, HoldingPC
<1>6. \A j \in Jobs : Earned(j) => Earned(j)'
  BY <1>1, <1>2 DEF Earned
<1> QED
  BY <1>1, <1>2, <1>3, <1>4, <1>5, <1>6 DEF EvidenceInv

LEMMA RestartEvidence ==
  ASSUME TypeInv, MapInv, DiskInv, EvidenceInv, NEW keep \in BOOLEAN, Restart(keep)
  PROVE  EvidenceInv'
<1> USE TypesOfEvidence
<1>1. UNCHANGED <<sess, last, finished, answered>>
  BY DEF Restart
<1>2. \A s \in Sessions : turn'[s] # NoJob => sess[turn'[s]] = s
  BY DEF Restart, EvidenceInv
<1>3. /\ \A j \in Jobs : pc'[j] # "await" /\ out'[j] # "done"
      /\ \A c \in Calls : pc'[c] = "idle"
  BY DEF Restart
<1>4. ASSUME NEW j \in Jobs, status'[j] = "done" PROVE Earned(j)
  <2>1. diskJob[sess[j]] = j /\ diskStatus[sess[j]] = "done"
    BY <1>4 DEF Restart, StatusAfterLoad, OnDisk, Loaded
  <2>2. status[j] = "done"
    BY <2>1 DEF DiskInv, Behind, Terminal
  <2> QED
    BY <2>2 DEF EvidenceInv
<1> QED
  BY <1>1, <1>2, <1>3, <1>4, KeepsEvidence

LEMMA NextEvidence == TypeInv /\ MapInv /\ DiskInv /\ EvidenceInv /\ [Next]_vars => EvidenceInv'
<1> SUFFICES ASSUME TypeInv, MapInv, DiskInv, EvidenceInv, [Next]_vars PROVE EvidenceInv'
  OBVIOUS
<1>1. ASSUME UNCHANGED <<status, sess, pc, call, out, turn, last, finished, answered>> PROVE EvidenceInv'
  BY <1>1 DEF EvidenceInv, FinishedIn, Earned
<1>2. ASSUME NEW j \in Jobs, Expire(j) \/ RecoveryExpires(j) PROVE EvidenceInv'
  BY <1>1, <1>2 DEF Expire, RecoveryExpires, gorVars, srvVars
<1>3. CASE Shutdown
  BY <1>1, <1>3 DEF Shutdown, gorVars, srvVars
<1>4. CASE UNCHANGED vars
  BY <1>1, <1>4 DEF vars, gorVars, jobVars, srvVars
<1> QED
  BY <1>2, <1>3, <1>4, SaveEvidence, CallsEvidence, JobsEvidence, TurnEvidence, RestartEvidence
  DEF Next, CallRuns, JobRuns, Threads

\* No job is reported done on nothing: OpenCode answered its prompt or finished
\* a turn of its session, whichever of run, Reconcile and recover says so, and
\* across restarts.
THEOREM DoneIsEarned == Spec => []DoneHasEvidence
<1>1. Spec => []EvidenceInv
  BY InitType, NextType, MapsHold, DiskHolds, InitEvidence, NextEvidence, PTL DEF Spec
<1>2. EvidenceInv => DoneHasEvidence
  BY DEF EvidenceInv, Earned, FinishedIn, DoneHasEvidence
<1> QED
  BY <1>1, <1>2, PTL

-----------------------------------------------------------------------------
(* JobManager implements JobLifecycle: a step that changes what JobLifecycle
   speaks of is one of Accept, Settle, Amend and Restart. *)

AbstractStep == [Lifecycle!Next]_(Lifecycle!vars)

LEMMA Stutters ==
  ASSUME UNCHANGED <<status, sess, current, restarts>>
  PROVE  AbstractStep
  BY DEF AbstractStep, Lifecycle!vars

\* An active job is in its session's slot.
LEMMA Settles ==
  ASSUME TypeInv, MapInv, NEW j \in Jobs, Known(j), status[j] \notin Terminal, NEW st \in Terminal,
         status' = [status EXCEPT ![j] = st], UNCHANGED <<sess, current, restarts>>
  PROVE  AbstractStep
<1>1. status[j] \in Active /\ current[sess[j]] = j
  BY DEF Known, MapInv, ActiveIsTracked
<1>2. Lifecycle!Settle(j, st)
  BY <1>1 DEF Lifecycle!Settle, Lifecycle!Active, Active
<1> QED
  BY <1>2 DEF AbstractStep, Lifecycle!Next, Lifecycle!Terminal, Terminal

LEMMA SubmitAccepts ==
  ASSUME TypeInv, MapInv, NEW c \in Calls, NEW s \in Sessions, NEW k, NEW d, NEW j \in Jobs,
         Submit(c, s, k, d, j)
  PROVE  AbstractStep
<1>1. \A i \in Jobs : sess[i] = sess[j] => status[i] \notin Active
  <2> SUFFICES ASSUME NEW i \in Jobs, sess[i] = sess[j], status[i] \in Active PROVE FALSE
    OBVIOUS
  <2>1. sess[j] = s /\ SessionFree(s)
    BY DEF Submit
  <2>2. current[s] = i
    BY <2>1 DEF MapInv, ActiveIsTracked
  <2> QED
    BY <2>1, <2>2, DistinctAssumption DEF SessionFree
<1>2. Lifecycle!Accept(j)
  BY <1>1 DEF Submit, procVars, Lifecycle!Accept, Lifecycle!Active, Active
<1> QED
  BY <1>2 DEF AbstractStep, Lifecycle!Next

LEMMA ReconcileAmends ==
  ASSUME TypeInv, MapInv, NEW c \in Calls, ReconcileMarks(c)
  PROVE  AbstractStep
<1> DEFINE j == call[c].job
<1>1. /\ j \in Jobs /\ Known(j) /\ status \in [Jobs -> Status]
      /\ UNCHANGED <<sess, current, restarts>>
      /\ status' = IF Reconcilable(j) THEN [status EXCEPT ![j] = "done"] ELSE status
  BY DistinctAssumption
  DEF ReconcileMarks, TypeInv, TypeOK, JobTypeOK, GoroutineTypeOK, HoldingPC, MapInv, mapVars, procVars
<1> HIDE DEF j
<1>2. CASE status[j] \in Active
  <2>1. Reconcilable(j) /\ status[j] \notin Terminal
    BY <1>2 DEF Reconcilable, Active, Terminal
  <2> QED
    BY <1>1, <2>1, Settles DEF Terminal
<1>3. CASE status[j] = "error"
  <2>1. Lifecycle!Amend(j)
    BY <1>1, <1>3 DEF Reconcilable, Lifecycle!Amend
  <2> QED
    BY <1>1, <2>1 DEF AbstractStep, Lifecycle!Next
<1>4. CASE status[j] \in {"done", "canceled", "timed_out"}
  <2>1. status' = status
    BY <1>1, <1>4 DEF Reconcilable
  <2> QED
    BY <1>1, <2>1, Stutters
<1> QED
  BY <1>1, <1>2, <1>3, <1>4 DEF Known, Terminal

\* What a record brings back is what its job was, could have become, or, for a
\* running job, unknown; a job without a record is gone.
LEMMA RestartRestarts ==
  ASSUME TypeInv, MapInv, DiskInv, NEW keep \in BOOLEAN, Restart(keep)
  PROVE  AbstractStep
<1>1. /\ status' = [j \in Jobs |-> StatusAfterLoad(j)]
      /\ current' = diskJob /\ sess' = sess /\ restarts' = restarts + 1
  BY DEF Restart
<1>2. ASSUME NEW j \in Jobs
      PROVE  \/ status[j] = "none" /\ status'[j] = "none"
             \/ /\ status[j] # "none" /\ current'[sess[j]] = j
                /\ status'[j] \in Lifecycle!ComesBackAs(status[j])
             \/ status[j] # "none" /\ current'[sess[j]] # j /\ status'[j] = "gone"
  <2>1. CASE status[j] # "none" /\ OnDisk(j)
    <3>1. /\ sess[j] \in Sessions /\ diskJob[sess[j]] = j /\ j # NoJob
          /\ Known(j) /\ diskStatus[sess[j]] \in Active \cup Terminal
      BY <2>1, DistinctAssumption DEF OnDisk, MapInv, TypeInv, TypeOK, JobTypeOK
    <3>2. status'[j] = Loaded(diskStatus[sess[j]])
      BY <1>1, <2>1 DEF StatusAfterLoad
    <3>3. CASE diskStatus[sess[j]] \in Active
      BY <1>1, <2>1, <3>1, <3>2, <3>3
      DEF Loaded, Known, Active, Terminal, Lifecycle!ComesBackAs, Lifecycle!Active, Lifecycle!Terminal
    <3>4. CASE diskStatus[sess[j]] \in Terminal
      <4>1. \/ status[j] = diskStatus[sess[j]]
            \/ diskStatus[sess[j]] = "error" /\ status[j] = "done"
        BY <3>1, <3>4 DEF DiskInv, Behind
      <4>2. status'[j] = diskStatus[sess[j]]
        BY <3>2, <3>4 DEF Loaded, Terminal
      <4> QED
        BY <1>1, <2>1, <3>1, <3>4, <4>1, <4>2
        DEF Terminal, Lifecycle!ComesBackAs, Lifecycle!Active, Lifecycle!Terminal
    <3> QED
      BY <3>1, <3>3, <3>4
  <2>2. CASE ~(status[j] # "none" /\ OnDisk(j))
    BY <1>1, <2>2 DEF StatusAfterLoad, OnDisk
  <2> QED
    BY <2>1, <2>2
<1>3. \A s \in Sessions : current'[s] # NoJob => sess[current'[s]] = s
  BY <1>1 DEF MapInv
<1>4. Lifecycle!Restart
  BY <1>1, <1>2, <1>3 DEF Lifecycle!Restart
<1> QED
  BY <1>4 DEF AbstractStep, Lifecycle!Next

LEMMA NextImplements == TypeInv /\ MapInv /\ DiskInv /\ [Next]_vars => AbstractStep
<1> SUFFICES ASSUME TypeInv, MapInv, DiskInv, [Next]_vars PROVE AbstractStep
  OBVIOUS
<1> USE DEF mapVars, procVars
<1>1. ASSUME NEW t \in Threads, Save(t) PROVE AbstractStep
  BY <1>1, Stutters DEF Save, Publish, Snapshot, Rename, SaveFails, AfterSave, jobVars
<1>2. ASSUME NEW c \in Calls, CancelMarks(c) PROVE AbstractStep
  <2> DEFINE j == call[c].job
  <2>1. /\ j \in Jobs /\ Known(j) /\ UNCHANGED <<sess, current, restarts>>
    BY <1>2, DistinctAssumption DEF CancelMarks, TypeInv, TypeOK, GoroutineTypeOK, HoldingPC, MapInv
  <2>2. CASE Settleable(j)
    BY <1>2, <2>1, <2>2, Settles DEF CancelMarks, Settleable, Terminal
  <2>3. CASE ~Settleable(j)
    BY <1>2, <2>1, <2>3, Stutters DEF CancelMarks
  <2> QED
    BY <2>2, <2>3
<1>3. ASSUME NEW c \in Calls, CallRuns(c) \/ WaitExpires(c)
                \/ \E ok, killed \in BOOLEAN : CancelAborts(c, ok, killed)
      PROVE  AbstractStep
  <2>1. CASE ReconcileLooksUp(c) \/ WaitReturns(c) \/ WaitExpires(c)
             \/ \E ok, killed \in BOOLEAN : CancelAborts(c, ok, killed)
    BY <2>1, Stutters DEF ReconcileLooksUp, WaitReturns, WaitExpires, CancelAborts, jobVars
  <2> QED
    BY <1>1, <1>2, <1>3, <2>1, ReconcileAmends DEF CallRuns, Threads
<1>4. ASSUME NEW c \in Calls, CallBegins(c) PROVE AbstractStep
  <2>1. ASSUME NEW s \in Sessions, CancelBegin(c, s) \/ CheckReads(c, s) \/ WaitBegin(c, s)
        PROVE  AbstractStep
    BY <2>1, Stutters DEF CancelBegin, CheckReads, WaitBegin, jobVars
  <2> QED
    BY <1>4, <2>1, SubmitAccepts DEF CallBegins
<1>5. ASSUME NEW j \in Jobs, Finish(j) PROVE AbstractStep
  <2>1. Known(j) /\ out[j] \in Terminal /\ UNCHANGED <<sess, current, restarts>>
    BY <1>5 DEF Finish, MapInv
  <2>2. CASE Settleable(j)
    BY <1>5, <2>1, <2>2, Settles DEF Finish, Settleable
  <2>3. CASE ~Settleable(j)
    BY <1>5, <2>1, <2>3, Stutters DEF Finish
  <2> QED
    BY <2>2, <2>3
<1>6. ASSUME NEW j \in Jobs, JobRuns(j) \/ Answers(j) \/ Expire(j) \/ RecoveryExpires(j)
      PROVE  AbstractStep
  <2>1. CASE \/ AwaitFinished(j) \/ AwaitStops(j)
             \/ (\E killed \in BOOLEAN : TimeoutAborts(j, killed))
             \/ (\E ok \in BOOLEAN : RecoverReads(j, ok) \/ PromptReturns(j, ok))
             \/ RecoverWaited(j) \/ RecoverWaitFails(j)
    BY <2>1, Stutters DEF AwaitFinished, AwaitStops, TimeoutAborts, RecoverReads, PromptReturns,
       RecoverWaited, RecoverWaitFails, notOwn
  <2>2. CASE Deliver(j) \/ Expire(j) \/ RecoveryExpires(j)
    BY <2>2, Stutters DEF Deliver, Expire, RecoveryExpires, jobVars
  <2> QED
    BY <1>1, <1>5, <1>6, <2>1, <2>2 DEF JobRuns, Answers, Threads
<1>7. ASSUME NEW s \in Sessions, TurnWorks(s) \/ TurnFinishes(s) \/ TurnBreaks(s) PROVE AbstractStep
  BY <1>7, Stutters DEF TurnWorks, TurnFinishes, TurnBreaks, jobVars
<1>8. CASE Shutdown \/ UNCHANGED vars
  BY <1>8, Stutters DEF Shutdown, vars, jobVars
<1> QED
  BY <1>3, <1>4, <1>6, <1>7, <1>8, RestartRestarts DEF Next

\* The goroutines, locks and files of the job manager together keep what
\* JobLifecycle promises: every step is a step of it, or one it does not see.
THEOREM Implements == Spec => ImplementsLifecycle
<1>1. Init => Lifecycle!Init
  BY DEF Init, Lifecycle!Init
<1>2. Spec => [][Lifecycle!Next]_(Lifecycle!vars)
  BY InitType, NextType, MapsHold, DiskHolds, NextImplements, PTL DEF Spec, AbstractStep
<1> QED
  BY <1>1, <1>2, PTL DEF Spec, ImplementsLifecycle, Lifecycle!Spec
=============================================================================
