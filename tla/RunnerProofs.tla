---------------------------- MODULE RunnerProofs ----------------------------
(* Theorems about Runner, for any sets of runners and directories, any lines *)
(* a child writes and any number of them.                                    *)
EXTENDS Runner, SequenceTheorems, TLAPS

-----------------------------------------------------------------------------
(* Type correctness *)

LEMMA EmitType ==
  ASSUME TypeOK, NEW r \in Runners, NEW from,
         NEW status \in {"completed", "failed", "timed_out", "cancelled"}, Emit(r, from, status)
  PROVE  /\ pc' \in [Runners -> Steps]
         /\ result' \in [Runners -> Seq({"completed", "failed", "timed_out", "cancelled"})]
  BY DEF Emit, Goto, TypeOK, Steps

LEMMA KillType ==
  ASSUME TypeOK, NEW r \in Runners, NEW s \in {"term", "kill"}, Kill(r, s)
  PROVE  told' \in [Runners -> SUBSET {"term", "kill"}]
  BY DEF Kill, TypeOK

LEMMA InitType == Init => TypeOK
  BY RunnerAssumption DEF Init, TypeOK, Steps, Notified, Ended

LEMMA NextType == TypeOK /\ [Next]_vars => TypeOK'
<1> SUFFICES ASSUME TypeOK, [Next]_vars PROVE TypeOK'
  OBVIOUS
<1> USE DEF childVars, causeVars, Steps, Notified, Ended
<1>1. ASSUME NEW r \in Runners, Launch(r) \/ Lock(r) \/ Release(r) PROVE TypeOK'
  <2>1. CASE Launch(r)
    BY <2>1 DEF Launch, Goto, TypeOK, Steps
  <2>2. CASE Lock(r)
    BY <2>2 DEF Lock, Goto, TypeOK, Steps
  <2>3. CASE Release(r)
    BY <2>3 DEF Release, Goto, TypeOK, Steps
  <2> QED
    BY <1>1, <2>1, <2>2, <2>3
<1>2. ASSUME NEW r \in Runners, LockRefused(r) \/ Prepare(r) PROVE TypeOK'
  <2>1. CASE LockRefused(r)
    BY <2>1, EmitType DEF LockRefused, Goto, TypeOK, Steps
  <2>2. CASE Prepare(r)
    BY <2>2, EmitType DEF Prepare, Goto, TypeOK, Steps
  <2> QED
    BY <1>2, <2>1, <2>2
<1>3. ASSUME NEW r \in Runners, StartChild(r) PROVE TypeOK'
  <2>1. CASE /\ Goto(r, "start", "started")
             /\ child' = [child EXCEPT ![r] = "running"]
             /\ result' = result
    BY <1>3, <2>1 DEF StartChild, Goto, TypeOK, Steps
  <2>2. CASE Emit(r, "start", "failed") /\ child' = child
    BY <1>3, <2>2, EmitType DEF StartChild, TypeOK
  <2> QED
    BY <1>3, <2>1, <2>2 DEF StartChild
<1>4. ASSUME NEW r \in Runners, Notify(r) \/ ChildDone(r) \/ ChildStopped(r) PROVE TypeOK'
  <2>1. CASE Notify(r)
    BY <2>1 DEF Notify, Goto, TypeOK, Steps, Notified
  <2>2. CASE ChildDone(r)
    BY <2>2 DEF ChildDone, Goto, TypeOK, Steps, Notified
  <2>3. CASE ChildStopped(r)
    BY <2>3 DEF ChildStopped, Goto, TypeOK, Steps, Notified
  <2> QED
    BY <1>4, <2>1, <2>2, <2>3
<1>5. ASSUME NEW r \in Runners, Interrupted(r) PROVE TypeOK'
  <2>1. Cause(r) \subseteq {"timed_out", "cancelled"}
    BY DEF Cause
  <2> QED
    BY <1>5, <2>1, KillType DEF Interrupted, Goto, TypeOK, Steps, Notified
<1>6. ASSUME NEW r \in Runners, GraceOver(r) PROVE TypeOK'
  BY <1>6, KillType DEF GraceOver, Goto, TypeOK, Steps, Notified
<1>7. ASSUME NEW r \in Runners, Report(r) PROVE TypeOK'
  <2>1. Status(verdict[r], events[r], exit[r]) \in {"completed", "failed", "timed_out", "cancelled"}
    BY DEF Status, TypeOK
  <2> QED
    BY <1>7, <2>1, EmitType DEF Report, TypeOK
<1>8. ASSUME NEW r \in Runners, Writes(r) PROVE TypeOK'
  <2>1. events' \in [Runners -> Seq(AllLines)]
    BY <1>8, RunnerAssumption DEF Writes, TypeOK
  <2> QED
    BY <1>8, <2>1 DEF Writes, TypeOK
<1>9. ASSUME NEW r \in Runners, ChildExits(r) \/ ChildTermed(r) \/ ChildKilled(r) PROVE TypeOK'
  <2>1. CASE ChildExits(r)
    BY <2>1 DEF ChildExits, Ends, TypeOK
  <2>2. CASE ChildTermed(r)
    BY <2>2 DEF ChildTermed, Ends, TypeOK
  <2>3. CASE ChildKilled(r)
    BY <2>3 DEF ChildKilled, Ends, TypeOK
  <2> QED
    BY <1>9, <2>1, <2>2, <2>3
<1>10. ASSUME NEW r \in Runners, Reap(r) \/ TimerFires(r) \/ ContextEnds(r) \/ Signaled(r) PROVE TypeOK'
  <2>1. CASE Reap(r)
    BY <2>1 DEF Reap, TypeOK
  <2>2. CASE TimerFires(r)
    BY <2>2 DEF TimerFires, TypeOK
  <2>3. CASE ContextEnds(r)
    BY <2>3 DEF ContextEnds, TypeOK
  <2>4. CASE Signaled(r)
    BY <2>4 DEF Signaled, TypeOK
  <2> QED
    BY <1>10, <2>1, <2>2, <2>3, <2>4
<1>11. ASSUME NEW r \in Runners, Dies(r) PROVE TypeOK'
  BY <1>11, KillType DEF Dies, TypeOK, Steps, Ended
<1>12. CASE UNCHANGED vars
  BY <1>12 DEF vars, TypeOK
<1> QED
  BY <1>1, <1>2, <1>3, <1>4, <1>5, <1>6, <1>7, <1>8, <1>9, <1>10, <1>11, <1>12 DEF Next, Run

\* Every variable keeps its type, for every set of runners and directories.
THEOREM TypeCorrect == Spec => []TypeOK
  BY InitType, NextType, PTL DEF Spec

-----------------------------------------------------------------------------
(* The lock, the child and the result *)

Working == {"prepare", "start", "started", "select", "grace", "drain", "read"}

\* From AcquireDirLock to its last defer a runner holds its directory.
LockHeld == \A r \in Runners : pc[r] \in Working => lock[dir[r]] = r

\* Where a runner's child may be running, and what its end leaves behind.
ChildPlace ==
    \A r \in Runners :
        /\ pc[r] \in {"off", "lock", "prepare", "start"} => child[r] = "none"
        /\ child[r] = "running" => pc[r] \in {"started", "select", "grace", "drain", "dead"}
        /\ waited[r] # "empty" => child[r] = "exited"
        /\ pc[r] = "read" => waited[r] = "received"

ResultPlace ==
    \A r \in Runners :
        result[r] # <<>> => pc[r] \in {"release", "over", "dead"} /\ child[r] # "running"

RunInv == LockHeld /\ ChildPlace /\ ResultPlace

LEMMA InitRuns == Init => RunInv
  BY DEF Init, RunInv, LockHeld, ChildPlace, ResultPlace, Working

\* Emitting the result, where no child is running.
LEMMA EmitRuns ==
  ASSUME TypeOK, RunInv, NEW r \in Runners, NEW from, NEW status, Emit(r, from, status),
         child[r] # "running", UNCHANGED <<dir, lock, child, waited>>
  PROVE  RunInv'
<1>1. /\ pc' = [pc EXCEPT ![r] = "release"]
      /\ \A q \in Runners \ {r} : result'[q] = result[q]
  BY DEF Emit, Goto, TypeOK
<1>2. LockHeld' /\ ChildPlace'
  BY <1>1 DEF TypeOK, RunInv, LockHeld, ChildPlace, Working
<1>3. ResultPlace'
  <2> SUFFICES ASSUME NEW q \in Runners, result'[q] # <<>>
               PROVE  pc'[q] \in {"release", "over", "dead"} /\ child'[q] # "running"
    BY DEF ResultPlace
  <2>1. CASE q = r
    BY <2>1, <1>1 DEF TypeOK
  <2>2. CASE q # r
    BY <2>2, <1>1 DEF TypeOK, RunInv, ResultPlace
  <2> QED
    BY <2>1, <2>2
<1> QED
  BY <1>2, <1>3 DEF RunInv

LEMMA NextRuns == TypeOK /\ RunInv /\ [Next]_vars => RunInv'
<1> SUFFICES ASSUME TypeOK, RunInv, [Next]_vars PROVE RunInv'
  OBVIOUS
<1> USE RunnerAssumption
    DEF childVars, causeVars, RunInv, LockHeld, ChildPlace, ResultPlace, Working, TypeOK, Goto
<1>1. ASSUME NEW r \in Runners, Launch(r) \/ Lock(r) PROVE RunInv'
  <2>1. CASE Launch(r)
    BY <2>1 DEF Launch
  <2>2. CASE Lock(r)
    BY <2>2 DEF Lock
  <2> QED
    BY <1>1, <2>1, <2>2
<1>2. ASSUME NEW r \in Runners, LockRefused(r) \/ Prepare(r) PROVE RunInv'
  <2>1. CASE LockRefused(r)
    BY <2>1, EmitRuns DEF LockRefused, Emit
  <2>2. CASE Prepare(r)
    <3>1. CASE Emit(r, "prepare", "failed")
      BY <2>2, <3>1, EmitRuns DEF Prepare, Emit
    <3>2. CASE Goto(r, "prepare", "start") /\ result' = result
      BY <2>2, <3>2 DEF Prepare
    <3> QED
      BY <2>2, <3>1, <3>2 DEF Prepare
  <2> QED
    BY <1>2, <2>1, <2>2
<1>3. ASSUME NEW r \in Runners, StartChild(r) PROVE RunInv'
  <2>1. CASE Emit(r, "start", "failed") /\ child' = child
    BY <1>3, <2>1, EmitRuns DEF StartChild, Emit
  <2>2. CASE child' = [child EXCEPT ![r] = "running"] /\ result' = result /\ Goto(r, "start", "started")
    BY <1>3, <2>2 DEF StartChild
  <2> QED
    BY <1>3, <2>1, <2>2 DEF StartChild
<1>4. ASSUME NEW r \in Runners, Notify(r) \/ ChildDone(r) \/ ChildStopped(r) PROVE RunInv'
  <2>1. CASE Notify(r)
    BY <2>1 DEF Notify
  <2>2. CASE ChildDone(r)
    BY <2>2 DEF ChildDone
  <2>3. CASE ChildStopped(r)
    <3>1. /\ waited[r] = "value" /\ waited' = [waited EXCEPT ![r] = "received"]
          /\ pc[r] \in {"grace", "drain"} /\ pc' = [pc EXCEPT ![r] = "read"]
          /\ UNCHANGED <<dir, lock, child, result>>
      BY <2>3 DEF ChildStopped
    <3>2. child[r] = "exited" /\ lock[dir[r]] = r /\ result[r] = <<>>
      BY <3>1
    <3> QED
      BY <3>1, <3>2
  <2> QED
    BY <1>4, <2>1, <2>2, <2>3
<1>5. ASSUME NEW r \in Runners, Interrupted(r) \/ GraceOver(r) PROVE RunInv'
  <2>1. CASE Interrupted(r)
    BY <2>1 DEF Interrupted
  <2>2. CASE GraceOver(r)
    BY <2>2 DEF GraceOver
  <2> QED
    BY <1>5, <2>1, <2>2
<1>6. ASSUME NEW r \in Runners, Report(r) PROVE RunInv'
  <2>1. pc[r] = "read" /\ UNCHANGED <<dir, lock, child, waited>>
    BY <1>6 DEF Report, Emit
  <2>2. \E status : Emit(r, "read", status)
    BY <1>6 DEF Report
  <2> QED
    BY <2>1, <2>2, EmitRuns
<1>7. ASSUME NEW r \in Runners, Release(r) PROVE RunInv'
  BY <1>7 DEF Release
<1>8. ASSUME NEW r \in Runners, Writes(r) \/ TimerFires(r) \/ ContextEnds(r) \/ Signaled(r) PROVE RunInv'
  <2>1. CASE Writes(r)
    BY <2>1 DEF Writes
  <2>2. CASE TimerFires(r)
    BY <2>2 DEF TimerFires
  <2>3. CASE ContextEnds(r)
    BY <2>3 DEF ContextEnds
  <2>4. CASE Signaled(r)
    BY <2>4 DEF Signaled
  <2> QED
    BY <1>8, <2>1, <2>2, <2>3, <2>4
<1>9. ASSUME NEW r \in Runners, ChildExits(r) \/ ChildTermed(r) \/ ChildKilled(r) PROVE RunInv'
  <2>1. CASE ChildExits(r)
    BY <2>1 DEF ChildExits, Ends
  <2>2. CASE ChildTermed(r)
    BY <2>2 DEF ChildTermed, Ends
  <2>3. CASE ChildKilled(r)
    BY <2>3 DEF ChildKilled, Ends
  <2> QED
    BY <1>9, <2>1, <2>2, <2>3
<1>10. ASSUME NEW r \in Runners, Reap(r) PROVE RunInv'
  BY <1>10 DEF Reap, Ended
<1>11. ASSUME NEW r \in Runners, Dies(r) PROVE RunInv'
  BY <1>11 DEF Dies, Ended
<1>12. CASE UNCHANGED vars
  BY <1>12 DEF vars
<1> QED
  BY <1>1, <1>2, <1>3, <1>4, <1>5, <1>6, <1>7, <1>8, <1>9, <1>10, <1>11, <1>12 DEF Next, Run

LEMMA RunsHold == Spec => []RunInv
  BY InitType, NextType, InitRuns, NextRuns, PTL DEF Spec

\* Two children work in one directory only if the runner of one was killed:
\* a runner that has a child holds the lock of its directory.
THEOREM LockExcludes == Spec => []OneChildPerDirectory
<1>1. RunInv => OneChildPerDirectory
  BY DEF RunInv, LockHeld, ChildPlace, Working, OneChildPerDirectory
<1> QED
  BY <1>1, RunsHold, PTL

\* A runner prints its result only after its child has ended, on every path of
\* Run, the failing ones included.
THEOREM NoChildLeftBehind == Spec => []ResultMeansChildEnded
<1>1. RunInv => ResultMeansChildEnded
  BY DEF RunInv, ResultPlace, ResultMeansChildEnded
<1> QED
  BY <1>1, RunsHold, PTL

-----------------------------------------------------------------------------
(* The status *)

\* What a verdict rests on; the runner's own signals come with one.
VerdictInv ==
    \A r \in Runners :
        /\ pc[r] \in {"grace", "drain"} => verdict[r] # "none"
        /\ verdict[r] # "none" => pc[r] \in {"grace", "drain", "read", "release", "over", "dead"}
        /\ verdict[r] = "timed_out" => timer[r] = "fired" \/ ctx[r] = "deadline"
        /\ verdict[r] = "cancelled" => sig[r] \/ ctx[r] = "canceled"
        /\ told[r] # {} => verdict[r] # "none" \/ pc[r] = "dead"

LEMMA InitVerdicts == Init => VerdictInv
  BY DEF Init, VerdictInv

LEMMA NextVerdicts == TypeOK /\ RunInv /\ VerdictInv /\ [Next]_vars => VerdictInv'
<1> SUFFICES ASSUME TypeOK, RunInv, VerdictInv, [Next]_vars PROVE VerdictInv'
  OBVIOUS
<1> USE DEF childVars, causeVars, VerdictInv, TypeOK, Goto
<1>1. ASSUME NEW r \in Runners, Launch(r) PROVE VerdictInv'
  BY <1>1 DEF Launch
<1>2. ASSUME NEW r \in Runners, Lock(r) PROVE VerdictInv'
  BY <1>2 DEF Lock
<1>3. ASSUME NEW r \in Runners, NEW to \in {"release", "start", "started"},
             pc[r] \in {"lock", "prepare", "start", "read"}, pc' = [pc EXCEPT ![r] = to],
             pc[r] = "read" => to = "release", UNCHANGED <<told, causeVars>>
      PROVE  VerdictInv'
  BY <1>3
<1>4. ASSUME NEW r \in Runners, LockRefused(r) \/ Prepare(r) \/ StartChild(r) \/ Report(r)
      PROVE  VerdictInv'
  BY <1>3, <1>4 DEF LockRefused, Prepare, StartChild, Report, Emit
<1>5. ASSUME NEW r \in Runners, Notify(r) PROVE VerdictInv'
  BY <1>5 DEF Notify
<1>6. ASSUME NEW r \in Runners, ChildDone(r) \/ ChildStopped(r) PROVE VerdictInv'
  <2>1. UNCHANGED <<told, causeVars>>
    BY <1>6 DEF ChildDone, ChildStopped
  <2>2. pc[r] \in {"select", "grace", "drain"} /\ pc' = [pc EXCEPT ![r] = "read"]
    BY <1>6 DEF ChildDone, ChildStopped
  <2> QED
    BY <2>1, <2>2
<1>7. ASSUME NEW r \in Runners, Interrupted(r) PROVE VerdictInv'
  <2>1. PICK v \in Cause(r) : verdict' = [verdict EXCEPT ![r] = v]
    BY <1>7 DEF Interrupted
  <2>2. /\ v \in {"timed_out", "cancelled"}
        /\ v = "timed_out" => timer[r] = "fired" \/ ctx[r] = "deadline"
        /\ v = "cancelled" => sig[r] \/ ctx[r] = "canceled"
    BY <2>1 DEF Cause
  <2> QED
    BY <1>7, <2>1, <2>2 DEF Interrupted, Kill
<1>8. ASSUME NEW r \in Runners, GraceOver(r) PROVE VerdictInv'
  BY <1>8 DEF GraceOver, Kill
<1>9. ASSUME NEW r \in Runners, Release(r) PROVE VerdictInv'
  BY <1>9 DEF Release
<1>10. ASSUME NEW r \in Runners, Writes(r) \/ Reap(r) PROVE VerdictInv'
  BY <1>10 DEF Writes, Reap
<1>11. ASSUME NEW r \in Runners, ChildExits(r) \/ ChildTermed(r) \/ ChildKilled(r) PROVE VerdictInv'
  BY <1>11 DEF ChildExits, ChildTermed, ChildKilled, Ends
<1>12. ASSUME NEW r \in Runners, TimerFires(r) PROVE VerdictInv'
  BY <1>12 DEF TimerFires
<1>13. ASSUME NEW r \in Runners, ContextEnds(r) PROVE VerdictInv'
  BY <1>13 DEF ContextEnds
<1>14. ASSUME NEW r \in Runners, Signaled(r) PROVE VerdictInv'
  BY <1>14 DEF Signaled
<1>15. ASSUME NEW r \in Runners, Dies(r) PROVE VerdictInv'
  BY <1>15 DEF Dies, Kill
<1>16. CASE UNCHANGED vars
  BY <1>16 DEF vars
<1> QED
  BY <1>1, <1>2, <1>4, <1>5, <1>6, <1>7, <1>8, <1>9, <1>10, <1>11, <1>12, <1>13, <1>14, <1>15, <1>16
  DEF Next, Run

LEMMA VerdictsHold == Spec => []VerdictInv
  BY InitType, NextType, RunsHold, InitVerdicts, NextVerdicts, PTL DEF Spec
\* The one result that was printed, and why.
StatusInv ==
    \A r \in Runners :
        result[r] = <<>> \/ \E s : result[r] = <<s>> /\ Explained(r, s)

\* What a status was explained by stays.
LEMMA StaysExplained ==
  ASSUME TypeOK, StatusInv, NEW r \in Runners, result'[r] = result[r],
         result[r] # <<>> =>
            /\ exit'[r] = exit[r] /\ told'[r] = told[r] /\ events'[r] = events[r]
            /\ timer[r] = "fired" => timer'[r] = "fired"
            /\ ctx[r] # "live" => ctx'[r] = ctx[r]
            /\ sig[r] => sig'[r]
  PROVE  result'[r] = <<>> \/ \E s : result'[r] = <<s>> /\ Explained(r, s)'
<1>1. ASSUME result[r] # <<>>, NEW s, Explained(r, s) PROVE Explained(r, s)'
  BY <1>1 DEF Explained, TypeOK
<1> QED
  BY <1>1 DEF StatusInv

\* The scanner does not pass over the first line.
LEMMA FirstIsScanned ==
  ASSUME NEW log \in Seq(AllLines), ~HasError(log), log # <<>>
  PROVE  log[1] # "error"
<1>1. 1 \in 1 .. Len(log)
  BY EmptySeq
<1>2. log[1] = "error" => 1 \in Scanned(log)
  BY <1>1 DEF Scanned
<1> QED
  BY <1>2 DEF HasError

\* The status of a run, from what is known when its child has been waited for.
LEMMA ReportExplains ==
  ASSUME TypeOK, RunInv, VerdictInv, NEW r \in Runners, pc[r] = "read"
  PROVE  Explained(r, Status(verdict[r], events[r], exit[r]))
<1>1. CASE verdict[r] # "none"
  BY <1>1 DEF Status, Explained, VerdictInv, TypeOK
<1>2. CASE verdict[r] = "none" /\ (HasError(events[r]) \/ exit[r] # "ok")
  BY <1>2 DEF Status, Explained
<1>3. CASE verdict[r] = "none" /\ ~HasError(events[r]) /\ exit[r] = "ok"
  <2>1. told[r] = {}
    BY <1>3 DEF VerdictInv
  <2>2. events[r] # <<>> => events[r][1] # "error"
    BY <1>3, FirstIsScanned DEF TypeOK
  <2> QED
    BY <1>3, <2>1, <2>2 DEF Status, Explained
<1> QED
  BY <1>1, <1>2, <1>3

\* A runner prints once, and what it prints is explained.
LEMMA EmitExplains ==
  ASSUME TypeOK, RunInv, StatusInv, NEW r \in Runners, NEW from, NEW status, Emit(r, from, status),
         pc[r] \notin {"release", "over", "dead"}, Explained(r, status),
         UNCHANGED <<exit, told, events, timer, ctx, sig>>
  PROVE  StatusInv'
<1> SUFFICES ASSUME NEW q \in Runners
             PROVE  result'[q] = <<>> \/ \E s : result'[q] = <<s>> /\ Explained(q, s)'
  BY DEF StatusInv
<1>1. CASE q # r
  <2>1. result'[q] = result[q]
    BY <1>1 DEF Emit, TypeOK
  <2> QED
    BY <2>1, StaysExplained
<1>2. CASE q = r
  <2>1. result[r] = <<>>
    BY DEF RunInv, ResultPlace
  <2>2. result' = [result EXCEPT ![r] = Append(@, status)]
    BY DEF Emit
  <2>3. result'[r] = <<status>>
    BY <2>1, <2>2 DEF TypeOK
  <2>4. Explained(r, status)'
    BY DEF Explained
  <2> QED
    BY <1>2, <2>3, <2>4
<1> QED
  BY <1>1, <1>2

LEMMA InitStatus == Init => StatusInv
  BY DEF Init, StatusInv

LEMMA NextStatus == TypeOK /\ RunInv /\ VerdictInv /\ StatusInv /\ [Next]_vars => StatusInv'
<1> SUFFICES ASSUME TypeOK, RunInv, VerdictInv, StatusInv, [Next]_vars PROVE StatusInv'
  OBVIOUS
<1> USE DEF childVars, causeVars
<1>1. ASSUME result' = result,
             \A q \in Runners : result[q] # <<>> =>
                /\ exit'[q] = exit[q] /\ told'[q] = told[q] /\ events'[q] = events[q]
                /\ timer[q] = "fired" => timer'[q] = "fired"
                /\ ctx[q] # "live" => ctx'[q] = ctx[q]
                /\ sig[q] => sig'[q]
      PROVE  StatusInv'
  BY <1>1, StaysExplained DEF StatusInv
<1>2. ASSUME NEW r \in Runners, NEW from \in {"lock", "prepare", "start", "read"},
             Emit(r, from, "failed"), UNCHANGED <<exit, told, events, timer, ctx, sig>>
      PROVE  StatusInv'
  <2>1. pc[r] \notin {"release", "over", "dead"}
    BY <1>2 DEF Emit, Goto
  <2>2. Explained(r, "failed")
    BY DEF Explained
  <2> QED
    BY <1>2, <2>1, <2>2, EmitExplains
<1>3. ASSUME UNCHANGED <<exit, told, events, causeVars, result>> PROVE StatusInv'
  BY <1>1, <1>3
<1>4. ASSUME NEW r \in Runners, Launch(r) \/ Lock(r) \/ ChildDone(r) \/ ChildStopped(r) \/ Release(r) \/ Reap(r)
      PROVE  StatusInv'
  BY <1>3, <1>4 DEF Launch, Lock, ChildDone, ChildStopped, Release, Reap
<1>5. ASSUME NEW r \in Runners, LockRefused(r) \/ Prepare(r) \/ StartChild(r) PROVE StatusInv'
  BY <1>2, <1>3, <1>5 DEF LockRefused, Prepare, StartChild
<1>6. ASSUME NEW r \in Runners, Report(r) PROVE StatusInv'
  <2>1. CASE Emit(r, "read", Status(verdict[r], events[r], exit[r]))
    <3>1. pc[r] = "read"
      BY <2>1 DEF Emit, Goto
    <3> QED
      BY <1>6, <2>1, <3>1, ReportExplains, EmitExplains DEF Report
  <2>2. CASE Emit(r, "read", "failed")
    BY <1>2, <1>6, <2>2 DEF Report
  <2> QED
    BY <1>6, <2>1, <2>2 DEF Report
<1>7. ASSUME NEW r \in Runners, Notify(r) PROVE StatusInv'
  BY <1>1, <1>7 DEF Notify, Goto, TypeOK, RunInv, ResultPlace
<1>8. ASSUME NEW r \in Runners, Interrupted(r) \/ GraceOver(r) PROVE StatusInv'
  BY <1>1, <1>8 DEF Interrupted, GraceOver, Kill, Goto, TypeOK, RunInv, ResultPlace
<1>9. ASSUME NEW r \in Runners, Writes(r) PROVE StatusInv'
  BY <1>1, <1>9 DEF Writes, TypeOK, RunInv, ResultPlace
<1>10. ASSUME NEW r \in Runners, ChildExits(r) \/ ChildTermed(r) \/ ChildKilled(r) PROVE StatusInv'
  BY <1>1, <1>10 DEF ChildExits, ChildTermed, ChildKilled, Ends, TypeOK, RunInv, ResultPlace
<1>11. ASSUME NEW r \in Runners, TimerFires(r) PROVE StatusInv'
  BY <1>1, <1>11 DEF TimerFires, TypeOK
<1>12. ASSUME NEW r \in Runners, ContextEnds(r) PROVE StatusInv'
  BY <1>1, <1>12 DEF ContextEnds, TypeOK
<1>13. ASSUME NEW r \in Runners, Signaled(r) PROVE StatusInv'
  BY <1>1, <1>13 DEF Signaled, TypeOK
<1>14. ASSUME NEW r \in Runners, Dies(r) PROVE StatusInv'
  BY <1>1, <1>14 DEF Dies, Kill, TypeOK, RunInv, ResultPlace
<1>15. CASE UNCHANGED vars
  BY <1>3, <1>15 DEF vars
<1> QED
  BY <1>4, <1>5, <1>6, <1>7, <1>8, <1>9, <1>10, <1>11, <1>12, <1>13, <1>14, <1>15 DEF Next, Run

\* The status a runner prints names what ended its child: completed only when
\* the child ended by itself, with success and without an error it reported.
THEOREM StatusTellsCause == Spec => []StatusIsCause
<1>1. Spec => []StatusInv
  BY InitType, NextType, RunsHold, VerdictsHold, InitStatus, NextStatus, PTL DEF Spec
<1>2. StatusInv => StatusIsCause
  <2> SUFFICES ASSUME StatusInv, NEW r \in Runners, NEW i \in 1 .. Len(result[r])
               PROVE  Explained(r, result[r][i])
    BY DEF StatusIsCause
  <2>1. PICK s : result[r] = <<s>> /\ Explained(r, s)
    BY DEF StatusInv
  <2>2. i = 1
    BY <2>1
  <2> QED
    BY <2>1, <2>2
<1> QED
  BY <1>1, <1>2, PTL
=============================================================================
