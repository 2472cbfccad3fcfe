------------------------------ MODULE Workspace ------------------------------
(***************************************************************************)
(* The workspace manager (internal/workspace/workspace.go): sessions bound *)
(* to Git worktrees ("worktree"), to new directories ("greenfield") or to  *)
(* the source directory itself, over the file system they live in.         *)
(*                                                                         *)
(* A step of a call is one critical section of Manager.mu, one Git command *)
(* or one file operation: between two of them other calls, the agent that  *)
(* works in a directory, and a crash may come.                             *)
(*                                                                         *)
(* Left out: paths and ids (a place is a model value), the contents of     *)
(* reports and diffs (only whether there are changes), the text and        *)
(* duration of a verification (a number, counted up, stands for a result), *)
(* and timestamps.                                                         *)
(***************************************************************************)
EXTENDS Naturals, Sequences, FiniteSets

CONSTANTS
    Sessions,    \* session ids OpenCode may hand out
    Slots,       \* the random worktree ids, each with its branch
    Paths,       \* directories asked for with create_directory
    Calls,       \* calls in progress at the same time
    Source,      \* the source directory of a session without place of its own
    Nobody,      \* no session
    MaxHistory,  \* maxVerificationHistory
    MaxResults,  \* bound on the verification results of a behaviour
    MaxCrashes,  \* bound on crashes of the executor
    Faults       \* which of the failures below may happen

AllFaults == {"add",      \* git worktree add is interrupted half-way
              "remove",   \* a directory or a branch cannot be removed
              "save",     \* a record cannot be written
              "vanish"}   \* somebody deletes a directory

ASSUME PlacesAssumption ==
    /\ Slots \cap Paths = {}
    /\ Source \notin Slots \cup Paths
    /\ Nobody \notin Sessions
ASSUME WorkspaceBounds ==
    /\ MaxHistory \in Nat \ {0}
    /\ MaxResults \in Nat
    /\ MaxCrashes \in Nat
    /\ Faults \subseteq AllFaults

Places == Slots \cup Paths
Present == {"clean", "work"}   \* what tree says of a directory that is there

\* Record: git says that RepositoryRoot and BaseCommit are known, which is
\* found out late for a greenfield directory.
Record == [place : Places \cup {Source}, git : BOOLEAN, cleaned : BOOLEAN,
           checks : Seq(Nat)]
NoRecord == [place |-> Source, git |-> FALSE, cleaned |-> FALSE, checks |-> <<>>]

Steps == {"idle",
          "opening", "bind", "saveNew", "undoTree", "undoBranch",
          "check", "saveCheck",
          "stat", "discover", "recordGit", "saveGit", "scan", "decide",
          "removeTree", "removeBranch", "empty", "removeAll", "mark", "saveMark"}

VARIABLES
    known,      \* the sessions in Manager.records
    records,    \* their records
    saved,      \* the sessions with a file in the state directory
    disk,       \* what the files say
    tree,       \* a place holds nothing, a clean directory or uncommitted work;
                \* "missing": a worktree Git knows of whose directory is gone
    history,    \* its branch (a slot) or repository (a path): none, at its
                \* base, or with commits found nowhere else
    used,       \* slots and session ids handed out: both are never repeated
    call,       \* the calls in progress, with their locals
    ran,        \* per session, the number of its latest verification result
    discarded,  \* history: places whose work a cleanup without force removed
    strayed,    \* history: places a failed step or a crash left to nobody
    crashes

memVars  == <<known, records>>
diskVars == <<saved, disk>>
fsVars   == <<tree, history>>
ghosts   == <<discarded, strayed>>
vars == <<memVars, diskVars, fsVars, used, call, ran, ghosts, crashes>>

\* rec is the call's own record, or its copy; out the one on its way to disk.
NoCall == [pc |-> "idle", on |-> Nobody, rec |-> NoRecord, out |-> NoRecord,
           tidy |-> FALSE, force |-> FALSE, changes |-> FALSE]

Goto(c, where) == call' = [call EXCEPT ![c].pc = where]
Return(c)      == call' = [call EXCEPT ![c] = NoCall]

Init ==
    /\ known = {} /\ saved = {} /\ used = {}
    /\ records = [s \in Sessions |-> NoRecord]
    /\ disk    = [s \in Sessions |-> NoRecord]
    /\ tree    = [p \in Places |-> "none"]
    /\ history = [p \in Places |-> "none"]
    /\ call    = [c \in Calls |-> NoCall]
    /\ ran = [s \in Sessions |-> 0]
    /\ discarded = {} /\ strayed = {}
    /\ crashes = 0

-----------------------------------------------------------------------------
(* save: the record is written aside and renamed over the session's file,
   outside the lock; what it holds was decided before. *)

Save(c, at, ifSaved, ifNot) ==
    /\ call[c].pc = at
    /\ \/ /\ saved' = saved \cup {call[c].on}
          /\ disk' = [disk EXCEPT ![call[c].on] = call[c].out]
          /\ call' = [call EXCEPT ![c] = ifSaved]
       \/ /\ "save" \in Faults
          /\ call' = [call EXCEPT ![c] = ifNot]
          /\ UNCHANGED diskVars
    /\ UNCHANGED <<memVars, fsVars, used, ran, ghosts, crashes>>

-----------------------------------------------------------------------------
(* Open *)

\* What prepare makes of an isolation mode and a source directory.
Prepared(mode, source) ==
    CASE mode = "none" -> "direct"
      [] mode = "auto" /\ source # "clean" -> "direct"
      [] mode = "worktree" /\ source # "clean" -> "refused"
      [] OTHER -> "worktree"

OpensIn(c, place, git) ==
    call' = [call EXCEPT ![c] =
        [NoCall EXCEPT !.pc = "opening",
                       !.rec = [NoRecord EXCEPT !.place = place, !.git = git]]]

OpenDirect(c) ==
    /\ call[c].pc = "idle"
    /\ \E mode \in {"none", "auto"}, source \in {"absent", "plain", "dirty", "clean"} :
         /\ Prepared(mode, source) = "direct"
         /\ OpensIn(c, Source, source \in {"dirty", "clean"} /\ (mode = "none" \/ source = "dirty"))
    /\ UNCHANGED <<memVars, diskVars, fsVars, used, ran, ghosts, crashes>>

\* git worktree add -b: the directory and the branch.
OpenWorktree(c) ==
    /\ call[c].pc = "idle"
    /\ \E mode \in {"auto", "worktree"} : Prepared(mode, "clean") = "worktree"
    /\ \E p \in Slots \ used :
         /\ used' = used \cup {p}
         /\ tree' = [tree EXCEPT ![p] = "clean"]
         /\ history' = [history EXCEPT ![p] = "base"]
         /\ OpensIn(c, p, TRUE)
    /\ UNCHANGED <<memVars, diskVars, ran, ghosts, crashes>>

\* The command fails after it has made something: prepare returns the error
\* with created = false, and nobody undoes it.
AddInterrupted(c) ==
    /\ "add" \in Faults
    /\ call[c].pc = "idle"
    /\ \E p \in Slots \ used :
         /\ used' = used \cup {p}
         /\ tree' \in {tree, [tree EXCEPT ![p] = "clean"]}
         /\ history' = [history EXCEPT ![p] = "base"]
         /\ strayed' = strayed \cup {p}
    /\ UNCHANGED <<memVars, diskVars, call, ran, discarded, crashes>>

\* prepareGreenfield: Mkdir fails on anything that exists.
OpenGreenfield(c) ==
    /\ call[c].pc = "idle"
    /\ \E p \in Paths :
         /\ tree[p] = "none"
         /\ tree' = [tree EXCEPT ![p] = "clean"]
         /\ OpensIn(c, p, FALSE)
    /\ UNCHANGED <<memVars, diskVars, history, used, ran, ghosts, crashes>>

SessionOpened(c) ==
    /\ call[c].pc = "opening"
    /\ \E s \in Sessions \ used :
         /\ used' = used \cup {s}
         /\ call' = [call EXCEPT ![c].pc = "bind", ![c].on = s]
    /\ UNCHANGED <<memVars, diskVars, fsVars, ran, ghosts, crashes>>

\* Mutant: Open gives up on an invalid session id without undoing anything.
SessionRefusedKeepsAll(c) ==
    /\ call[c].pc = "opening"
    /\ Return(c)
    /\ UNCHANGED <<memVars, diskVars, fsVars, used, ran, ghosts, crashes>>

\* opener fails or returns an invalid id: an owned workspace is rolled back.
SessionRefused(c) ==
    /\ call[c].pc = "opening"
    /\ IF call[c].rec.place = Source THEN Return(c) ELSE Goto(c, "undoTree")
    /\ UNCHANGED <<memVars, diskVars, fsVars, used, ran, ghosts, crashes>>

\* rollback: the tree and, of a worktree, the branch, both attempted.
RollbackTree(c) ==
    /\ call[c].pc = "undoTree"
    /\ LET p == call[c].rec.place IN
         /\ \/ tree' = [tree EXCEPT ![p] = "none"] /\ strayed' = strayed
            \/ "remove" \in Faults /\ tree' = tree /\ strayed' = strayed \cup {p}
         /\ IF p \in Slots
            THEN Goto(c, "undoBranch") /\ history' = history
            ELSE Return(c) /\ history' = [history EXCEPT ![p] = IF tree'[p] = "none" THEN "none" ELSE @]
    /\ UNCHANGED <<memVars, diskVars, used, ran, discarded, crashes>>

\* git refuses to delete the branch of a worktree that is still there.
RollbackBranch(c) ==
    /\ call[c].pc = "undoBranch"
    /\ LET p == call[c].rec.place IN
         \/ /\ tree[p] = "none"
            /\ history' = [history EXCEPT ![p] = "none"]
            /\ strayed' = strayed
         \/ /\ tree[p] # "none" \/ "remove" \in Faults
            /\ history' = history
            /\ strayed' = strayed \cup {p}
    /\ Return(c)
    /\ UNCHANGED <<memVars, diskVars, tree, used, ran, discarded, crashes>>

Bind(c) ==
    /\ call[c].pc = "bind"
    /\ known' = known \cup {call[c].on}
    /\ records' = [records EXCEPT ![call[c].on] = call[c].rec]
    /\ call' = [call EXCEPT ![c].pc = "saveNew", ![c].out = call[c].rec]
    /\ UNCHANGED <<diskVars, fsVars, used, ran, ghosts, crashes>>

\* Mutant: a failed save rolls back what a session has been bound to.
SaveNewOrUndo(c) == Save(c, "saveNew", NoCall, [call[c] EXCEPT !.pc = "undoTree"])
SaveNew(c) == Save(c, "saveNew", NoCall, NoCall)

-----------------------------------------------------------------------------
(* Verify *)

\* A client knows a session id once Open has returned.
Begin(c, s, at, tidy, force) ==
    /\ call[c].pc = "idle"
    /\ s \in known /\ \A d \in Calls : call[d].pc = "saveNew" => call[d].on # s
    /\ call' = [call EXCEPT ![c] = [NoCall EXCEPT !.pc = at, !.on = s, !.rec = records[s],
                                                !.tidy = tidy, !.force = force]]

VerifyBegin(c, s) ==
    /\ Begin(c, s, "check", FALSE, FALSE)
    /\ ~records[s].cleaned
    /\ UNCHANGED <<memVars, diskVars, fsVars, used, ran, ghosts, crashes>>

\* Mutant: the result is added to the record Verify looked up at its start.
RecordedInCopy(now, copy, r) ==
    [copy EXCEPT !.checks = Append(@, r)]
\* The result goes to the record of the moment, the oldest one going first.
Recorded(now, copy, r) ==
    LET all == Append(now.checks, r)
    IN  [now EXCEPT !.checks =
            SubSeq(all, IF Len(all) > MaxHistory THEN Len(all) - MaxHistory + 1 ELSE 1,
                   Len(all))]

\* A check has run and its result enters the record, under the lock.
CheckRuns(c) ==
    /\ call[c].pc = "check"
    /\ ran[call[c].on] < MaxResults
    /\ LET s == call[c].on
           now == Recorded(records[s], call[c].rec, ran[s] + 1)
       IN  /\ ran' = [ran EXCEPT ![s] = @ + 1]
           /\ records' = [records EXCEPT ![s] = now]
           /\ call' = [call EXCEPT ![c].pc = "saveCheck", ![c].out = now]
    /\ UNCHANGED <<known, diskVars, fsVars, used, ghosts, crashes>>

\* The next check follows; the last one, an expired context or a failed save
\* end the call.
SaveCheck(c) ==
    \E more \in BOOLEAN :
        Save(c, "saveCheck",
             IF more THEN [call[c] EXCEPT !.pc = "check"] ELSE NoCall, NoCall)

\* The context expires, or the next check has no command.
VerifyEnds(c) ==
    /\ call[c].pc = "check"
    /\ Return(c)
    /\ UNCHANGED <<memVars, diskVars, fsVars, used, ran, ghosts, crashes>>

-----------------------------------------------------------------------------
(* Inspect, alone or at the start of Cleanup, which "tidy" tells apart *)

InspectBegin(c, s) ==
    /\ Begin(c, s, "stat", FALSE, FALSE)
    /\ ~records[s].cleaned
    /\ UNCHANGED <<memVars, diskVars, fsVars, used, ran, ghosts, crashes>>

\* Cleanup of a cleaned record, or of a place that is not the executor's own,
\* returns at once.
CleanupBegin(c, s, force) ==
    /\ Begin(c, s, "stat", TRUE, force)
    /\ ~records[s].cleaned /\ records[s].place # Source
    /\ UNCHANGED <<memVars, diskVars, fsVars, used, ran, ghosts, crashes>>

\* What follows Inspect.
Reported(l, changes) ==
    IF l.tidy THEN [l EXCEPT !.pc = "decide", !.changes = changes] ELSE NoCall

\* The directory is gone: not available, and nothing else is looked at.
Stat(c) ==
    /\ call[c].pc = "stat"
    /\ LET p == call[c].rec.place IN
       call' = [call EXCEPT ![c] =
           IF p \in Places /\ tree[p] \notin Present THEN Reported(@, FALSE)
           ELSE [@ EXCEPT !.pc = IF p \in Paths THEN "discover" ELSE "scan"]]
    /\ UNCHANGED <<memVars, diskVars, fsVars, used, ran, ghosts, crashes>>

\* discoverGreenfieldGit, outside the lock: rev-parse, then hash-object for the
\* empty tree.  Either may fail, and both do where there is no repository (any
\* more), so that only the moment of the second one matters.
Discover(c) ==
    /\ call[c].pc = "discover"
    /\ \/ Goto(c, "scan")
       \/ /\ history[call[c].rec.place] # "none"
          /\ call' = [call EXCEPT ![c].pc = "recordGit", ![c].rec.git = TRUE]
    /\ UNCHANGED <<memVars, diskVars, fsVars, used, ran, ghosts, crashes>>

\* Mutant: the caller's copy is stored, whatever the record has become.
RecordCopy(c) ==
    /\ call[c].pc = "recordGit"
    /\ records' = [records EXCEPT ![call[c].on] = call[c].rec]
    /\ call' = [call EXCEPT ![c].pc = "saveGit", ![c].out = call[c].rec]
    /\ UNCHANGED <<known, diskVars, fsVars, used, ran, ghosts, crashes>>

\* Its critical section: what was found goes into the record of the moment,
\* unless that has been cleaned; it is saved when it is news.
RecordGit(c) ==
    /\ call[c].pc = "recordGit"
    /\ LET s == call[c].on
           now == [records[s] EXCEPT !.git = TRUE]
       IN  IF records[s].cleaned
           THEN Goto(c, "scan") /\ records' = records
           ELSE /\ records' = [records EXCEPT ![s] = now]
                /\ call' = [call EXCEPT ![c].out = now,
                                        ![c].pc = IF records[s].git THEN "scan" ELSE "saveGit"]
    /\ UNCHANGED <<known, diskVars, fsVars, used, ran, ghosts, crashes>>

\* A save that fails here is only logged.
SaveGit(c) == LET scan == [call[c] EXCEPT !.pc = "scan"] IN Save(c, "saveGit", scan, scan)

\* inspectGit.  Git fails where there is no checkout any more.
Scan(c) ==
    /\ call[c].pc = "scan"
    /\ LET p == call[c].rec.place IN
       call' = [call EXCEPT ![c] =
           IF p = Source \/ ~@.rec.git THEN Reported(@, FALSE)
           ELSE IF tree[p] \notin Present \/ history[p] = "none" THEN NoCall
           ELSE Reported(@, tree[p] = "work" \/ history[p] = "ahead")]
    /\ UNCHANGED <<memVars, diskVars, fsVars, used, ran, ghosts, crashes>>

-----------------------------------------------------------------------------
(* Cleanup, once Inspect has reported *)

\* Mutant: a directory that is gone is an error.
DecideNeedsDirectory(c) ==
    /\ call[c].pc = "decide"
    /\ LET l == call[c]
           p == l.rec.place
       IN  call' = [call EXCEPT ![c] =
             IF (p \in Paths /\ tree[p] = "none") \/ (l.changes /\ ~l.force) THEN NoCall
             ELSE [l EXCEPT !.pc = IF p \in Slots THEN "removeTree"
                                   ELSE IF l.force THEN "removeAll" ELSE "empty"]]
    /\ UNCHANGED <<memVars, diskVars, fsVars, used, ran, ghosts, crashes>>

\* Changes stop a cleanup without force.  A greenfield directory that is gone
\* (Lstat) has only to be marked; without force it must be empty as well.
Decide(c) ==
    /\ call[c].pc = "decide"
    /\ LET l == call[c]
           p == l.rec.place
       IN  call' = [call EXCEPT ![c] =
             IF p \in Paths /\ tree[p] = "none" THEN [l EXCEPT !.pc = "mark"]
             ELSE IF l.changes /\ ~l.force THEN NoCall
             ELSE [l EXCEPT !.pc = IF p \in Slots THEN "removeTree"
                                   ELSE IF l.force THEN "removeAll" ELSE "empty"]]
    /\ UNCHANGED <<memVars, diskVars, fsVars, used, ran, ghosts, crashes>>

Forgotten(c, gone) ==
    discarded' = IF gone /\ ~call[c].force THEN discarded \cup {call[c].rec.place}
                                           ELSE discarded

\* git worktree remove: an error on what Git does not know (any more) and,
\* without --force, on uncommitted work.
RemoveTree(c) ==
    /\ call[c].pc = "removeTree"
    /\ LET p == call[c].rec.place IN
         \/ /\ tree[p] # "none"
            /\ tree[p] = "work" => call[c].force
            /\ tree' = [tree EXCEPT ![p] = "none"]
            /\ Forgotten(c, tree[p] = "work")
            /\ Goto(c, "removeBranch")
         \/ /\ \/ tree[p] = "none"
               \/ (tree[p] = "work" /\ ~call[c].force)
               \/ "remove" \in Faults
            /\ UNCHANGED <<tree, discarded>>
            /\ Return(c)
    /\ UNCHANGED <<memVars, diskVars, history, used, ran, strayed, crashes>>

\* Mutant: always git branch -D.
DeletableByForce(p, force) == history[p] # "none"
\* git branch -d refuses to lose commits, -D does not.
Deletable(p, force) == history[p] = "base" \/ (history[p] = "ahead" /\ force)

\* Mutant: an error of git branch is ignored.
RemoveBranchOrNot(c) ==
    /\ call[c].pc = "removeBranch"
    /\ LET p == call[c].rec.place IN
         history' = [history EXCEPT ![p] = IF Deletable(p, call[c].force) THEN "none" ELSE @]
    /\ Goto(c, "mark")
    /\ UNCHANGED <<memVars, diskVars, tree, used, ran, ghosts, crashes>>

RemoveBranch(c) ==
    /\ call[c].pc = "removeBranch"
    /\ LET p == call[c].rec.place IN
         \/ /\ Deletable(p, call[c].force)
            /\ history' = [history EXCEPT ![p] = "none"]
            /\ Forgotten(c, history[p] = "ahead")
            /\ Goto(c, "mark")
         \/ /\ ~Deletable(p, call[c].force) \/ "remove" \in Faults
            /\ UNCHANGED <<history, discarded>>
            /\ Return(c)
    /\ UNCHANGED <<memVars, diskVars, tree, used, ran, strayed, crashes>>

\* directoryEmpty: neither files nor a repository.
CheckEmpty(c) ==
    /\ call[c].pc = "empty"
    /\ LET p == call[c].rec.place IN
       IF tree[p] = "clean" /\ history[p] = "none" THEN Goto(c, "removeAll") ELSE Return(c)
    /\ UNCHANGED <<memVars, diskVars, fsVars, used, ran, ghosts, crashes>>

\* os.RemoveAll: no error if there is nothing.
RemoveAll(c) ==
    /\ call[c].pc = "removeAll"
    /\ LET p == call[c].rec.place IN
         \/ /\ tree' = [tree EXCEPT ![p] = "none"]
            /\ history' = [history EXCEPT ![p] = "none"]
            /\ Forgotten(c, tree[p] = "work" \/ history[p] = "ahead")
            /\ Goto(c, "mark")
         \/ /\ "remove" \in Faults
            /\ UNCHANGED <<fsVars, discarded>>
            /\ Return(c)
    /\ UNCHANGED <<memVars, diskVars, used, ran, strayed, crashes>>

\* markCleaned: the record is the one that Inspect copied.
MarkCleaned(c) ==
    /\ call[c].pc = "mark"
    /\ LET s == call[c].on
           rec == [call[c].rec EXCEPT !.cleaned = TRUE]
       IN  /\ records' = [records EXCEPT ![s] = rec]
           /\ call' = [call EXCEPT ![c].pc = "saveMark", ![c].out = rec]
    /\ UNCHANGED <<known, diskVars, fsVars, used, ran, ghosts, crashes>>

SaveMark(c) == Save(c, "saveMark", NoCall, NoCall)

-----------------------------------------------------------------------------
(* Whoever works in a directory: the agent, a verification, a person.      *)

Works(p) ==
    /\ tree[p] = "clean"
    /\ tree' = [tree EXCEPT ![p] = "work"]
    /\ history' = history

InitsRepository(p) ==
    /\ p \in Paths
    /\ tree[p] \in Present /\ history[p] = "none"
    /\ history' = [history EXCEPT ![p] = "base"]
    /\ tree' = tree

Commits(p) ==
    /\ tree[p] = "work" /\ history[p] # "none"
    /\ tree' = [tree EXCEPT ![p] = "clean"]
    /\ history' = [history EXCEPT ![p] = "ahead"]

\* A deleted worktree leaves its branch and what Git knows of it.
Vanishes(p) ==
    /\ "vanish" \in Faults
    /\ tree[p] \in Present
    /\ tree' = [tree EXCEPT ![p] = IF p \in Slots THEN "missing" ELSE "none"]
    /\ history' = [history EXCEPT ![p] = IF p \in Slots THEN @ ELSE "none"]

Outside(p) ==
    /\ Works(p) \/ InitsRepository(p) \/ Commits(p) \/ Vanishes(p)
    /\ UNCHANGED <<memVars, diskVars, used, call, ran, ghosts, crashes>>

OnDisk(p) == tree[p] # "none" \/ history[p] # "none"

\* Crash and restart: NewManager loads the files; what they do not name is
\* nobody's.  Results are numbered on from those that are left.
Crash ==
    /\ crashes < MaxCrashes
    /\ crashes' = crashes + 1
    /\ known' = saved /\ records' = disk
    /\ call' = [c \in Calls |-> NoCall]
    /\ ran' = [s \in Sessions |-> LET r == disk[s].checks IN IF r = <<>> THEN 0 ELSE r[Len(r)]]
    /\ strayed' = strayed \cup
         {p \in Places : OnDisk(p) /\ ~\E s \in saved : disk[s].place = p /\ ~disk[s].cleaned}
    /\ UNCHANGED <<diskVars, fsVars, used, discarded>>

-----------------------------------------------------------------------------
Open(c) == OpenDirect(c) \/ OpenWorktree(c) \/ OpenGreenfield(c)

Step(c) ==
    \/ SessionOpened(c) \/ SessionRefused(c) \/ RollbackTree(c) \/ RollbackBranch(c)
    \/ Bind(c) \/ SaveNew(c)
    \/ CheckRuns(c) \/ SaveCheck(c) \/ VerifyEnds(c)
    \/ Stat(c) \/ Discover(c) \/ RecordGit(c) \/ SaveGit(c) \/ Scan(c)
    \/ Decide(c) \/ RemoveTree(c) \/ RemoveBranch(c) \/ CheckEmpty(c) \/ RemoveAll(c)
    \/ MarkCleaned(c) \/ SaveMark(c)

Next ==
    \/ \E c \in Calls :
         \/ Open(c) \/ AddInterrupted(c) \/ Step(c)
         \/ \E s \in Sessions :
              \/ VerifyBegin(c, s) \/ InspectBegin(c, s)
              \/ \E force \in BOOLEAN : CleanupBegin(c, s, force)
    \/ \E p \in Places : Outside(p)
    \/ Crash

Spec == Init /\ [][Next]_vars

\* Calls go on, and somebody asks again and again for a forced cleanup.  Calls
\* stands for as many calls as clients make, so that one more can always begin.
FairSpec ==
    /\ Spec
    /\ \A c \in Calls : WF_vars(Step(c))
    /\ \A s \in Sessions : SF_vars(\E c \in Calls : CleanupBegin(c, s, TRUE))

-----------------------------------------------------------------------------
(* Properties *)

TypeOK ==
    /\ known \subseteq Sessions /\ saved \subseteq Sessions
    /\ records \in [Sessions -> Record] /\ disk \in [Sessions -> Record]
    /\ tree \in [Places -> {"none", "missing", "clean", "work"}]
    /\ history \in [Places -> {"none", "base", "ahead"}]
    /\ used \subseteq Slots \cup Sessions
    /\ call \in [Calls -> [pc : Steps, on : Sessions \cup {Nobody}, rec : Record, out : Record,
                           tidy : BOOLEAN, force : BOOLEAN, changes : BOOLEAN]]
    /\ ran \in [Sessions -> Nat]
    /\ discarded \subseteq Places /\ strayed \subseteq Places
    /\ crashes \in Nat

\* Open: whatever the manager made on disk belongs to a record that is not
\* cleaned or to an Open in progress, unless a step failed or a crash came
\* before the record was written.
NothingStray ==
    \A p \in Places : OnDisk(p) =>
        \/ p \in strayed
        \/ \E s \in known : records[s].place = p /\ ~records[s].cleaned
        \/ \E c \in Calls : /\ call[c].rec.place = p
                            /\ call[c].pc \in {"opening", "bind", "undoTree", "undoBranch"}

\* markCleaned comes last: neither in memory nor on disk is a worktree said to
\* be cleaned while its directory or its branch is there, crash or not.
CleanedMeansGone ==
    \A s \in Sessions : \A rec \in {records[s], disk[s]} :
        rec.cleaned /\ rec.place \in Slots => ~OnDisk(rec.place)

\* README: cleanup "refuses to remove a worktree containing changes or commits
\* unless force=true is supplied": no work is lost, whatever comes between the
\* inspection and the removal.
WorkInWorktreesKept == discarded \cap Slots = {}

\* Verify: a record that is not cleaned holds the latest results in the order
\* they were obtained, none missing, however calls overlap.
HistoryComplete ==
    \A s \in known : ~records[s].cleaned =>
        LET n == Len(records[s].checks) IN
        /\ n <= MaxHistory
        /\ n < MaxHistory => n = ran[s]
        /\ \A i \in 1 .. n : records[s].checks[i] = ran[s] - n + i

\* While the process lives, a cleaned workspace stays cleaned.
CleanedStays ==
    [][crashes' = crashes =>
         \A s \in known : records[s].cleaned => records'[s].cleaned]_vars

\* A greenfield directory that is gone for good, removed by a cleanup that
\* then failed or crashed or by somebody else, does not keep its record
\* uncleaned: a forced cleanup that is asked for again and again gets there.
GreenfieldCleanedInTheEnd ==
    \A s \in Sessions, p \in Paths :
        <>[](tree[p] = "none")
        => (s \in known /\ records[s].place = p ~> s \notin known \/ records[s].cleaned)

\* The workspace manager does what WorkspaceLifecycle promises.  A session
\* that is not known has no workspace, whatever is on disk for it.
WorkspaceOf(s) == IF s \notin known THEN "none"
                  ELSE IF records[s].cleaned THEN "cleaned" ELSE "open"
LatestOf(rec) == IF rec.checks = <<>> THEN 0 ELSE rec.checks[Len(rec.checks)]
ContentOf(p) == IF ~OnDisk(p) THEN "none" ELSE IF history[p] = "ahead" THEN "ahead" ELSE "base"

State     == [s \in Sessions |-> WorkspaceOf(s)]
Place     == [s \in Sessions |-> IF s \in known THEN records[s].place ELSE Source]
Results   == [s \in Sessions |-> IF s \in known THEN LatestOf(records[s]) ELSE 0]
Content   == [p \in Places |-> ContentOf(p)]
ForcedNow == {s \in Sessions : \E c \in Calls : call[c].force /\ call[c].on = s}

Lifecycle == INSTANCE WorkspaceLifecycle WITH
    state <- State, place <- Place, results <- Results, content <- Content,
    forced <- ForcedNow, epoch <- crashes

ImplementsWorkspaceLifecycle == Lifecycle!Spec

\* handoff_cleanup, "Idempotent": a cleanup does not fail because an earlier
\* one, which is over, has removed the worktree already.
CleanupRepeats ==
    \A c \in Calls : call[c].pc = "removeTree" /\ tree[call[c].rec.place] = "none" =>
        \E d \in Calls \ {c} : call[d].tidy /\ call[d].on = call[c].on

\* handoff_verify, "record pass/fail": the latest results of a session are in
\* its record, cleaned or not.
ResultsKept ==
    \A s \in known : ran[s] > 0 =>
        LET all == records[s].checks IN all # <<>> /\ all[Len(all)] = ran[s]

\* README, "durable job and workspace state": when nothing is in progress and
\* no save has failed, the files say what the manager knows.
DurableWhenQuiet ==
    (\A c \in Calls : call[c].pc = "idle") =>
        saved = known /\ \A s \in known : disk[s] = records[s]

\* handoff_cleanup, "force=true discards changes/commits": without it nothing
\* is discarded, of a greenfield directory either.
GreenfieldWorkKept == discarded \cap Paths = {}

\* README, "cleanup that protects active or modified workspaces": a cleanup
\* of one session does not remove the directory another one is bound to.
OthersWorkspaceKept ==
    [][\A c \in Calls : call[c].pc = "removeAll" =>
         \A s \in known : LET p == records[s].place IN
            s # call[c].on /\ p = call[c].rec.place /\ ~records[s].cleaned
            /\ tree[p] = "work" => tree'[p] = "work"]_vars
=============================================================================
