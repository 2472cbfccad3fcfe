------------------------- MODULE WorkspaceLifecycle -------------------------
(***************************************************************************)
(* What the workspace manager promises about workspaces, without calls,    *)
(* locks, Git commands or files of its own: a session is bound once, to    *)
(* one place; a place made by the manager is bound to no second session; a *)
(* workspace called cleaned is gone; commits go with force only; and a     *)
(* restart may forget the latest news of a workspace, but invents none.    *)
(* Workspace is shown to implement it.                                     *)
(***************************************************************************)
EXTENDS Naturals

CONSTANTS Sessions, Slots, Paths, Source

VARIABLES
    state,     \* of every session's workspace: none, open or cleaned
    place,     \* where it is
    results,   \* the number of its latest verification result, 0 for none
    content,   \* of every place: none, base, or ahead of what it was made from
    forced,    \* sessions whose workspace is being cleaned with force
    epoch      \* the number of restarts so far

vars == <<state, place, results, content, forced, epoch>>

Places == Slots \cup Paths

Init ==
    /\ state   = [s \in Sessions |-> "none"]
    /\ place   = [s \in Sessions |-> Source]
    /\ results = [s \in Sessions |-> 0]
    /\ content = [p \in Places |-> "none"]
    /\ forced  = {}
    /\ epoch   = 0

Bound(s, p) == state[s] # "none" /\ place[s] = p

\* A directory, with its branch if it is a worktree.
Make(p) ==
    /\ content[p] = "none"
    /\ p \in Slots => \A s \in Sessions : ~Bound(s, p)
    /\ content' = [content EXCEPT ![p] = "base"]
    /\ UNCHANGED <<state, place, results, forced, epoch>>

Bind(s, p) ==
    /\ state[s] = "none"
    /\ p \in Slots => \A t \in Sessions : ~Bound(t, p)
    /\ state'   = [state EXCEPT ![s] = "open"]
    /\ place'   = [place EXCEPT ![s] = p]
    /\ results' = [results EXCEPT ![s] = 0]
    /\ UNCHANGED <<content, forced, epoch>>

Commit(p) ==
    /\ content[p] = "base"
    /\ content' = [content EXCEPT ![p] = "ahead"]
    /\ UNCHANGED <<state, place, results, forced, epoch>>

\* Of a worktree that is bound, commits are dropped with force only, and by a
\* cleanup of its own session.
Drop(p) ==
    /\ p \in Slots => \A s \in Sessions : Bound(s, p) =>
         /\ state[s] = "open"
         /\ content[p] = "ahead" => s \in forced
    /\ content' = [content EXCEPT ![p] = "none"]
    /\ UNCHANGED <<state, place, results, forced, epoch>>

ResultsOf(s) ==
    /\ results' \in [Sessions -> Nat]
    /\ \A t \in Sessions \ {s} : results'[t] = results[t]

\* What is promised of the results ends with the workspace.
Verify(s) ==
    /\ state[s] # "none"
    /\ ResultsOf(s)
    /\ state[s] = "open" => results'[s] = results[s] + 1
    /\ UNCHANGED <<state, place, content, forced, epoch>>

Clean(s) ==
    /\ state[s] # "none"
    /\ place[s] \in Slots => content[place[s]] = "none"
    /\ state' = [state EXCEPT ![s] = "cleaned"]
    /\ ResultsOf(s)
    /\ state[s] = "open" => results'[s] <= results[s]
    /\ UNCHANGED <<place, content, forced, epoch>>

Force(s) ==
    /\ state[s] # "none"
    /\ forced' \in {forced \cup {s}, forced \ {s}}
    /\ UNCHANGED <<state, place, results, content, epoch>>

\* What a workspace may come back as.
ComesBackAs(st) ==
    CASE st = "none" -> {"none"}
      [] st = "open" -> {"none", "open"}
      [] OTHER       -> {"none", "open", "cleaned"}

Restart ==
    /\ epoch' = epoch + 1
    /\ forced' = {}
    /\ content' = content
    /\ \A s \in Sessions :
         /\ state'[s] \in ComesBackAs(state[s])
         /\ state'[s] # "none" => place'[s] = place[s]
         /\ state[s] = "open" => results'[s] <= results[s]

Next ==
    \/ \E p \in Places : Make(p) \/ Commit(p) \/ Drop(p)
    \/ \E s \in Sessions : \/ \E p \in Places \cup {Source} : Bind(s, p)
                           \/ Verify(s) \/ Clean(s) \/ Force(s)
    \/ Restart

Spec == Init /\ [][Next]_vars
=============================================================================
