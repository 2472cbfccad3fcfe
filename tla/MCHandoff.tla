------------------------------ MODULE MCHandoff ------------------------------
(* Instances of Handoff for TLC. *)
EXTENDS Handoff

CONSTANTS First, Second     \* the jobs of the instance below

\* One job wherever the session works, OpenCode's requests in a session that
\* works in the caller's directory, and a second job there or after a cleanup.
InOrder ==
    /\ status[Second] # "none" => status[First] # "none"
    /\ \A c \in Callers, s \in Sessions :
         /\ seen[c] # NoRequest \/ asked[s] # <<>> =>
              record[s] \in {"none", "direct"} /\ status[Second] = "none"
         /\ status[Second] # "none" => record[s] \in {"direct", "cleaned"}
=============================================================================
