------------------------------ MODULE MCRunner ------------------------------
(* Instances of Runner for TLC. *)
EXTENDS Runner

\* Nothing has happened to a runner but what it does itself, its child's end
\* and its own death.
Quiet(r) == events[r] = <<>> /\ ~sig[r] /\ timer[r] # "fired" /\ ctx[r] = "live"

\* One runner to which everything happens, or several that are quiet.
OneOrQuiet ==
    Cardinality({r \in Runners : pc[r] # "off"}) > 1 => \A r \in Runners : Quiet(r)
=============================================================================
