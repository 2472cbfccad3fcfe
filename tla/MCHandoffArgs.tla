--------------------------- MODULE MCHandoffArgs ---------------------------
(* Instances of HandoffArgs for TLC. *)
EXTENDS HandoffArgs

\* Every limit, the value below it and the one above; every selector of up to
\* four runes, a letter, a blank or a slash; pairs without a half, with blanks
\* around one, or with slashes.
MCValues ==
    [prompt |-> {"", "task"}, async |-> BOOLEAN, wait |-> {Omitted, -1, 0, 300, 301},
     finalChars |-> {-1, 0, 1, 4000, 4001}, profile |-> {"", "none", "diagnosis", "other"},
     model |-> UNION {[1 .. n -> {"a", " ", "/"}] : n \in 0 .. 4},
     pair |-> {NoModel, [provider |-> <<" ">>, model |-> <<>>], [provider |-> <<"p">>, model |-> <<>>],
               [provider |-> <<" ", "p">>, model |-> <<"m", "/", "n">>],
               [provider |-> <<"p", "/", "q">>, model |-> <<"m">>]},
     permission |-> {"", "inherit", "ask", "deny", "allow", "sudo"},
     isolation |-> {"", "worktree", "chroot"}, createDirectory |-> BOOLEAN,
     key |-> {"", "key", "too long"}, timeout |-> {-1, 0, 86400, 86401}, agent |-> {"", "planner"}]
=============================================================================
