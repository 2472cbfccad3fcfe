---------------------------- MODULE MCCheckShape ----------------------------
(* Instances of CheckShape for TLC. *)
EXTENDS CheckShape

Part(type, text, status, tool) == [type |-> type, text |-> text, status |-> status, tool |-> tool]
\* Text beside a tool call, an answer written over time, and what is no answer.
MCPartKinds == {Part("text", "narration", "", ""), Part("text", "answer", "running", ""),
                Part("reasoning", "thought", "", ""), Part("", "log", "", "bash")}
\* Texts of one and three runes, of one and two bytes.
MCSpelling == "" :> <<>> @@ "narration" :> <<<<"n", 2>>, <<"a", 1>>, <<"r", 1>>>>
              @@ "answer" :> <<<<"a", 2>>>> @@ "thought" :> <<<<"t", 1>>>>
              @@ "log" :> <<<<"l", 1>>>> @@ "prompt" :> <<<<"p", 1>>>>
=============================================================================
