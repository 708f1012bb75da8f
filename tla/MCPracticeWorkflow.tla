------------------------- MODULE MCPracticeWorkflow -------------------------
(* Small instances of PracticeWorkflow for TLC: one session of three requests,
   the opening one and two answers. *)
EXTENDS PracticeWorkflow, TLC

CONSTANTS a1, a2, start

\* Both answers reply to the opening question.
Siblings == (a1 :> start) @@ (a2 :> start)

\* A right answer has one diagnosis; a wrong one is what the analyzer says.
RightOrWrong == [right |-> {"no_error"}, wrong |-> {"concept"}]
=============================================================================
