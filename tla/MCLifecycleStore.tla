-------------------------- MODULE MCLifecycleStore --------------------------
(* Small instances of LifecycleStore for TLC. *)
EXTENDS LifecycleStore, TLC

Answer(correct, session, conf, weight) ==
    [correct |-> correct, session |-> session, conf |-> conf, weight |-> weight,
     temporary |-> FALSE, careless |-> FALSE]

None == {}

\* Confident answers of both verdicts, each verdict from a session of its own.
RightAndWrong == {Answer(TRUE, 1, 100, 1), Answer(FALSE, 2, 100, 1)}

\* The same, and a low-confidence answer: it stays in L1 by itself, but weighs
\* in the support of later answers.
MixedAnswers == RightAndWrong \cup {Answer(FALSE, 2, 50, 2)}

\* Answers of unequal weight, each verdict from two sessions.
TwoSessions ==
    {Answer(TRUE, 1, 100, 2), Answer(TRUE, 2, 100, 3),
     Answer(FALSE, 1, 100, 2), Answer(FALSE, 2, 80, 3)}

\* Confident and uncertain corrections, with and without a replacement.
Denials == {[conf |-> 100, replaces |-> FALSE]}
Substitutions == {[conf |-> 100, replaces |-> TRUE]}
SomeCorrections ==
    Denials \cup Substitutions \cup {[conf |-> 50, replaces |-> FALSE]}
Improving == {[level |-> "improving", score |-> 50]}

Symmetry == Permutations(Writers)
=============================================================================
