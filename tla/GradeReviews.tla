--------------------------- MODULE GradeReviews ---------------------------
(* Disputes of one grade and their dispositions, next to the requests of      *)
(* Assessments: a learner disputes the grade of a checkpoint, and an          *)
(* administrator disposes of it (upholds or overturns it, which differ only   *)
(* in what they carry). The chain of review events is append-only; a          *)
(* disposition is decided on the chain as it was read. Where the code asks    *)
(* for the oldest event to be a dispute the model asks for a dispute: a       *)
(* disposition is requested after the dispute it answers.                     *)
EXTENDS Assessments, FiniteSets

CONSTANTS Reviewed,     \* the practice session whose first answer is reviewed
          Keys,         \* idempotency keys of the clients
          MaxReviews    \* bound: review requests

ASSUME ReviewsAssumption == Reviewed \in Sessions /\ MaxReviews \in Nat

VARIABLES chain,        \* grade_review_events of one review_chain_id
          deciding,     \* dispositions that were let through and not yet appended
          asked         \* number of review requests

reviewVars == <<chain, deciding, asked>>

Event == [key : Keys, action : {"dispute", "dispose"}]

ReviewTypeOK ==
    /\ TypeOK
    /\ chain \subseteq Event /\ \A e, f \in chain : e.key = f.key => e = f
    /\ deciding \subseteq Event
    /\ asked \in 0..MaxReviews

ReviewInit == Init /\ chain = {} /\ deciding = {} /\ asked = 0

Disputes == {e \in chain : e.action = "dispute"}
Dispositions == chain \ Disputes
IsKnown(key) == \E e \in chain : e.key = key

\* append: the first event of a key stays, and a repetition gets it or a conflict
AppendedAgain(e) == chain \union {e}    \* Faulty variant: without ON CONFLICT
Appended(e) == IF IsKnown(e.key) THEN chain ELSE chain \union {e}

Ask == asked < MaxReviews /\ asked' = asked + 1

\* The checkpoint has a grade; nothing is asked of the chain
Dispute(key) ==
    /\ Ask /\ practice[Reviewed].finished >= 1
    /\ chain' = Appended([key |-> key, action |-> "dispute"])
    /\ UNCHANGED <<vars, deciding>>

\* "Dispute not found" and "Review is closed"
IsOpen(key) == Disputes # {} /\ (Cardinality(chain) = 1 \/ IsKnown(key))

Dispose(key) ==
    /\ Ask /\ IsOpen(key)
    /\ deciding' = deciding \union {[key |-> key, action |-> "dispose"]}
    /\ UNCHANGED <<vars, chain>>

AppendDisposition(e) ==
    /\ chain' = Appended(e)
    /\ deciding' = deciding \ {e}
    /\ UNCHANGED <<vars, asked>>

ReviewStep ==
    \/ \E key \in Keys : Dispute(key) \/ Dispose(key)
    \/ \E e \in deciding : AppendDisposition(e)

ReviewNext == (Next /\ UNCHANGED reviewVars) \/ ReviewStep

ReviewSpec == ReviewInit /\ [][ReviewNext]_<<vars, reviewVars>>
FairReviewSpec == ReviewSpec /\ Fairness

-----------------------------------------------------------------------------
(* Properties *)

\* A dispute without a disposition can still get one, by a request with a new
\* key: what "Review is closed" refuses has been disposed of
DisputeCanBeDisposed == Disputes # {} /\ Dispositions = {} => Cardinality(chain) = 1

=============================================================================
