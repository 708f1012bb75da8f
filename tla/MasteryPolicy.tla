--------------------------- MODULE MasteryPolicy ---------------------------
(* The pure lifecycle policy of one mastery slot: decide_lifecycle and the
   frozen lifecycle_policy_v1 that it calls (exam_mem/lifecycle/
   state_machine.py and policy_v1.py), the shape check and the replacement
   rules of the applier (exam_mem/lifecycle/applier.py).

   An event is named by the position at which its author issued it, so that
   the order of two names is the order of their occurred_at; ev maps a name
   to the content of the event.  A policy input is a record
       [e, cand, hist, rel]
   of the current event, the candidate snapshots (version -> row), the names
   of the historical events and the resolved relation.

   Support is computed in integers: confidences and thresholds are
   percentages, and an event's weight stands for its difficulty factor times
   its error factor times 2^(occurred_at / half-life).  The time decay of
   score_mastery_event is that last factor divided by a factor all the events
   of one evaluation share, which cancels in every ratio the gate compares. *)
EXTENDS Integers, FiniteSets, FiniteSetsExt

CONSTANTS
    MinEvents,      \* minimum_directional_event_count
    MinSessions,    \* minimum_session_count
    MinConfidence,  \* minimum_candidate_confidence, in percent
    MinMargin       \* minimum_support_margin, in percent

ASSUME PolicyAssumption ==
    /\ MinEvents \in Nat \ {0}
    /\ MinSessions \in Nat \ {0}
    /\ MinConfidence \in 0..100
    /\ MinMargin \in 0..100

(***************************************************************************)
(* Values, relations and decisions.                                        *)
(***************************************************************************)
High == [level |-> "high", score |-> 100]
Low  == [level |-> "low",  score |-> 0]

NoRelation == [kind |-> "none", targets |-> {}]

Decision(op, targets) == [op |-> op, targets |-> targets]
NoOp  == Decision("no_op", {})
Raise == Decision("raise", {})     \* any exception that leaves the policy

IsAnswer(ev, e) == ev[e].kind = "answer"

\* The typed candidate that accompanies the event: an answer proposes one of
\* the two extreme values, a correction the value its author confirmed.
Proposed(ev, e) ==
    IF ~IsAnswer(ev, e) THEN ev[e].proposes
    ELSE IF ev[e].correct THEN High ELSE Low

ActiveIn(cand)    == {v \in DOMAIN cand : cand[v].state = "active"}
ContestedIn(cand) == {v \in DOMAIN cand : cand[v].state = "contested"}

\* Answers that stay L1-only whatever the slot holds.
NonMutating(ev, e) ==
    /\ IsAnswer(ev, e)
    /\ \/ ev[e].temporary
       \/ ev[e].conf < MinConfidence
       \/ ev[e].careless

\* The relation found before the first decision; a recomputation keeps it.
Relation(ev, e, cand) ==
    IF DOMAIN cand = {} \/ NonMutating(ev, e) THEN NoRelation
    ELSE IF ~IsAnswer(ev, e)
         THEN [kind |-> "contradictory", targets |-> {ev[e].target}]
    ELSE [kind |-> IF \E v \in ActiveIn(cand) :
                        /\ DOMAIN cand = {v}
                        /\ cand[v].val.score = Proposed(ev, e).score
                   THEN "duplicate" ELSE "contradictory",
          targets |-> ActiveIn(cand)]

(***************************************************************************)
(* Directional support.                                                    *)
(***************************************************************************)
\* Faulty variant: the two directions are swapped.
SpeaksForRivalSwapped(ev, x, current, rival) ==
    (rival.score > current.score) # ev[x].correct

\* The branch an answer speaks for, between two values of different score.
SpeaksForRival(ev, x, current, rival) ==
    (rival.score > current.score) = ev[x].correct

\* The qualifying events of one direction.
Side(ev, in, current, rival, forRival) ==
    {x \in in.hist \cup {in.e} :
        /\ ~ev[x].temporary
        /\ SpeaksForRival(ev, x, current, rival) = forRival}

Weight(ev, S)   == MapThenSumSet(LAMBDA x : ev[x].weight, S)
Mass(ev, S)     == MapThenSumSet(LAMBDA x : ev[x].conf * ev[x].weight, S)
Sessions(ev, S) == {ev[x].session : x \in S}

\* The event, session, confidence and margin gate for one side.
IsStableWinner(ev, side, other) ==
    LET mass  == Mass(ev, side)
        total == mass + Mass(ev, other)
    IN  /\ Cardinality(side) >= MinEvents
        /\ Cardinality(Sessions(ev, side)) >= MinSessions
        /\ mass >= MinConfidence * Weight(ev, side)
        /\ total > 0
        /\ 100 * (mass - Mass(ev, other)) >= MinMargin * total

(***************************************************************************)
(* The mastery conflict rules.                                             *)
(***************************************************************************)
TheOne(S) == CHOOSE v \in S : TRUE

\* Every condition under which evaluate_mastery_policy raises ValueError.
Malformed(ev, in) ==
    LET active    == ActiveIn(in.cand)
        contested == ContestedIn(in.cand)
        current   == in.cand[TheOne(active)]
        branch    == in.cand[TheOne(contested)]
        proposed  == Proposed(ev, in.e).score - current.val.score
    IN  \/ in.rel.kind # "contradictory"
        \/ Cardinality(active) # 1
        \/ Cardinality(contested) > 1
        \/ IF contested = {} THEN proposed = 0
           ELSE \/ branch.group # current.group
                \/ branch.val.score = current.val.score
                \/ /\ proposed # 0
                   /\ proposed * (branch.val.score - current.val.score) <= 0
        \/ \E v \in active \cup contested : ~(in.cand[v].prov \subseteq in.hist)
        \/ \E x \in in.hist : ~IsAnswer(ev, x) \/ x > in.e

\* Faulty variant: the winner replaces the active row and leaves the branch.
SupersededByWinner(in) == ActiveIn(in.cand)

\* A stable rival replaces both sides of the dispute.
Superseded(in) == ActiveIn(in.cand) \cup ContestedIn(in.cand)

\* The early returns of _decide_mastery_result for temporary and for
\* low-confidence answers are those of NonMutating, tested before.
EvaluateMastery(ev, in) ==
    LET active    == ActiveIn(in.cand)
        contested == ContestedIn(in.cand)
        current   == in.cand[TheOne(active)].val
        rival     == IF contested = {} THEN Proposed(ev, in.e)
                     ELSE in.cand[TheOne(contested)].val
        rivals    == Side(ev, in, current, rival, TRUE)
        defenders == Side(ev, in, current, rival, FALSE)
    IN  CASE Malformed(ev, in) -> Raise
          [] /\ ~Malformed(ev, in)
             /\ IsStableWinner(ev, rivals, defenders) ->
                Decision("supersede", Superseded(in))
          [] OTHER ->
             IF contested = {}
             THEN Decision(IF current.level \in {"low", "improving"}
                           THEN "merge" ELSE "contested", active)
             ELSE Decision("merge",
                    IF IsStableWinner(ev, defenders, rivals)
                    THEN active \cup contested
                    ELSE IF in.e \in rivals THEN contested ELSE active)

\* One active row of the proposed score: independent duplicate evidence.
SameEvidence(ev, in) ==
    \E v \in ActiveIn(in.cand) :
        /\ DOMAIN in.cand = {v}
        /\ in.cand[v].val.score = Proposed(ev, in.e).score

DecideSame(in) ==
    IF in.rel.kind = "duplicate" /\ in.rel.targets = DOMAIN in.cand
    THEN Decision("merge", DOMAIN in.cand)
    ELSE Raise

DecideCorrection(ev, in) ==
    LET t == ev[in.e].target
    IN  IF t \notin DOMAIN in.cand THEN Raise
        ELSE Decision(
            CASE ev[in.e].conf < MinConfidence -> "contested"
              [] /\ ev[in.e].conf >= MinConfidence
                 /\ Proposed(ev, in.e) = in.cand[t].val -> "invalidate"
              [] OTHER -> "supersede", {t})

Decide(ev, in) ==
    IF \E v \in DOMAIN in.cand : in.e \in in.cand[v].prov THEN NoOp
    ELSE IF ~IsAnswer(ev, in.e)      THEN DecideCorrection(ev, in)
    ELSE IF NonMutating(ev, in.e)    THEN NoOp
    ELSE IF DOMAIN in.cand = {}      THEN Decision("add", {})
    ELSE IF SameEvidence(ev, in)     THEN DecideSame(in)
    ELSE EvaluateMastery(ev, in)

(***************************************************************************)
(* What the applier makes of a decision.                                   *)
(***************************************************************************)
Replacing == {"merge", "supersede"}

OnlyBranch(in, d) == d.op = "merge" /\ \E v \in ContestedIn(in.cand) : d.targets = {v}

\* _validate_operation_shape: what it refuses aborts the transaction.
ShapeOK(in, d) ==
    /\ d.op = "contested" => d.targets \subseteq ActiveIn(in.cand)
    /\ d.op \in Replacing /\ ~OnlyBranch(in, d) => ActiveIn(in.cand) \subseteq d.targets
    /\ \A t \in d.targets : in.e \notin in.cand[t].prov

\* State, group, value and provenance of the row that replaces the targets.
\* A merge of one disputed row stays in its dispute; anything else ends it.
StaysDisputed(in, d) ==
    /\ d.op = "merge"
    /\ Cardinality(d.targets) = 1
    /\ \A t \in d.targets : in.cand[t].group # 0

ReplacementState(in, d) ==
    IF StaysDisputed(in, d) THEN in.cand[TheOne(d.targets)].state ELSE "active"

\* Faulty variant: a replacement never stays in the dispute's group.
ReplacementGroupDropped(in, d) == 0

ReplacementGroup(in, d) ==
    IF StaysDisputed(in, d) THEN in.cand[TheOne(d.targets)].group ELSE 0

ReplacementValue(ev, in, d) ==
    LET active    == d.targets \cap ActiveIn(in.cand)
        contested == d.targets \cap ContestedIn(in.cand)
    IN  IF d.op = "merge"
        THEN in.cand[IF active # {} THEN TheOne(active) ELSE Min(d.targets)].val
        ELSE IF contested # {} THEN in.cand[Min(contested)].val
        ELSE Proposed(ev, in.e)

\* Faulty variant: the new row keeps its targets' evidence, not the event.
CombinedProvenanceOfTargets(in, d) == UNION {in.cand[t].prov : t \in d.targets}

CombinedProvenance(in, d) ==
    (UNION {in.cand[t].prov : t \in d.targets}) \cup {in.e}
=============================================================================
