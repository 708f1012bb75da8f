------------------------ MODULE MasteryPolicyProofs ------------------------
(* What every decision of the lifecycle policy has in common, whatever the
   thresholds, the events and their weights: the rows it names exist, and where
   the applier picks one of several there is exactly one to pick. *)
EXTENDS MasteryPolicy, FiniteSetTheorems, WellFoundedInduction, TLAPS

Operations == {"no_op", "raise", "add", "merge", "supersede", "invalidate", "contested"}

\* The targets of a decision are candidates; where the applier picks one of
\* several rows, there is one to pick.
DecisionOK(in, d) ==
    /\ d = Decision(d.op, d.targets)
    /\ d.op \in Operations
    /\ d.targets \subseteq DOMAIN in.cand
    /\ d.op \in {"contested", "invalidate"} => \E t \in d.targets : d.targets = {t}
    /\ d.op = "merge" /\ d.targets \cap ActiveIn(in.cand) = {} => \E t \in d.targets : d.targets = {t}
    /\ d.op = "supersede" /\ d.targets \cap ContestedIn(in.cand) # {} =>
            \E t \in d.targets : d.targets \cap ContestedIn(in.cand) = {t}

\* One is more than none.
LEMMA OneIsSome ==
    ASSUME NEW S, Cardinality(S) = 1
    PROVE  S # {}
<1>1. Cardinality({}) = 0
    BY FS_EmptySet
<1> QED
    BY <1>1

\* A set of at most one element is empty or a singleton.
LEMMA SingleOrNone ==
    ASSUME NEW S, IsFiniteSet(S), Cardinality(S) <= 1, S # {}
    PROVE  \E t : S = {t}
<1>1. Cardinality(S) \in Nat
    BY FS_CardinalityType
<1>2. Cardinality(S) # 0
    BY FS_EmptySet
<1>3. Cardinality(S) = 1
    BY <1>1, <1>2
<1> QED
    BY <1>3, FS_Singleton

\* The rows the policy tells apart are finitely many when the candidates are.
LEMMA CandidateSets ==
    ASSUME NEW cand, IsFiniteSet(DOMAIN cand)
    PROVE  /\ IsFiniteSet(ActiveIn(cand)) /\ ActiveIn(cand) \subseteq DOMAIN cand
           /\ IsFiniteSet(ContestedIn(cand)) /\ ContestedIn(cand) \subseteq DOMAIN cand
           /\ ActiveIn(cand) \cap ContestedIn(cand) = {}
<1>1. /\ ActiveIn(cand) \subseteq DOMAIN cand
      /\ ContestedIn(cand) \subseteq DOMAIN cand
      /\ ActiveIn(cand) \cap ContestedIn(cand) = {}
    BY DEF ActiveIn, ContestedIn
<1> QED
    BY <1>1, FS_Subset

\* The mastery rules only ever name the one active row and its one branch.
LEMMA MasteryDecision ==
    ASSUME NEW ev, NEW in, IsFiniteSet(DOMAIN in.cand),
           EvaluateMastery(ev, in).op # "raise"
    PROVE  DecisionOK(in, EvaluateMastery(ev, in))
<1> DEFINE active == ActiveIn(in.cand)
           contested == ContestedIn(in.cand)
           d == EvaluateMastery(ev, in)
<1>1. ~Malformed(ev, in)
    BY DEF EvaluateMastery, Raise, Decision
<1>2. /\ IsFiniteSet(active) /\ active \subseteq DOMAIN in.cand
      /\ IsFiniteSet(contested) /\ contested \subseteq DOMAIN in.cand
      /\ active \cap contested = {}
    BY CandidateSets
<1>3. PICK a : active = {a}
    <2>1. Cardinality(active) = 1
        BY <1>1 DEF Malformed
    <2> QED
        BY <2>1, <1>2, FS_Singleton
<1>4. contested = {} \/ \E b : contested = {b}
    <2>1. ~(Cardinality(contested) > 1)
        BY <1>1 DEF Malformed
    <2>2. Cardinality(contested) \in Nat
        BY <1>2, FS_CardinalityType
    <2>3. Cardinality(contested) <= 1
        BY <2>1, <2>2
    <2> QED
        BY <2>3, <1>2, SingleOrNone
<1>5. \/ d = Decision("supersede", active \cup contested)
      \/ d = Decision("contested", active)
      \/ d = Decision("merge", active)
      \/ d = Decision("merge", active \cup contested)
      \/ d = Decision("merge", contested) /\ contested # {}
    <2> HIDE DEF active, contested
    <2> QED
        BY <1>1 DEF EvaluateMastery, Superseded, active, contested
<1> SUFFICES DecisionOK(in, d)
    OBVIOUS
<1> HIDE DEF active, contested, d
<1>6. CASE d = Decision("supersede", active \cup contested)
    BY <1>2, <1>4, <1>6 DEF DecisionOK, Operations, Decision, active, contested
<1>7. CASE d = Decision("contested", active)
    BY <1>2, <1>3, <1>7 DEF DecisionOK, Operations, Decision, active
<1>8. CASE d = Decision("merge", active)
    BY <1>2, <1>3, <1>8 DEF DecisionOK, Operations, Decision, active
<1>9. CASE d = Decision("merge", active \cup contested)
    BY <1>2, <1>3, <1>9 DEF DecisionOK, Operations, Decision, active
<1>10. CASE d = Decision("merge", contested) /\ contested # {}
    BY <1>2, <1>4, <1>10 DEF DecisionOK, Operations, Decision
<1> QED
    BY <1>5, <1>6, <1>7, <1>8, <1>9, <1>10

\* A correction names the one row it corrects.
LEMMA CorrectionDecision ==
    ASSUME NEW ev, NEW in, DecideCorrection(ev, in).op # "raise"
    PROVE  DecisionOK(in, DecideCorrection(ev, in))
<1> DEFINE t == ev[in.e].target
           d == DecideCorrection(ev, in)
<1>1. t \in DOMAIN in.cand
    BY DEF DecideCorrection, Raise, Decision
<1>2. \E op \in {"contested", "invalidate", "supersede"} : d = Decision(op, {t})
    BY <1>1 DEF DecideCorrection
<1>3. d.targets = {t} /\ d.op \in {"contested", "invalidate", "supersede"}
      /\ d = Decision(d.op, d.targets)
    BY <1>2 DEF Decision
<1> SUFFICES DecisionOK(in, d)
    OBVIOUS
<1> HIDE DEF t, d
<1>4. d.targets \cap ContestedIn(in.cand) # {} => d.targets \cap ContestedIn(in.cand) = {t}
    BY <1>3
<1> QED
    BY <1>1, <1>3, <1>4 DEF DecisionOK, Operations

\* Duplicate evidence merges into the only candidate.
LEMMA SameEvidenceDecision ==
    ASSUME NEW ev, NEW in, SameEvidence(ev, in), DecideSame(in).op # "raise"
    PROVE  DecisionOK(in, DecideSame(in))
<1> DEFINE d == DecideSame(in)
<1>1. d = Decision("merge", DOMAIN in.cand)
    BY DEF DecideSame, Raise, Decision
<1>2. \E v : DOMAIN in.cand = {v}
    BY DEF SameEvidence
<1>3. d.op = "merge" /\ d.targets = DOMAIN in.cand /\ d = Decision(d.op, d.targets)
    BY <1>1 DEF Decision
<1> SUFFICES DecisionOK(in, d)
    OBVIOUS
<1> HIDE DEF d
<1> QED
    BY <1>2, <1>3 DEF DecisionOK, Operations

\* Whatever decide_lifecycle decides for a mastery slot, the rows it names are
\* among the candidates, and where the applier takes "the" row of a set of
\* targets, the set has exactly one.
THEOREM DecideOK ==
    ASSUME NEW ev, NEW in, IsFiniteSet(DOMAIN in.cand), Decide(ev, in).op # "raise"
    PROVE  DecisionOK(in, Decide(ev, in))
<1> DEFINE d == Decide(ev, in)
<1>1. CASE d = NoOp \/ d = Decision("add", {})
    BY <1>1 DEF DecisionOK, Operations, Decision, NoOp
<1>2. CASE d = DecideCorrection(ev, in)
    BY <1>2, CorrectionDecision
<1>3. CASE d = DecideSame(in) /\ SameEvidence(ev, in)
    BY <1>3, SameEvidenceDecision
<1>4. CASE d = EvaluateMastery(ev, in)
    BY <1>4, MasteryDecision
<1> QED
    BY <1>1, <1>2, <1>3, <1>4 DEF Decide

(***************************************************************************)
(* Slots that only answers have written.                                   *)
(***************************************************************************)
\* Such a slot has an active row from its first row on; a contested branch has it
\* as its rival, in a group of their own, and a group is left by both at once.
AnswersWrote(cand) ==
    /\ \A v \in DOMAIN cand : cand[v].val \in {High, Low}
    /\ DOMAIN cand # {} => \E a : ActiveIn(cand) = {a}
    /\ \A b \in ContestedIn(cand) :
        /\ ContestedIn(cand) = {b}
        /\ cand[b].group # 0
        /\ \A a \in ActiveIn(cand) :
            cand[a].group = cand[b].group /\ cand[a].val # cand[b].val
    /\ \A a \in ActiveIn(cand) : cand[a].group # 0 => ContestedIn(cand) # {}

OnlyOpen(cand) == \A v \in DOMAIN cand : cand[v].state \in {"active", "contested"}

\* What the policy can decide on an answer: it never takes one side of a dispute
\* for the whole, and opens a dispute only where there is none.
AnswerDecision(ev, in, d) ==
    \/ d.op \in {"no_op", "add"}
    \/ /\ d.op = "supersede" /\ d.targets # {}
       /\ d.targets = ActiveIn(in.cand) \cup ContestedIn(in.cand)
    \/ /\ d.op = "merge" /\ d.targets # {}
       /\ d.targets \in {ActiveIn(in.cand), ContestedIn(in.cand),
                         ActiveIn(in.cand) \cup ContestedIn(in.cand)}
    \/ /\ d.op = "contested"
       /\ d.targets = ActiveIn(in.cand) /\ ContestedIn(in.cand) = {}
       /\ \A a \in ActiveIn(in.cand) : in.cand[a].val # Proposed(ev, in.e)

\* The two values of answers, and what tells them apart.
LEMMA AnswerValues ==
    /\ High # Low /\ High.score = 100 /\ Low.score = 0
    /\ \A x, y \in {High, Low} : x = y <=> x.score = y.score
    /\ \A x, y, z \in {High, Low} : x # z /\ y # z =>
            (x.score - z.score) * (y.score - z.score) > 0
<1>1. High.score = 100 /\ Low.score = 0
    BY DEF High, Low
<1>2. \A x, y \in {High, Low} : x = y <=> x.score = y.score
    BY <1>1
<1>3. ASSUME NEW x \in {High, Low}, NEW y \in {High, Low}, NEW z \in {High, Low},
             x # z, y # z
      PROVE  (x.score - z.score) * (y.score - z.score) > 0
    <2>1. \/ x = High /\ y = High /\ z = Low
          \/ x = Low /\ y = Low /\ z = High
        BY <1>3
    <2>2. (100 - 0) * (100 - 0) > 0 /\ (0 - 100) * (0 - 100) > 0
        OBVIOUS
    <2> QED
        BY <1>1, <2>1, <2>2
<1> QED
    BY <1>1, <1>2, <1>3

\* An answer proposes one of the two.
LEMMA AnswerProposes ==
    ASSUME NEW ev, NEW e, IsAnswer(ev, e)
    PROVE  Proposed(ev, e) \in {High, Low}
BY DEF Proposed

\* What is not malformed has one active row, to which an answer without a dispute is
\* opposed.
LEMMA Opposed ==
    ASSUME NEW ev, NEW in, AnswersWrote(in.cand), IsAnswer(ev, in.e), ~Malformed(ev, in)
    PROVE  /\ \E a : ActiveIn(in.cand) = {a}
           /\ ContestedIn(in.cand) = {} =>
                \A a \in ActiveIn(in.cand) : in.cand[a].val # Proposed(ev, in.e)
<1>1. ActiveIn(in.cand) # {}
    <2>1. Cardinality(ActiveIn(in.cand)) = 1
        BY DEF Malformed
    <2> QED
        BY <2>1, OneIsSome
<1>2. PICK a : ActiveIn(in.cand) = {a}
    BY <1>1 DEF AnswersWrote, ActiveIn
<1>3. TheOne(ActiveIn(in.cand)) = a
    BY <1>2 DEF TheOne
<1>4. ASSUME ContestedIn(in.cand) = {}, in.cand[a].val = Proposed(ev, in.e)
      PROVE  FALSE
    <2>1. in.cand[a].val.score \in {0, 100}
        BY <1>4, AnswerProposes, AnswerValues
    <2>2. Proposed(ev, in.e).score - in.cand[a].val.score = 0
        BY <1>4, <2>1
    <2> QED
        BY <1>3, <1>4, <2>2 DEF Malformed
<1> QED
    BY <1>2, <1>4

\* Whatever is decided on an answer has that form.
LEMMA AnswerDecides ==
    ASSUME NEW ev, NEW in, AnswersWrote(in.cand), IsAnswer(ev, in.e),
           Decide(ev, in).op # "raise"
    PROVE  AnswerDecision(ev, in, Decide(ev, in))
<1> DEFINE active == ActiveIn(in.cand)
           contested == ContestedIn(in.cand)
           d == Decide(ev, in)
<1> SUFFICES AnswerDecision(ev, in, d)
    OBVIOUS
<1>1. CASE d = NoOp \/ d = Decision("add", {})
    BY <1>1 DEF AnswerDecision, NoOp, Decision
<1>2. CASE d = DecideSame(in) /\ SameEvidence(ev, in)
    <2>1. d = Decision("merge", DOMAIN in.cand)
        BY <1>2 DEF DecideSame, Raise, Decision
    <2>2. DOMAIN in.cand = active /\ active # {}
        BY <1>2 DEF SameEvidence, ActiveIn
    <2> HIDE DEF d
    <2> QED
        BY <2>1, <2>2 DEF AnswerDecision, Decision
<1>3. CASE d = EvaluateMastery(ev, in)
    <2>1. ~Malformed(ev, in)
        <3>1. EvaluateMastery(ev, in).op # "raise"
            BY <1>3
        <3> QED
            BY <3>1 DEF EvaluateMastery, Raise, Decision
    <2>2. \/ d = Decision("supersede", active \cup contested)
          \/ d = Decision("contested", active) /\ contested = {}
          \/ d = Decision("merge", active)
          \/ d = Decision("merge", active \cup contested)
          \/ d = Decision("merge", contested) /\ contested # {}
        <3> HIDE DEF active, contested
        <3> QED
            BY <1>3, <2>1 DEF EvaluateMastery, Superseded, active, contested
    <2>3. /\ active # {}
          /\ contested = {} => \A a \in active : in.cand[a].val # Proposed(ev, in.e)
        BY <2>1, Opposed
    <2> HIDE DEF d
    <2> QED
        BY <2>2, <2>3 DEF AnswerDecision, Decision
<1>4. \/ d = DecideSame(in) /\ SameEvidence(ev, in)
      \/ d = EvaluateMastery(ev, in)
      \/ d = NoOp
      \/ d = Decision("add", {})
    BY DEF Decide
<1> QED
    BY <1>1, <1>2, <1>3, <1>4

\* What may be put to the policy for an answer: the open rows of a slot of answers,
\* the relation found for them, and a history of earlier answers that accounts for
\* the evidence of the rows and not yet for this one.
AnswerInput(ev, in) ==
    /\ AnswersWrote(in.cand) /\ OnlyOpen(in.cand)
    /\ IsAnswer(ev, in.e) /\ in.e \notin in.hist
    /\ in.rel = Relation(ev, in.e, in.cand)
    /\ \A x \in in.hist : IsAnswer(ev, x) /\ ~(x > in.e)
    /\ \A v \in DOMAIN in.cand : in.cand[v].prov \subseteq in.hist

\* Of such an input nothing is malformed, unless it is a duplicate.
LEMMA WellFormedInput ==
    ASSUME NEW ev, NEW in, AnswerInput(ev, in), ~NonMutating(ev, in.e),
           DOMAIN in.cand # {}, ~SameEvidence(ev, in)
    PROVE  ~Malformed(ev, in)
<1> DEFINE active == ActiveIn(in.cand)
           contested == ContestedIn(in.cand)
<1>1. PICK a : active = {a} /\ a \in DOMAIN in.cand
    BY DEF AnswerInput, AnswersWrote, ActiveIn
<1>2. /\ TheOne(active) = a /\ Cardinality(active) = 1
      /\ in.cand[a].val \in {High, Low} /\ Proposed(ev, in.e) \in {High, Low}
    BY <1>1, FS_Singleton, AnswerProposes DEF TheOne, AnswerInput, AnswersWrote
<1>3. in.rel.kind = "contradictory"
    BY DEF AnswerInput, Relation, SameEvidence
<1>4. Cardinality(contested) <= 1 /\ Cardinality(contested) \in Nat
    <2>1. contested = {} \/ \E b : contested = {b}
        BY DEF AnswerInput, AnswersWrote
    <2>2. CASE contested = {}
        BY <2>2, FS_EmptySet
    <2>3. CASE \E b : contested = {b}
        <3>1. PICK b : contested = {b}
            BY <2>3
        <3>2. Cardinality(contested) = 1
            BY <3>1, FS_Singleton
        <3> QED
            BY <3>2
    <2> QED
        BY <2>1, <2>2, <2>3
<1>5. \A v \in active \cup contested : in.cand[v].prov \subseteq in.hist
    BY DEF AnswerInput, ActiveIn, ContestedIn
<1>6. \A x \in in.hist : IsAnswer(ev, x) /\ ~(x > in.e)
    BY DEF AnswerInput
<1>7. ASSUME contested = {}
      PROVE  Proposed(ev, in.e).score - in.cand[a].val.score # 0
    <2>1. DOMAIN in.cand = {a}
        BY <1>1, <1>7 DEF AnswerInput, OnlyOpen, ActiveIn, ContestedIn
    <2>2. in.cand[a].val.score # Proposed(ev, in.e).score
        BY <1>1, <2>1 DEF SameEvidence
    <2> QED
        BY <1>2, <2>2, AnswerValues
<1>8. ASSUME contested # {}
      PROVE  LET b == TheOne(contested)
                 c == in.cand[a]
                 p == Proposed(ev, in.e).score - c.val.score
             IN  /\ in.cand[b].group = c.group
                 /\ in.cand[b].val.score # c.val.score
                 /\ p # 0 => ~(p * (in.cand[b].val.score - c.val.score) <= 0)
    <2>1. PICK b : contested = {b} /\ b \in DOMAIN in.cand
        BY <1>8 DEF AnswerInput, AnswersWrote, ContestedIn
    <2>2. TheOne(contested) = b
        BY <2>1 DEF TheOne
    <2>3. /\ in.cand[b].group = in.cand[a].group /\ in.cand[b].val # in.cand[a].val
          /\ in.cand[b].val \in {High, Low}
        BY <1>1, <2>1 DEF AnswerInput, AnswersWrote
    <2>4. in.cand[b].val.score # in.cand[a].val.score
        BY <1>2, <2>3, AnswerValues
    <2>5. PICK x, y, z : /\ x = Proposed(ev, in.e) /\ y = in.cand[b].val /\ z = in.cand[a].val
                         /\ x \in {High, Low} /\ y \in {High, Low} /\ z \in {High, Low}
        BY <1>2, <2>3
    <2>6. x.score \in {0, 100} /\ y.score \in {0, 100} /\ z.score \in {0, 100}
        BY <2>5, AnswerValues
    <2>7. x.score - z.score # 0 => x # z
        BY <2>6
    <2>8. x # z => (x.score - z.score) * (y.score - z.score) > 0
        BY <2>3, <2>5, AnswerValues
    <2>9. x.score - z.score # 0 => ~((x.score - z.score) * (y.score - z.score) <= 0)
        <3>1. x.score = 0 \/ x.score = 100
            BY <2>6
        <3>2. y.score = 0 \/ y.score = 100
            BY <2>6
        <3>3. z.score = 0 \/ z.score = 100
            BY <2>6
        <3> QED
            BY <2>7, <2>8, <3>1, <3>2, <3>3
    <2> QED
        BY <2>2, <2>3, <2>4, <2>5, <2>9
<1> QED
    BY <1>2, <1>3, <1>4, <1>5, <1>6, <1>7, <1>8 DEF Malformed

\* The decision on such an input has a legal shape.
LEMMA AnswerDecidable ==
    ASSUME NEW ev, NEW in, AnswerInput(ev, in)
    PROVE  Decide(ev, in).op # "raise" /\ ShapeOK(in, Decide(ev, in))
<1> DEFINE active == ActiveIn(in.cand)
           contested == ContestedIn(in.cand)
           d == Decide(ev, in)
<1>1. \A v \in DOMAIN in.cand : in.e \notin in.cand[v].prov
    BY DEF AnswerInput
<1>2. d.op # "raise"
    <2>1. CASE NonMutating(ev, in.e) \/ DOMAIN in.cand = {}
        BY <1>1, <2>1 DEF Decide, AnswerInput, NoOp, Decision
    <2>2. CASE /\ ~NonMutating(ev, in.e) /\ DOMAIN in.cand # {}
               /\ SameEvidence(ev, in)
        <3>1. in.rel = [kind |-> "duplicate", targets |-> active]
            BY <2>2 DEF AnswerInput, Relation, SameEvidence
        <3>2. active = DOMAIN in.cand
            BY <2>2 DEF SameEvidence, ActiveIn
        <3>3. d = DecideSame(in)
            BY <1>1, <2>2 DEF Decide, AnswerInput
        <3> QED
            BY <3>1, <3>2, <3>3 DEF DecideSame, Decision
    <2>3. CASE /\ ~NonMutating(ev, in.e) /\ DOMAIN in.cand # {}
               /\ ~SameEvidence(ev, in)
        <3>1. ~Malformed(ev, in)
            BY <2>3, WellFormedInput
        <3>2. d = EvaluateMastery(ev, in)
            BY <1>1, <2>3 DEF Decide, AnswerInput
        <3> QED
            BY <3>1, <3>2 DEF EvaluateMastery, Decision
    <2> QED
        BY <2>1, <2>2, <2>3
<1>3. AnswerDecision(ev, in, d)
    BY <1>2, AnswerDecides DEF AnswerInput
<1>4. active \subseteq DOMAIN in.cand /\ contested \subseteq DOMAIN in.cand
    BY DEF ActiveIn, ContestedIn
<1>5. contested = {} \/ \E b \in contested : contested = {b}
    BY DEF AnswerInput, AnswersWrote
<1>6. d.targets \subseteq DOMAIN in.cand \/ d.targets = {}
    <2>1. d.op \in {"no_op", "add"} => d.targets = {}
        BY DEF Decide, NoOp, Decision, Raise, DecideSame, DecideCorrection, EvaluateMastery
    <2> QED
        BY <1>3, <1>4, <2>1 DEF AnswerDecision
<1> SUFFICES ShapeOK(in, d)
    BY <1>2
<1> HIDE DEF d
<1>7. CASE d.op \in {"no_op", "add"}
    BY <1>1, <1>6, <1>7 DEF ShapeOK, Replacing
<1>8. CASE d.op \notin {"no_op", "add"}
    <2>1. \A t \in d.targets : in.e \notin in.cand[t].prov
        BY <1>1, <1>6
    <2>2. \/ active \subseteq d.targets
          \/ d.op = "merge" /\ \E v \in contested : d.targets = {v}
        BY <1>3, <1>5, <1>8 DEF AnswerDecision
    <2>3. d.op = "contested" => d.targets \subseteq active
        BY <1>3, <1>8 DEF AnswerDecision
    <2> QED
        BY <2>1, <2>2, <2>3 DEF ShapeOK, OnlyBranch
<1> QED
    BY <1>7, <1>8

\* The row that replaces rows of a slot of answers either continues one of them or
\* ends what was open.
LEMMA AnswerReplacement ==
    ASSUME NEW ev, NEW in, NEW d, AnswersWrote(in.cand), OnlyOpen(in.cand),
           IsAnswer(ev, in.e), DOMAIN in.cand \subseteq Nat,
           AnswerDecision(ev, in, d), d.op \in Replacing
    PROVE  /\ ReplacementValue(ev, in, d) \in {High, Low}
           /\ \/ \E t \in DOMAIN in.cand :
                    /\ d.targets = {t}
                    /\ ReplacementValue(ev, in, d) = in.cand[t].val
                    /\ ReplacementState(in, d) = in.cand[t].state
                    /\ ReplacementGroup(in, d) = in.cand[t].group
              \/ /\ d.targets = DOMAIN in.cand /\ d.targets # {}
                 /\ ReplacementState(in, d) = "active"
                 /\ ReplacementGroup(in, d) = 0
<1> DEFINE active == ActiveIn(in.cand)
           contested == ContestedIn(in.cand)
<1>1. /\ active \subseteq DOMAIN in.cand /\ contested \subseteq DOMAIN in.cand
      /\ DOMAIN in.cand = active \cup contested /\ active \cap contested = {}
    BY DEF ActiveIn, ContestedIn, OnlyOpen
<1>2. /\ d.op \in {"merge", "supersede"} /\ d.targets # {}
      /\ d.targets \in {active, contested, active \cup contested}
      /\ d.op = "supersede" => d.targets = active \cup contested
    BY DEF AnswerDecision, Replacing
<1>3. PICK a : active = {a}
    BY <1>1, <1>2 DEF AnswersWrote
<1>4. contested = {} \/ \E b : contested = {b}
    BY DEF AnswersWrote
<1>5. \A t : TheOne({t}) = t
    BY DEF TheOne
<1>6. \A t \in Nat : Min({t}) = t
    BY DEF Min
<1>7. \A t \in DOMAIN in.cand : in.cand[t].val \in {High, Low}
    BY DEF AnswersWrote
<1>8. CASE d.op = "supersede"
    <2>1. ReplacementState(in, d) = "active" /\ ReplacementGroup(in, d) = 0
        BY <1>8 DEF ReplacementState, ReplacementGroup, StaysDisputed
    <2>2. d.targets \cap contested = contested
        BY <1>2, <1>8
    <2>3. ReplacementValue(ev, in, d) =
            IF contested # {} THEN in.cand[Min(contested)].val ELSE Proposed(ev, in.e)
        BY <1>8, <2>2 DEF ReplacementValue
    <2>4. contested # {} => Min(contested) \in DOMAIN in.cand
        BY <1>1, <1>4, <1>6
    <2> QED
        BY <1>1, <1>2, <1>7, <1>8, <2>1, <2>3, <2>4, AnswerProposes
<1>9. CASE d.op = "merge" /\ \E t \in DOMAIN in.cand : d.targets = {t}
    <2>1. PICK t \in DOMAIN in.cand : d.targets = {t}
        BY <1>9
    <2>2. Cardinality(d.targets) = 1 /\ TheOne(d.targets) = t /\ Min(d.targets) = t
        BY <1>5, <1>6, <2>1, FS_Singleton
    <2>3. StaysDisputed(in, d) <=> in.cand[t].group # 0
        BY <1>9, <2>1, <2>2 DEF StaysDisputed
    <2>4. ReplacementGroup(in, d) = in.cand[t].group
        BY <2>2, <2>3 DEF ReplacementGroup
    <2>5. ReplacementState(in, d) = in.cand[t].state
        <3>1. in.cand[t].group = 0 => in.cand[t].state = "active"
            BY DEF AnswersWrote, OnlyOpen, ContestedIn
        <3> QED
            BY <2>2, <2>3, <3>1 DEF ReplacementState
    <2>6. ReplacementValue(ev, in, d) = in.cand[t].val
        <3>1. d.targets \cap active = {} \/ d.targets \cap active = {t}
            BY <2>1
        <3>2. ReplacementValue(ev, in, d) =
                in.cand[IF d.targets \cap active # {} THEN TheOne(d.targets \cap active)
                        ELSE Min(d.targets)].val
            BY <1>9 DEF ReplacementValue
        <3> QED
            BY <1>5, <2>2, <3>1, <3>2
    <2> QED
        BY <1>7, <2>1, <2>4, <2>5, <2>6
<1>10. CASE d.op = "merge" /\ ~\E t \in DOMAIN in.cand : d.targets = {t}
    <2>1. d.targets = DOMAIN in.cand
        BY <1>1, <1>2, <1>3, <1>4, <1>10
    <2>2. IsFiniteSet(d.targets)
        <3>1. IsFiniteSet({a})
            BY FS_Singleton
        <3>2. IsFiniteSet(active)
            BY <1>3, <3>1
        <3>3. ASSUME contested # {}
              PROVE  IsFiniteSet(contested)
            <4>1. PICK b : contested = {b}
                BY <1>4, <3>3
            <4>2. IsFiniteSet({b})
                BY FS_Singleton
            <4> QED
                BY <4>1, <4>2
        <3>4. IsFiniteSet(contested)
            BY <3>3, FS_EmptySet
        <3> HIDE DEF active, contested
        <3>5. IsFiniteSet(active \cup contested)
            BY <3>2, <3>4, FS_Union
        <3> QED
            BY <1>1, <2>1, <3>5
    <2>3. Cardinality(d.targets) # 1
        BY <1>10, <2>1, <2>2, FS_Singleton
    <2>4. ReplacementState(in, d) = "active" /\ ReplacementGroup(in, d) = 0
        BY <2>3 DEF ReplacementState, ReplacementGroup, StaysDisputed
    <2>5. ReplacementValue(ev, in, d) = in.cand[a].val
        <3>1. d.targets \cap active = {a}
            BY <1>1, <1>3, <2>1
        <3> QED
            BY <1>5, <1>10, <3>1 DEF ReplacementValue
    <2> QED
        BY <1>1, <1>2, <1>3, <1>7, <2>1, <2>4, <2>5
<1> QED
    BY <1>2, <1>8, <1>9, <1>10

\* An active row made by a merge keeps the value of the active row.
LEMMA MergedActive ==
    ASSUME NEW ev, NEW in, NEW d, AnswersWrote(in.cand), AnswerDecision(ev, in, d),
           d.op = "merge", ReplacementState(in, d) = "active"
    PROVE  \E a \in ActiveIn(in.cand) : ReplacementValue(ev, in, d) = in.cand[a].val
<1> DEFINE active == d.targets \cap ActiveIn(in.cand)
<1>1. CASE active # {}
    <2>1. TheOne(active) \in active
        BY <1>1 DEF TheOne
    <2>2. ReplacementValue(ev, in, d) = in.cand[TheOne(active)].val
        BY <1>1 DEF ReplacementValue
    <2> QED
        BY <2>1, <2>2
<1>2. CASE active = {}
    <2>1. d.targets = ContestedIn(in.cand) /\ d.targets # {}
        BY <1>2 DEF AnswerDecision
    <2>2. PICK b : d.targets = {b} /\ in.cand[b].group # 0 /\ in.cand[b].state = "contested"
        BY <2>1 DEF AnswersWrote, ContestedIn
    <2>3. Cardinality(d.targets) = 1 /\ TheOne(d.targets) = b
        BY <2>2, FS_Singleton DEF TheOne
    <2> QED
        BY <2>2, <2>3 DEF ReplacementState, StaysDisputed
<1> QED
    BY <1>1, <1>2

\* A row that continues one of a slot of answers takes its place.
LEMMA Continued ==
    ASSUME NEW chain, NEW next, NEW t \in DOMAIN chain, NEW n, AnswersWrote(chain),
           chain[t].state \in {"active", "contested"},
           n \notin DOMAIN chain, DOMAIN next = DOMAIN chain \cup {n},
           \A v \in DOMAIN chain \ {t} : next[v] = chain[v],
           next[t].state = "archived", next[t].val = chain[t].val,
           next[n].state = chain[t].state, next[n].val = chain[t].val,
           next[n].group = chain[t].group
    PROVE  AnswersWrote(next)
<1> DEFINE At(v) == IF v = t THEN n ELSE v
<1>1. PICK a : ActiveIn(chain) = {a}
    BY DEF AnswersWrote
<1>2. /\ a \in DOMAIN chain /\ chain[a].state = "active"
      /\ \A v \in DOMAIN chain : chain[v].state = "active" => v = a
    BY <1>1 DEF ActiveIn
<1>3. \A v \in DOMAIN next : next[v].val \in {High, Low}
    BY DEF AnswersWrote
<1>4. ActiveIn(next) = {At(a)}
    BY <1>2 DEF ActiveIn
<1>5. next[At(a)].group = chain[a].group /\ next[At(a)].val = chain[a].val
    BY <1>2
<1>6. CASE ContestedIn(chain) = {}
    <2>1. t = a
        BY <1>2, <1>6 DEF ContestedIn
    <2>2. ContestedIn(next) = {}
        BY <1>2, <1>6, <2>1 DEF ContestedIn
    <2>3. chain[a].group = 0
        BY <1>1, <1>6 DEF AnswersWrote
    <2> QED
        BY <1>3, <1>4, <1>5, <2>2, <2>3 DEF AnswersWrote
<1>7. CASE ContestedIn(chain) # {}
    <2>1. PICK b : ContestedIn(chain) = {b}
        BY <1>7 DEF AnswersWrote
    <2>2. /\ b \in DOMAIN chain /\ chain[b].state = "contested"
          /\ \A v \in DOMAIN chain : chain[v].state = "contested" => v = b
        BY <2>1 DEF ContestedIn
    <2>3. ContestedIn(next) = {At(b)}
        BY <2>2 DEF ContestedIn
    <2>4. next[At(b)].group = chain[b].group /\ next[At(b)].val = chain[b].val
        BY <2>2
    <2>5. /\ chain[b].group # 0 /\ chain[a].group = chain[b].group
          /\ chain[a].val # chain[b].val
        BY <1>1, <2>1 DEF AnswersWrote
    <2> HIDE DEF At
    <2> QED
        BY <1>3, <1>4, <1>5, <2>3, <2>4, <2>5 DEF AnswersWrote
<1> QED
    BY <1>6, <1>7

\* An active row without a group that replaces whatever was open is alone.
LEMMA Ended ==
    ASSUME NEW chain, NEW next, NEW S, NEW n, AnswersWrote(chain),
           S = ActiveIn(chain) \cup ContestedIn(chain),
           n \notin DOMAIN chain, DOMAIN next = DOMAIN chain \cup {n},
           \A v \in DOMAIN chain \ S : next[v] = chain[v],
           \A v \in S : next[v].state = "archived" /\ next[v].val = chain[v].val,
           next[n].state = "active", next[n].val \in {High, Low}, next[n].group = 0
    PROVE  AnswersWrote(next)
<1>1. \A v \in DOMAIN next : next[v].val \in {High, Low}
    BY DEF AnswersWrote
<1>2. \A v \in DOMAIN chain : next[v].state \notin {"active", "contested"}
    BY DEF ActiveIn, ContestedIn
<1>3. ActiveIn(next) = {n} /\ ContestedIn(next) = {}
    BY <1>2 DEF ActiveIn, ContestedIn
<1> QED
    BY <1>1, <1>3 DEF AnswersWrote

\* A dispute is opened between the active row, where it was alone, and a branch of
\* another value.
LEMMA Opened ==
    ASSUME NEW chain, NEW next, NEW t \in ActiveIn(chain), NEW n, AnswersWrote(chain),
           ContestedIn(chain) = {},
           n \notin DOMAIN chain, DOMAIN next = DOMAIN chain \cup {n},
           \A v \in DOMAIN chain \ {t} : next[v] = chain[v],
           next[t].state = "active", next[t].val = chain[t].val, next[t].group # 0,
           next[n].state = "contested", next[n].val \in {High, Low},
           next[n].val # chain[t].val, next[n].group = next[t].group
    PROVE  AnswersWrote(next)
<1>1. t \in DOMAIN chain /\ ActiveIn(chain) = {t}
    BY DEF ActiveIn, AnswersWrote
<1>2. \A v \in DOMAIN next : next[v].val \in {High, Low}
    BY <1>1 DEF AnswersWrote
<1>3. \A v \in DOMAIN chain \ {t} : next[v].state \notin {"active", "contested"}
    BY <1>1 DEF ActiveIn, ContestedIn
<1>4. ActiveIn(next) = {t} /\ ContestedIn(next) = {n}
    BY <1>1, <1>3 DEF ActiveIn, ContestedIn
<1> QED
    BY <1>2, <1>4 DEF AnswersWrote

(***************************************************************************)
(* Sums over finite sets.                                                  *)
(***************************************************************************)
\* What a fold of + over a set of weights computes: a function on all subsets.
IsSum(f, w, S) ==
    f = [s \in SUBSET S |-> IF s = {} THEN 0 ELSE w[TheOne(s)] + f[s \ {TheOne(s)}]]

\* Such a function, at a set.
LEMMA SumAt ==
    ASSUME NEW f, NEW w, NEW S, IsSum(f, w, S)
    PROVE  /\ f[{}] = 0
           /\ \A s \in SUBSET S : s # {} =>
                /\ TheOne(s) \in s
                /\ f[s] = w[TheOne(s)] + f[s \ {TheOne(s)}]
<1>1. \A s : s # {} => TheOne(s) \in s
    BY DEF TheOne
<1>2. \A s \in SUBSET S :
        f[s] = IF s = {} THEN 0 ELSE w[TheOne(s)] + f[s \ {TheOne(s)}]
    BY DEF IsSum
<1> QED
    BY <1>1, <1>2

\* Of the subsets of a finite set that have a property, one has no smaller one.
LEMMA SmallestSubset ==
    ASSUME NEW S, IsFiniteSet(S), NEW T, T \subseteq SUBSET S, T # {}
    PROVE  \E U \in T : \A V \in T : V \subseteq U => V = U
<1>1. IsWellFoundedOn(StrictSubsetOrdering(S), SUBSET S)
    BY FS_StrictSubsetOrderingWellFounded, FS_FiniteSubsetsOfFinite
<1>2. PICK U \in T : \A V \in T : ~(<<V, U>> \in StrictSubsetOrdering(S))
    BY <1>1, WFMin
<1>3. ASSUME NEW V \in T, V \subseteq U
      PROVE  V = U
    <2>1. V # U => <<V, U>> \in StrictSubsetOrdering(S)
        BY <1>3 DEF StrictSubsetOrdering
    <2> QED
        BY <1>2, <2>1
<1> QED
    BY <1>3

\* A set of natural numbers has a least one, which is its minimum.
LEMMA MinIsOne ==
    ASSUME NEW S, S \subseteq Nat, S # {}
    PROVE  Min(S) \in S
<1>1. PICK n : n \in S /\ n \in Nat
    OBVIOUS
<1> DEFINE I == 0..n
           Upto == {S \cap 0..m : m \in S \cap I}
<1>2. PICK U \in Upto : \A V \in Upto : V \subseteq U => V = U
    <2>1. IsFiniteSet(I)
        BY <1>1, FS_Interval
    <2>2. Upto \subseteq SUBSET I
        BY <1>1
    <2>3. S \cap 0..n \in Upto
        BY <1>1
    <2> HIDE DEF Upto, I
    <2> QED
        BY <2>1, <2>2, <2>3, SmallestSubset
<1>3. PICK m : m \in S /\ m \in 0..n /\ U = S \cap 0..m
    OBVIOUS
<1>4. ASSUME NEW k \in S, k < m
      PROVE  FALSE
    <2>1. k \in 0..n /\ S \cap 0..k \subseteq U /\ m \in U /\ m \notin S \cap 0..k
        BY <1>1, <1>3, <1>4
    <2>2. S \cap 0..k \in Upto
        BY <2>1
    <2> QED
        BY <1>2, <2>1, <2>2
<1>5. \A k \in S : m <= k
    BY <1>3, <1>4
<1> QED
    BY <1>3, <1>5 DEF Min

\* Two of them agree where their weights do.
LEMMA SumUnique ==
    ASSUME NEW f, NEW v, NEW S, IsSum(f, v, S),
           NEW g, NEW w, NEW T, IsSum(g, w, T),
           NEW U, IsFiniteSet(U), U \subseteq S, U \subseteq T, \A x \in U : v[x] = w[x]
    PROVE  f[U] = g[U]
<1> DEFINE Bad == {V \in SUBSET U : f[V] # g[V]}
<1> SUFFICES ASSUME Bad # {}
             PROVE  FALSE
    OBVIOUS
<1>1. PICK V \in Bad : \A X \in Bad : X \subseteq V => X = V
    <2>1. Bad \subseteq SUBSET U
        OBVIOUS
    <2> HIDE DEF Bad
    <2> QED
        BY <2>1, SmallestSubset
<1>2. V \in SUBSET U
    OBVIOUS
<1>3. V # {}
    BY SumAt
<1>4. PICK c : c = TheOne(V)
    OBVIOUS
<1>5. /\ c \in V /\ f[V] = v[c] + f[V \ {c}] /\ g[V] = w[c] + g[V \ {c}]
    BY <1>3, <1>4, SumAt
<1>6. f[V \ {c}] = g[V \ {c}]
    BY <1>1, <1>5
<1> QED
    BY <1>5, <1>6

\* The sums of natural numbers are natural numbers.
LEMMA SumType ==
    ASSUME NEW f, NEW w, NEW S, IsFiniteSet(S), IsSum(f, w, S), \A x \in S : w[x] \in Nat,
           NEW U \in SUBSET S
    PROVE  f[U] \in Nat
<1> DEFINE Bad == {V \in SUBSET S : f[V] \notin Nat}
<1> SUFFICES ASSUME Bad # {}
             PROVE  FALSE
    OBVIOUS
<1>1. PICK V \in Bad : \A X \in Bad : X \subseteq V => X = V
    <2>1. Bad \subseteq SUBSET S
        OBVIOUS
    <2> HIDE DEF Bad
    <2> QED
        BY <2>1, SmallestSubset
<1>2. V \in SUBSET S /\ f[V] \notin Nat
    OBVIOUS
<1>3. V # {}
    <2>1. f[{}] = 0
        BY SumAt
    <2> HIDE DEF Bad
    <2> QED
        BY <1>2, <2>1
<1>4. PICK c : c = TheOne(V)
    OBVIOUS
<1>5. c \in V /\ f[V] = w[c] + f[V \ {c}]
    <2> HIDE DEF Bad
    <2>1. /\ TheOne(V) \in V
          /\ f[V] = w[TheOne(V)] + f[V \ {TheOne(V)}]
        <3>1. \A s \in SUBSET S : s # {} =>
                TheOne(s) \in s /\ f[s] = w[TheOne(s)] + f[s \ {TheOne(s)}]
            BY SumAt
        <3>2. V \in SUBSET S
            BY <1>2
        <3> QED
            BY <1>3, <3>1, <3>2
    <2> QED
        BY <1>4, <2>1
<1>6. f[V \ {c}] \in Nat
    BY <1>1, <1>5
<1> QED
    BY <1>5, <1>6

\* It does not matter which element is taken out first.
LEMMA SumSplit ==
    ASSUME NEW f, NEW w, NEW S, IsFiniteSet(S), IsSum(f, w, S), \A x \in S : w[x] \in Nat,
           NEW U \in SUBSET S, NEW e \in U
    PROVE  f[U] = w[e] + f[U \ {e}]
<1> DEFINE Bad == {V \in SUBSET S : \E x \in V : f[V] # w[x] + f[V \ {x}]}
<1> SUFFICES ASSUME Bad # {}
             PROVE  FALSE
    OBVIOUS
<1>1. PICK V \in Bad : \A X \in Bad : X \subseteq V => X = V
    <2>1. Bad \subseteq SUBSET S
        OBVIOUS
    <2> HIDE DEF Bad
    <2> QED
        BY <2>1, SmallestSubset
<1>2. V \in SUBSET S
    OBVIOUS
<1>3. PICK x \in V : f[V] # w[x] + f[V \ {x}]
    OBVIOUS
<1>4. PICK c : c = TheOne(V)
    OBVIOUS
<1>5. c \in V /\ f[V] = w[c] + f[V \ {c}]
    BY <1>3, <1>4, SumAt
<1>6. c # x
    BY <1>3, <1>5
<1>7. PICK R : R = V \ {c, x}
    OBVIOUS
<1>8. f[V \ {c}] = w[x] + f[R]
    <2>1. V \ {c} \notin Bad /\ x \in V \ {c} /\ (V \ {c}) \ {x} = R
        BY <1>1, <1>5, <1>6, <1>7
    <2> QED
        BY <2>1
<1>9. f[V \ {x}] = w[c] + f[R]
    <2>1. V \ {x} \notin Bad /\ c \in V \ {x} /\ (V \ {x}) \ {c} = R
        BY <1>1, <1>5, <1>6, <1>7
    <2> QED
        BY <2>1
<1>10. f[R] \in Nat /\ w[c] \in Nat /\ w[x] \in Nat
    BY <1>5, <1>7, SumType
<1> QED
    BY <1>3, <1>5, <1>8, <1>9, <1>10

\* There is one on every finite set.
LEMMA SumExists ==
    ASSUME NEW w, NEW S, IsFiniteSet(S)
    PROVE  \E f : IsSum(f, w, S)
<1> DEFINE Bad == {V \in SUBSET S : ~\E f : IsSum(f, w, V)}
<1> SUFFICES ASSUME Bad # {}
             PROVE  FALSE
    OBVIOUS
<1>1. PICK U \in Bad : \A X \in Bad : X \subseteq U => X = U
    <2>1. Bad \subseteq SUBSET S
        OBVIOUS
    <2> HIDE DEF Bad
    <2> QED
        BY <2>1, SmallestSubset
<1>2. U \in SUBSET S
    OBVIOUS
<1> DEFINE At(V)  == CHOOSE f : IsSum(f, w, V)
           h == [s \in SUBSET U |->
                    IF s = {} THEN 0
                    ELSE w[TheOne(s)] + At(s \ {TheOne(s)})[s \ {TheOne(s)}]]
<1>3. ASSUME NEW V \in SUBSET U, V # U
      PROVE  IsSum(At(V), w, V)
    <2>1. \E f : IsSum(f, w, V)
        BY <1>1, <1>3
    <2> QED
        BY <2>1
<1>4. ASSUME NEW V \in SUBSET U, V # U
      PROVE  h[V] = At(V)[V]
    <2>1. IsSum(At(V), w, V)
        BY <1>3, <1>4
    <2>2. CASE V = {}
        BY <2>1, <2>2, SumAt
    <2>3. CASE V # {}
        <3>1. PICK c : c = TheOne(V)
            OBVIOUS
        <3>2. PICK X : X = V \ {c}
            OBVIOUS
        <3> HIDE DEF At
        <3>3. c \in V /\ At(V)[V] = w[c] + At(V)[X]
            BY <2>1, <2>3, <3>1, <3>2, SumAt
        <3>4. h[V] = w[c] + At(X)[X]
            BY <2>3, <3>1, <3>2
        <3>5. X \in SUBSET U /\ X # U /\ IsSum(At(X), w, X)
            BY <1>3, <3>2, <3>3
        <3>6. IsFiniteSet(X)
            BY <3>5, FS_Subset
        <3>7. At(V)[X] = At(X)[X]
            BY <2>1, <3>2, <3>5, <3>6, SumUnique
        <3> QED
            BY <3>3, <3>4, <3>7
    <2> QED
        BY <2>2, <2>3
<1> HIDE DEF At
<1>5. ASSUME NEW s \in SUBSET U
      PROVE  h[s] = IF s = {} THEN 0 ELSE w[TheOne(s)] + h[s \ {TheOne(s)}]
    <2>1. s # {} => TheOne(s) \in s
        BY DEF TheOne
    <2>2. s # {} => s \ {TheOne(s)} \in SUBSET U /\ s \ {TheOne(s)} # U
        BY <2>1
    <2>3. s # {} => h[s \ {TheOne(s)}] = At(s \ {TheOne(s)})[s \ {TheOne(s)}]
        BY <1>4, <2>2
    <2> QED
        BY <2>3
<1>6. IsSum(h, w, U)
    <2>1. h = [s \in SUBSET U |-> h[s]]
        OBVIOUS
    <2> HIDE DEF h
    <2> QED
        BY <1>5, <2>1 DEF IsSum
<1> QED
    BY <1>6

(***************************************************************************)
(* The gate of directional support.                                        *)
(***************************************************************************)
\* The mass of one event.
MassOf(ev, x) == ev[x].conf * ev[x].weight

\* The mass and the weight of a side are such sums.
LEMMA MassIsSum ==
    ASSUME NEW ev, NEW S, IsFiniteSet(S), NEW w, \A x \in S : w[x] = MassOf(ev, x)
    PROVE  \E f : IsSum(f, w, S) /\ Mass(ev, S) = f[S]
<1> DEFINE Body(f) == [s \in SUBSET S |->
                        IF s = {} THEN 0
                        ELSE ev[TheOne(s)].conf * ev[TheOne(s)].weight + f[s \ {TheOne(s)}]]
           SBody(f) == [s \in SUBSET S |->
                        IF s = {} THEN 0 ELSE w[TheOne(s)] + f[s \ {TheOne(s)}]]
           g == CHOOSE f : f = Body(f)
<1>1. ASSUME NEW f
      PROVE  Body(f) = SBody(f)
    <2>1. ASSUME NEW s \in SUBSET S, s # {}
          PROVE  w[TheOne(s)] = ev[TheOne(s)].conf * ev[TheOne(s)].weight
        <3>1. TheOne(s) \in s
            BY <2>1 DEF TheOne
        <3> QED
            BY <3>1 DEF MassOf
    <2> QED
        BY <2>1
<1>2. Mass(ev, S) = g[S]
    BY DEF Mass, MapThenSumSet, MapThenFoldSet, TheOne
<1>3. \A f : IsSum(f, w, S) <=> f = SBody(f)
    BY DEF IsSum
<1> HIDE DEF Body, SBody
<1>4. PICK f : IsSum(f, w, S)
    BY SumExists
<1>5. f = Body(f)
    BY <1>1, <1>3, <1>4
<1>6. g = Body(g)
    BY <1>5
<1> HIDE DEF g
<1>7. IsSum(g, w, S)
    BY <1>1, <1>3, <1>6
<1> QED
    BY <1>2, <1>7

\* The same of the weights.
LEMMA WeightIsSum ==
    ASSUME NEW ev, NEW S, IsFiniteSet(S), NEW w, \A x \in S : w[x] = ev[x].weight
    PROVE  \E f : IsSum(f, w, S) /\ Weight(ev, S) = f[S]
<1> DEFINE Body(f) == [s \in SUBSET S |->
                        IF s = {} THEN 0 ELSE ev[TheOne(s)].weight + f[s \ {TheOne(s)}]]
           SBody(f) == [s \in SUBSET S |->
                        IF s = {} THEN 0 ELSE w[TheOne(s)] + f[s \ {TheOne(s)}]]
           g == CHOOSE f : f = Body(f)
<1>1. ASSUME NEW f
      PROVE  Body(f) = SBody(f)
    <2>1. ASSUME NEW s \in SUBSET S, s # {}
          PROVE  w[TheOne(s)] = ev[TheOne(s)].weight
        <3>1. TheOne(s) \in s
            BY <2>1 DEF TheOne
        <3> QED
            BY <3>1
    <2> QED
        BY <2>1
<1>2. Weight(ev, S) = g[S]
    BY DEF Weight, MapThenSumSet, MapThenFoldSet, TheOne
<1>3. \A f : IsSum(f, w, S) <=> f = SBody(f)
    BY DEF IsSum
<1> HIDE DEF Body, SBody
<1>4. PICK f : IsSum(f, w, S)
    BY SumExists
<1>5. f = Body(f)
    BY <1>1, <1>3, <1>4
<1>6. g = Body(g)
    BY <1>5
<1> HIDE DEF g
<1>7. IsSum(g, w, S)
    BY <1>1, <1>3, <1>6
<1> QED
    BY <1>2, <1>7

\* Events of which mass can be summed.
Weighed(ev, S) == IsFiniteSet(S) /\ \A x \in S : MassOf(ev, x) \in Nat

\* One more event adds its mass.
LEMMA MassGrows ==
    ASSUME NEW ev, NEW S, NEW e, e \notin S, Weighed(ev, S \cup {e})
    PROVE  /\ Mass(ev, S) \in Nat /\ MassOf(ev, e) \in Nat
           /\ Mass(ev, S \cup {e}) = Mass(ev, S) + MassOf(ev, e)
<1> DEFINE T == S \cup {e}
<1>1. PICK w : w = [x \in T |-> MassOf(ev, x)]
    OBVIOUS
<1>2. \A x \in T : w[x] = MassOf(ev, x) /\ w[x] \in Nat
    BY <1>1 DEF Weighed
<1>3. IsFiniteSet(T) /\ IsFiniteSet(S) /\ S \in SUBSET T /\ T \ {e} = S /\ e \in T
    <2>1. IsFiniteSet(T) /\ S \subseteq T
        BY DEF Weighed
    <2>2. IsFiniteSet(S)
        BY <2>1, FS_Subset
    <2> QED
        BY <2>1, <2>2
<1> HIDE DEF T
<1>4. PICK f : IsSum(f, w, T) /\ Mass(ev, T) = f[T]
    BY <1>2, <1>3, MassIsSum
<1>5. PICK g : IsSum(g, w, S) /\ Mass(ev, S) = g[S]
    <2>1. \A x \in S : w[x] = MassOf(ev, x)
        BY <1>2, <1>3
    <2> QED
        BY <1>3, <2>1, MassIsSum
<1>6. f[T] = w[e] + f[S]
    <2>1. f[T] = w[e] + f[T \ {e}]
        BY <1>2, <1>3, <1>4, SumSplit
    <2> QED
        BY <1>3, <2>1
<1>7. f[S] = g[S]
    BY <1>3, <1>4, <1>5, SumUnique
<1>8. f[S] \in Nat
    BY <1>2, <1>3, <1>4, SumType
<1> QED
    BY <1>2, <1>3, <1>4, <1>5, <1>6, <1>7, <1>8 DEF T

\* The mass of a side is a natural number.
LEMMA MassType ==
    ASSUME NEW ev, NEW S, Weighed(ev, S)
    PROVE  Mass(ev, S) \in Nat
<1>1. PICK w : w = [x \in S |-> MassOf(ev, x)]
    OBVIOUS
<1>2. \A x \in S : w[x] = MassOf(ev, x) /\ w[x] \in Nat
    BY <1>1 DEF Weighed
<1>3. PICK f : IsSum(f, w, S) /\ Mass(ev, S) = f[S]
    BY <1>2, MassIsSum DEF Weighed
<1>4. f[S] \in Nat
    BY <1>2, <1>3, SumType DEF Weighed
<1> QED
    BY <1>3, <1>4

\* The gate looks at nothing but the events of its two sides.
LEMMA GateLocal ==
    ASSUME NEW ev, NEW other, NEW S, NEW T, IsFiniteSet(S), IsFiniteSet(T),
           \A x \in S \cup T : ev[x] = other[x]
    PROVE  IsStableWinner(ev, S, T) <=> IsStableWinner(other, S, T)
<1>1. ASSUME NEW U, IsFiniteSet(U), U \subseteq S \cup T
      PROVE  Mass(ev, U) = Mass(other, U)
    <2>1. PICK w : w = [x \in U |-> MassOf(ev, x)]
        OBVIOUS
    <2>2. \A x \in U : w[x] = MassOf(ev, x) /\ w[x] = MassOf(other, x)
        BY <1>1, <2>1 DEF MassOf
    <2>3. PICK f : IsSum(f, w, U) /\ Mass(ev, U) = f[U]
        BY <1>1, <2>2, MassIsSum
    <2>4. PICK g : IsSum(g, w, U) /\ Mass(other, U) = g[U]
        BY <1>1, <2>2, MassIsSum
    <2>5. f[U] = g[U]
        BY <1>1, <2>3, <2>4, SumUnique
    <2> QED
        BY <2>3, <2>4, <2>5
<1>2. Weight(ev, S) = Weight(other, S)
    <2>1. PICK w : w = [x \in S |-> ev[x].weight]
        OBVIOUS
    <2>2. \A x \in S : w[x] = ev[x].weight /\ w[x] = other[x].weight
        BY <2>1
    <2>3. PICK f : IsSum(f, w, S) /\ Weight(ev, S) = f[S]
        BY <2>2, WeightIsSum
    <2>4. PICK g : IsSum(g, w, S) /\ Weight(other, S) = g[S]
        BY <2>2, WeightIsSum
    <2>5. f[S] = g[S]
        BY <2>3, <2>4, SumUnique
    <2> QED
        BY <2>3, <2>4, <2>5
<1>3. Mass(ev, S) = Mass(other, S) /\ Mass(ev, T) = Mass(other, T)
    BY <1>1
<1>4. Sessions(ev, S) = Sessions(other, S)
    BY DEF Sessions
<1> QED
    BY <1>2, <1>3, <1>4 DEF IsStableWinner

\* More on the other side does not make a side win.
LEMMA MoreAgainst ==
    ASSUME NEW ev, NEW S, NEW T, NEW e, e \notin T, Weighed(ev, S), Weighed(ev, T \cup {e}),
           ~IsStableWinner(ev, S, T)
    PROVE  ~IsStableWinner(ev, S, T \cup {e})
<1>1. PICK s, t, u, m : /\ s = Mass(ev, S) /\ t = Mass(ev, T) /\ u = Mass(ev, T \cup {e})
                        /\ m = MassOf(ev, e)
    OBVIOUS
<1>2. s \in Nat /\ t \in Nat /\ m \in Nat /\ u = t + m
    BY <1>1, MassType, MassGrows
<1>3. MinMargin \in Nat
    BY PolicyAssumption
<1>4. ASSUME s + u > 0, 100 * (s - u) >= MinMargin * (s + u)
      PROVE  s + t > 0 /\ 100 * (s - t) >= MinMargin * (s + t)
    <2>1. MinMargin * (s + u) = MinMargin * (s + t) + MinMargin * m
        BY <1>2, <1>3
    <2>2. MinMargin * m \in Nat /\ MinMargin * (s + u) \in Nat /\ MinMargin * (s + t) \in Nat
        BY <1>2, <1>3
    <2>3. s - u >= 0
        BY <1>2, <1>4, <2>2
    <2> QED
        BY <1>2, <1>4, <2>1, <2>2, <2>3
<1> QED
    BY <1>1, <1>4 DEF IsStableWinner

\* Of two sides one wins at most, when winning takes a margin.
LEMMA OneWinner ==
    ASSUME NEW ev, NEW S, NEW T, Weighed(ev, S), Weighed(ev, T), MinMargin > 0,
           IsStableWinner(ev, S, T)
    PROVE  ~IsStableWinner(ev, T, S)
<1>1. PICK s, t : s = Mass(ev, S) /\ t = Mass(ev, T)
    OBVIOUS
<1>2. s \in Nat /\ t \in Nat /\ MinMargin \in Nat
    BY <1>1, MassType, PolicyAssumption
<1>3. s + t > 0 /\ 100 * (s - t) >= MinMargin * (s + t)
    BY <1>1 DEF IsStableWinner
<1>4. MinMargin * (s + t) > 0
    BY <1>2, <1>3
<1>5. MinMargin * (t + s) = MinMargin * (s + t) /\ MinMargin * (s + t) \in Nat
    BY <1>2
<1>6. ~(100 * (t - s) >= MinMargin * (t + s))
    BY <1>2, <1>3, <1>4, <1>5
<1> QED
    BY <1>1, <1>6 DEF IsStableWinner

(***************************************************************************)
(* What a decision leaves standing.                                        *)
(***************************************************************************)
\* The events that speak against a value, and whether they are a stable winner.
Against(ev, H, val) == {x \in H : ev[x].correct # (val.score > 50)}
Overdue(ev, H, val) == IsStableWinner(ev, Against(ev, H, val), H \ Against(ev, H, val))

\* Answers that a decision is made on.
Mutating(ev, e) == IsAnswer(ev, e) /\ ~NonMutating(ev, e)

MutatingHistory(ev, H) ==
    /\ IsFiniteSet(H)
    /\ \A x \in H : /\ Mutating(ev, x) /\ ev[x].correct \in BOOLEAN
                    /\ ev[x].conf \in Nat /\ ev[x].weight \in Nat

\* With its event, a decision leaves no value standing that is overdue.
Stands(ev, in, d) ==
    /\ d.op # "no_op"
    /\ d.op \in {"merge", "contested"} => \A a \in ActiveIn(in.cand) :
            ~Overdue(ev, in.hist \cup {in.e}, in.cand[a].val)
    /\ d.op = "supersede" =>
            ~Overdue(ev, in.hist \cup {in.e}, ReplacementValue(ev, in, d))

\* The gate can weigh any part of such a history.
LEMMA HistoryWeighed ==
    ASSUME NEW ev, NEW H, MutatingHistory(ev, H), NEW S, S \subseteq H
    PROVE  Weighed(ev, S)
<1>1. IsFiniteSet(S)
    BY FS_Subset DEF MutatingHistory
<1>2. ASSUME NEW x \in S
      PROVE  MassOf(ev, x) \in Nat
    <2>1. PICK c, w : c = ev[x].conf /\ w = ev[x].weight
        OBVIOUS
    <2>2. c \in Nat /\ w \in Nat
        BY <2>1 DEF MutatingHistory
    <2>3. c * w \in Nat
        BY <2>2
    <2> QED
        BY <2>1, <2>3 DEF MassOf
<1> QED
    BY <1>1, <1>2 DEF Weighed

\* What speaks against one value speaks for the other.
LEMMA AgainstOther ==
    ASSUME NEW ev, NEW H, MutatingHistory(ev, H),
           NEW x \in {High, Low}, NEW y \in {High, Low}, x # y
    PROVE  Against(ev, H, y) = H \ Against(ev, H, x)
<1>1. (x.score > 50) = ~(y.score > 50)
    BY AnswerValues
<1>2. \A e \in H : ev[e].correct \in BOOLEAN
    BY DEF MutatingHistory
<1>3. (x.score > 50) \in BOOLEAN /\ (y.score > 50) \in BOOLEAN
    OBVIOUS
<1> QED
    BY <1>1, <1>2, <1>3, Zenon DEF Against

\* The two sides of an evaluation are what speaks against its two values.
LEMMA SidesAgainst ==
    ASSUME NEW ev, NEW in, MutatingHistory(ev, in.hist \cup {in.e}),
           NEW current \in {High, Low}, NEW rival \in {High, Low}, current # rival
    PROVE  LET H == in.hist \cup {in.e}
           IN  /\ Side(ev, in, current, rival, TRUE) = Against(ev, H, current)
               /\ Side(ev, in, current, rival, FALSE) = Against(ev, H, rival)
<1> DEFINE H == in.hist \cup {in.e}
<1>1. \A x \in H : ~ev[x].temporary /\ ev[x].correct \in BOOLEAN
    BY DEF MutatingHistory, Mutating, NonMutating
<1>2. /\ (rival.score > current.score) = ~(current.score > 50)
      /\ (rival.score > current.score) = (rival.score > 50)
    <2>1. \/ current = High /\ rival = Low
          \/ current = Low /\ rival = High
        OBVIOUS
    <2> QED
        BY <2>1, AnswerValues
<1>3. PICK r, c, m : /\ r = (rival.score > 50) /\ c = (current.score > 50)
                     /\ m = (rival.score > current.score)
    OBVIOUS
<1>4. r \in BOOLEAN /\ c \in BOOLEAN /\ m \in BOOLEAN
    BY <1>3
<1>5. ASSUME NEW x \in H
      PROVE  /\ (m = ev[x].correct) = (ev[x].correct # c)
             /\ ((m = ev[x].correct) = FALSE) = (ev[x].correct # r)
    <2>1. PICK k \in BOOLEAN : k = ev[x].correct
        BY <1>1
    <2>2. m = ~c /\ m = r
        BY <1>2, <1>3
    <2> QED
        BY <1>4, <2>1, <2>2
<1> HIDE DEF H
<1>6. /\ {x \in H : ~ev[x].temporary /\ (m = ev[x].correct) = TRUE}
            = {x \in H : ev[x].correct # c}
      /\ {x \in H : ~ev[x].temporary /\ (m = ev[x].correct) = FALSE}
            = {x \in H : ev[x].correct # r}
    BY <1>1, <1>5
<1> QED
    BY <1>3, <1>6 DEF Side, SpeaksForRival, Against, H

\* Independent evidence for a value that was not overdue does not make it so.
LEMMA SameStands ==
    ASSUME NEW ev, NEW H, NEW e, e \notin H, MutatingHistory(ev, H \cup {e}),
           NEW val \in {High, Low}, val.score = Proposed(ev, e).score,
           ~Overdue(ev, H, val)
    PROVE  ~Overdue(ev, H \cup {e}, val)
<1> DEFINE S == Against(ev, H, val)
<1>1. IsAnswer(ev, e) /\ ev[e].correct \in BOOLEAN
    BY DEF MutatingHistory, Mutating
<1>2. val = Proposed(ev, e)
    BY <1>1, AnswerProposes, AnswerValues
<1>3. ~(ev[e].correct # (val.score > 50))
    BY <1>1, <1>2, AnswerValues DEF Proposed
<1>4. Against(ev, H \cup {e}, val) = S
    BY <1>3 DEF Against
<1>5. (H \cup {e}) \ S = (H \ S) \cup {e}
    BY DEF Against
<1>6. Weighed(ev, S) /\ Weighed(ev, (H \ S) \cup {e})
    BY <1>5, HistoryWeighed DEF Against
<1>7. ~IsStableWinner(ev, S, H \ S)
    BY DEF Overdue
<1> HIDE DEF S
<1>8. ~IsStableWinner(ev, S, (H \ S) \cup {e})
    BY <1>6, <1>7, MoreAgainst
<1> QED
    BY <1>4, <1>5, <1>8 DEF Overdue

\* An evaluation replaces a value that is overdue, and no other.
LEMMA EvaluationStands ==
    ASSUME NEW ev, NEW in, AnswersWrote(in.cand), DOMAIN in.cand \subseteq Nat,
           MutatingHistory(ev, in.hist \cup {in.e}), MinMargin > 0,
           EvaluateMastery(ev, in).op # "raise"
    PROVE  Stands(ev, in, EvaluateMastery(ev, in))
<1> DEFINE active == ActiveIn(in.cand)
           contested == ContestedIn(in.cand)
           H == in.hist \cup {in.e}
           current == in.cand[TheOne(active)].val
           rival == IF contested = {} THEN Proposed(ev, in.e)
                    ELSE in.cand[TheOne(contested)].val
           rivals == Side(ev, in, current, rival, TRUE)
           defenders == Side(ev, in, current, rival, FALSE)
           d == EvaluateMastery(ev, in)
<1>1. ~Malformed(ev, in) /\ IsAnswer(ev, in.e)
    BY DEF EvaluateMastery, Raise, Decision, MutatingHistory, Mutating
<1>2. PICK a : /\ active = {a} /\ a \in DOMAIN in.cand /\ TheOne(active) = a
               /\ contested = {} => in.cand[a].val # Proposed(ev, in.e)
    BY <1>1, Opposed DEF ActiveIn, TheOne
<1>3. ASSUME contested # {}
      PROVE  \E b \in DOMAIN in.cand :
                /\ contested = {b} /\ TheOne(contested) = b /\ Min(contested) = b
                /\ in.cand[a].val # in.cand[b].val
    <2>1. PICK b : b \in DOMAIN in.cand /\ contested = {b}
        BY <1>3 DEF AnswersWrote, ContestedIn
    <2>2. TheOne({b}) = b /\ Min({b}) = b
        BY <2>1 DEF TheOne, Min
    <2> QED
        BY <1>2, <2>1, <2>2 DEF AnswersWrote
<1>4. current \in {High, Low} /\ rival \in {High, Low} /\ current # rival
    <2>1. current = in.cand[a].val /\ in.cand[a].val \in {High, Low}
        BY <1>2 DEF AnswersWrote
    <2>2. CASE contested = {}
        BY <1>1, <1>2, <2>1, <2>2, AnswerProposes
    <2>3. CASE contested # {}
        BY <1>3, <2>1, <2>3 DEF AnswersWrote
    <2> QED
        BY <2>2, <2>3
<1>5. current = in.cand[a].val
    BY <1>2
<1>6. d.op = "supersede" =>
        d = Decision("supersede", active \cup contested)
        /\ ReplacementValue(ev, in, d) = rival
    <2>1. ASSUME d.op = "supersede"
          PROVE  d = Decision("supersede", active \cup contested)
        BY <1>1, <2>1 DEF EvaluateMastery, Superseded, Decision
    <2>2. ASSUME d = Decision("supersede", active \cup contested)
          PROVE  ReplacementValue(ev, in, d) = rival
        <3>1. d.op = "supersede" /\ d.targets \cap contested = contested
            BY <2>2 DEF Decision
        <3>2. ReplacementValue(ev, in, d) =
                IF contested # {} THEN in.cand[Min(contested)].val ELSE Proposed(ev, in.e)
            BY <3>1 DEF ReplacementValue
        <3> QED
            BY <1>3, <3>2
    <2> QED
        BY <2>1, <2>2
<1>7. /\ d.op \in {"supersede", "merge", "contested"}
      /\ d.op = "supersede" <=> IsStableWinner(ev, rivals, defenders)
    BY <1>1 DEF EvaluateMastery, Decision
<1> HIDE DEF current, rival, rivals, defenders, d, H
<1>8. /\ rivals = Against(ev, H, current) /\ defenders = Against(ev, H, rival)
      /\ defenders = H \ rivals /\ rivals = H \ defenders
    <2>1. rivals = Against(ev, H, current) /\ defenders = Against(ev, H, rival)
        BY <1>4, SidesAgainst DEF rivals, defenders, H
    <2>2. MutatingHistory(ev, H)
        BY DEF H
    <2>3. defenders = H \ rivals
        BY <1>4, <2>1, <2>2, AgainstOther
    <2>4. rivals = H \ defenders
        BY <1>4, <2>1, <2>2, AgainstOther
    <2> QED
        BY <2>1, <2>3, <2>4
<1>9. Weighed(ev, rivals) /\ Weighed(ev, defenders)
    <2>1. rivals \subseteq H /\ defenders \subseteq H
        BY <1>8
    <2> QED
        BY <2>1, HistoryWeighed DEF H
<1>10. CASE IsStableWinner(ev, rivals, defenders)
    <2>1. ~IsStableWinner(ev, defenders, rivals)
        BY <1>9, <1>10, OneWinner
    <2>2. ~Overdue(ev, H, rival)
        BY <1>8, <2>1 DEF Overdue
    <2> QED
        BY <1>6, <1>7, <1>10, <2>2 DEF Stands, d, H
<1>11. CASE ~IsStableWinner(ev, rivals, defenders)
    <2>1. ~Overdue(ev, H, current)
        BY <1>8, <1>11 DEF Overdue
    <2> QED
        BY <1>2, <1>5, <1>7, <1>11, <2>1 DEF Stands, d, H
<1> QED
    BY <1>10, <1>11

\* Where no value was overdue, none is after an answer was decided on.
LEMMA AnswerStands ==
    ASSUME NEW ev, NEW in, AnswersWrote(in.cand), DOMAIN in.cand \subseteq Nat,
           in.e \notin in.hist, MutatingHistory(ev, in.hist \cup {in.e}), MinMargin > 0,
           \A v \in DOMAIN in.cand : in.e \notin in.cand[v].prov,
           \A a \in ActiveIn(in.cand) : ~Overdue(ev, in.hist, in.cand[a].val),
           Decide(ev, in).op # "raise"
    PROVE  Stands(ev, in, Decide(ev, in))
<1> DEFINE d == Decide(ev, in)
<1>1. IsAnswer(ev, in.e) /\ ~NonMutating(ev, in.e)
    BY DEF MutatingHistory, Mutating
<1> SUFFICES Stands(ev, in, d)
    OBVIOUS
<1>2. \/ d = Decision("add", {})
      \/ d = DecideSame(in) /\ SameEvidence(ev, in)
      \/ d = EvaluateMastery(ev, in)
    BY <1>1 DEF Decide
<1>3. CASE d = Decision("add", {})
    BY <1>3 DEF Stands, Decision
<1>4. CASE d = DecideSame(in) /\ SameEvidence(ev, in)
    <2>1. d.op = "merge"
        BY <1>4 DEF DecideSame, Raise, Decision
    <2>2. PICK v \in ActiveIn(in.cand) :
            DOMAIN in.cand = {v} /\ in.cand[v].val.score = Proposed(ev, in.e).score
        BY <1>4 DEF SameEvidence
    <2>3. in.cand[v].val \in {High, Low} /\ \A a \in ActiveIn(in.cand) : a = v
        BY <2>2 DEF AnswersWrote, ActiveIn
    <2>4. ~Overdue(ev, in.hist \cup {in.e}, in.cand[v].val)
        BY <2>2, <2>3, SameStands
    <2> HIDE DEF d
    <2> QED
        BY <2>1, <2>3, <2>4 DEF Stands
<1>5. CASE d = EvaluateMastery(ev, in)
    <2>1. EvaluateMastery(ev, in).op # "raise"
        BY <1>5
    <2> QED
        BY <1>5, <2>1, EvaluationStands
<1> QED
    BY <1>2, <1>3, <1>4, <1>5

\* The first answer of a slot stands.
LEMMA FirstStands ==
    ASSUME NEW ev, NEW e, IsAnswer(ev, e), ev[e].correct \in BOOLEAN
    PROVE  ~Overdue(ev, {e}, Proposed(ev, e))
<1>1. ~(ev[e].correct # (Proposed(ev, e).score > 50))
    BY AnswerValues DEF Proposed
<1>2. Against(ev, {e}, Proposed(ev, e)) = {}
    BY <1>1 DEF Against
<1>3. ~IsStableWinner(ev, {}, {e} \ {})
    BY FS_EmptySet, PolicyAssumption DEF IsStableWinner
<1> QED
    BY <1>2, <1>3 DEF Overdue

\* Whether a value is overdue depends on the events of the history alone.
LEMMA OverdueLocal ==
    ASSUME NEW ev, NEW other, NEW H, IsFiniteSet(H), \A x \in H : ev[x] = other[x], NEW val
    PROVE  Overdue(ev, H, val) <=> Overdue(other, H, val)
<1> DEFINE S == Against(ev, H, val)
<1>1. S = Against(other, H, val) /\ S \subseteq H
    BY DEF Against
<1> HIDE DEF S
<1>2. IsFiniteSet(S) /\ IsFiniteSet(H \ S)
    BY <1>1, FS_Subset
<1>3. \A x \in S \cup (H \ S) : ev[x] = other[x]
    BY <1>1
<1>4. IsStableWinner(ev, S, H \ S) <=> IsStableWinner(other, S, H \ S)
    BY <1>2, <1>3, GateLocal
<1> QED
    BY <1>1, <1>4 DEF Overdue, S

\* So does what a decision leaves standing.
LEMMA StandsLocal ==
    ASSUME NEW ev, NEW other, NEW in, NEW d, IsFiniteSet(in.hist \cup {in.e}),
           \A x \in in.hist \cup {in.e} : ev[x] = other[x], Stands(ev, in, d)
    PROVE  Stands(other, in, d)
<1> DEFINE H == in.hist \cup {in.e}
<1>1. Proposed(ev, in.e) = Proposed(other, in.e)
    BY DEF Proposed, IsAnswer
<1>2. ReplacementValue(ev, in, d) = ReplacementValue(other, in, d)
    BY <1>1 DEF ReplacementValue
<1>3. IsFiniteSet(H) /\ \A x \in H : ev[x] = other[x]
    OBVIOUS
<1> HIDE DEF H
<1>4. ASSUME NEW val
      PROVE  Overdue(ev, H, val) <=> Overdue(other, H, val)
    BY <1>3, OverdueLocal
<1> QED
    BY <1>2, <1>4 DEF Stands, H
=============================================================================
