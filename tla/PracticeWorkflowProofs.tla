----------------------- MODULE PracticeWorkflowProofs -----------------------
(* Proofs about PracticeWorkflow, for any number of answers, handlers and
   failures, and any behaviour of the grader and the analyzer. *)
EXTENDS PracticeWorkflow, TLAPS

(***************************************************************************)
(* The order of the steps.                                                 *)
(***************************************************************************)
Steps == {"IDLE", "QUESTION_READY", "ANSWER_RECEIVED", "GRADED", "DIAGNOSED",
          "MEMORY_UPDATED", "RECOMMENDED"}

\* Order numbers the steps.
LEMMA OrderIs ==
    /\ Order("IDLE") = 1 /\ Order("QUESTION_READY") = 2 /\ Order("ANSWER_RECEIVED") = 3
    /\ Order("GRADED") = 4 /\ Order("DIAGNOSED") = 5 /\ Order("MEMORY_UPDATED") = 6
    /\ Order("RECOMMENDED") = 7
<1>1. DOMAIN States = 1..7
  BY DEF States
<1>2. \A i \in 1..7 : i = 1 \/ i = 2 \/ i = 3 \/ i = 4 \/ i = 5 \/ i = 6 \/ i = 7
  OBVIOUS
<1>3. /\ States[1] = "IDLE" /\ States[2] = "QUESTION_READY" /\ States[3] = "ANSWER_RECEIVED"
      /\ States[4] = "GRADED" /\ States[5] = "DIAGNOSED" /\ States[6] = "MEMORY_UPDATED"
      /\ States[7] = "RECOMMENDED"
  BY DEF States
<1>4. \A i \in 1..7 :
        /\ States[i] = "IDLE" <=> i = 1
        /\ States[i] = "QUESTION_READY" <=> i = 2
        /\ States[i] = "ANSWER_RECEIVED" <=> i = 3
        /\ States[i] = "GRADED" <=> i = 4
        /\ States[i] = "DIAGNOSED" <=> i = 5
        /\ States[i] = "MEMORY_UPDATED" <=> i = 6
        /\ States[i] = "RECOMMENDED" <=> i = 7
  BY <1>2, <1>3
<1>5. /\ 1 \in 1..7 /\ 2 \in 1..7 /\ 3 \in 1..7 /\ 4 \in 1..7 /\ 5 \in 1..7
      /\ 6 \in 1..7 /\ 7 \in 1..7
  OBVIOUS
<1>6. ASSUME NEW s, NEW i \in 1..7, \A j \in 1..7 : States[j] = s <=> j = i
      PROVE  Order(s) = i
  BY <1>1, <1>6 DEF Order
<1> QED  BY <1>4, <1>5, <1>6

LEMMA StepsAre == {States[i] : i \in DOMAIN States} = Steps
<1>1. DOMAIN States = 1..7
  BY DEF States
<1>2. \A i \in 1..7 : i = 1 \/ i = 2 \/ i = 3 \/ i = 4 \/ i = 5 \/ i = 6 \/ i = 7
  OBVIOUS
<1>3. /\ States[1] = "IDLE" /\ States[2] = "QUESTION_READY" /\ States[3] = "ANSWER_RECEIVED"
      /\ States[4] = "GRADED" /\ States[5] = "DIAGNOSED" /\ States[6] = "MEMORY_UPDATED"
      /\ States[7] = "RECOMMENDED"
  BY DEF States
<1>4. \A i \in 1..7 : States[i] \in Steps
  BY <1>2, <1>3 DEF Steps
<1>5. \A s \in Steps : \E i \in 1..7 : States[i] = s
  BY <1>3 DEF Steps
<1> QED  BY <1>1, <1>4, <1>5

\* The steps at and after a given one
LEMMA StepsFrom ==
    ASSUME NEW s \in Steps
    PROVE  /\ Order(s) \in 1..7
           /\ Order(s) >= Order("GRADED") <=>
                s \in {"GRADED", "DIAGNOSED", "MEMORY_UPDATED", "RECOMMENDED"}
           /\ Order(s) >= Order("DIAGNOSED") <=>
                s \in {"DIAGNOSED", "MEMORY_UPDATED", "RECOMMENDED"}
           /\ Order(s) >= Order("MEMORY_UPDATED") <=> s \in {"MEMORY_UPDATED", "RECOMMENDED"}
  BY OrderIs DEF Steps

(***************************************************************************)
(* The inductive invariant.                                                *)
(***************************************************************************)
Diagnosed == {"DIAGNOSED", "MEMORY_UPDATED", "RECOMMENDED"}
Settled  == {"MEMORY_UPDATED", "RECOMMENDED"}

\* Its answer is in the student model, as far as no two rebuilds overlapped.
Projected(k) == overlapped \/ k \in projection

\* A checkpoint of request k, stored or in a handler's hand, has the material of
\* its step and claims nothing that did not happen.
Sound(k, c) ==
    /\ c \in Checkpoint /\ Validated(c)
    /\ IF k = Start THEN c.step \in {"IDLE", "QUESTION_READY"}
       ELSE c.step \in Diagnosed \cup {"ANSWER_RECEIVED", "GRADED"}
    /\ c.step = "ANSWER_RECEIVED" => c.grade = None
    /\ c.step \notin Diagnosed => c.event = NoEvent
    /\ c.step \in Settled => k \in recorded
    /\ c.decision = "mutated" => k \in counted
    /\ c.decision = "mutated" /\ c.refreshed => Projected(k)

\* What a handler has in hand is the stored checkpoint or an earlier one.
Earlier(h, c) ==
    /\ h.rv <= c.rv
    /\ h.rv = c.rv => h = c
    /\ Order(h.step) <= Order(c.step)
    /\ h.event # NoEvent => c.event = h.event

Runner ==
    [pc : {"idle", "create", "work", "written", "rebuild", "refreshed"},
     key : Keys, hand : Checkpoint, result : {None, "mutated", "unchanged"},
     sees : SUBSET Answers]

RunnerOK(x) ==
    /\ x \in Runner
    /\ Sound(x.key, x.hand)
    /\ Earlier(x.hand, cp[x.key])
    /\ x.pc = "written" =>
        /\ x.hand.step = "DIAGNOSED" /\ x.key \in recorded
        /\ x.result # None
        /\ x.result = "mutated" => x.key \in counted
    /\ x.pc = "refreshed" =>
        /\ x.hand.pending
        /\ x.hand.decision = "mutated" => Projected(x.key)
    /\ x.pc = "rebuild" =>
        /\ x.hand.pending /\ x.sees \subseteq counted
        /\ x.hand.decision = "mutated" => x.key \in x.sees
        /\ overlapped \/ projection \subseteq x.sees

\* Rebuilds that never overlapped do not overlap now.
OneRebuild ==
    overlapped \/ \A r, q \in Runners : Rebuilding(r) /\ Rebuilding(q) => r = q

CheckpointsOK ==
    /\ cp \in [Keys -> Checkpoint]
    /\ \A k \in Keys : Sound(k, cp[k]) /\ (cp[k].rv = 0 => cp[k] = NewCheckpoint(k))

LedgerOK ==
    /\ counted \subseteq recorded /\ recorded \subseteq Answers /\ projection \subseteq counted
    /\ DOMAIN content = Answers /\ overlapped \in BOOLEAN
    /\ \A k \in recorded : content[k] = cp[k].event /\ cp[k].step \in Diagnosed

RunnersOK ==
    /\ runner \in [Runners -> Runner]
    /\ \A r \in Runners : RunnerOK(runner[r])
    /\ OneRebuild

IInv == CheckpointsOK /\ LedgerOK /\ RunnersOK

\* What validation demands, step by step
LEMMA ValidatedIs ==
    ASSUME NEW c \in Checkpoint
    PROVE  /\ c.step \in Steps
           /\ Validated(c) <=>
                /\ c.step \in Diagnosed \cup {"GRADED"} => c.grade # None
                /\ c.step \in Diagnosed => c.mapped /\ c.event # NoEvent
                /\ c.step \in Settled <=> c.decision # None
                /\ ~(c.pending /\ c.refreshed)
<1>1. c.step \in Steps
  BY StepsAre DEF Checkpoint
<1>2. /\ AtLeast(c, "GRADED") <=> c.step \in Diagnosed \cup {"GRADED"}
      /\ AtLeast(c, "DIAGNOSED") <=> c.step \in Diagnosed
      /\ AtLeast(c, "MEMORY_UPDATED") <=> c.step \in Settled
  BY <1>1, StepsFrom DEF AtLeast, Diagnosed, Settled
<1> QED  BY <1>1, <1>2 DEF Validated

LEMMA NewIsSound ==
    ASSUME NEW k \in Keys, NEW n \in Nat
    PROVE  /\ NewCheckpoint(k) \in Checkpoint
           /\ Sound(k, [NewCheckpoint(k) EXCEPT !.rv = n])
           /\ Sound(k, NewCheckpoint(k))
<1> DEFINE c == [NewCheckpoint(k) EXCEPT !.rv = n]
           step == IF k = Start THEN "IDLE" ELSE "ANSWER_RECEIVED"
<1>1. step \in {States[i] : i \in DOMAIN States}
  BY StepsAre DEF Steps
<1>2. NewCheckpoint(k) \in Checkpoint /\ c \in Checkpoint
  BY <1>1 DEF NewCheckpoint, Checkpoint
<1>3. ASSUME NEW d \in Checkpoint, d.step = step, d.decision = None,
             d.grade = None, d.event = NoEvent, ~d.pending, ~d.refreshed
      PROVE  Sound(k, d)
  <2>1. Validated(d)
    BY <1>3, ValidatedIs DEF Diagnosed, Settled
  <2> QED  BY <1>3, <2>1 DEF Sound, Projected, Diagnosed, Settled, None
<1>4. /\ c.step = step /\ c.decision = None /\ ~c.pending /\ ~c.refreshed
      /\ c.grade = None /\ c.event = NoEvent
      /\ NewCheckpoint(k).grade = None /\ NewCheckpoint(k).event = NoEvent
      /\ NewCheckpoint(k).step = step /\ NewCheckpoint(k).decision = None
      /\ ~NewCheckpoint(k).pending /\ ~NewCheckpoint(k).refreshed
  BY DEF NewCheckpoint
<1> HIDE DEF c, step
<1> QED  BY <1>2, <1>3, <1>4 DEF c

LEMMA IdleOK ==
    ASSUME CheckpointsOK
    PROVE  RunnerOK(Idle)
<1>1. Start \in Keys /\ 0 \in Nat
  BY DEF Keys
<1>2. NewCheckpoint(Start) \in Checkpoint /\ Sound(Start, NewCheckpoint(Start))
  BY <1>1, NewIsSound
<1>3. Idle \in Runner
  BY <1>1, <1>2 DEF Idle, Runner
<1>4. Earlier(NewCheckpoint(Start), cp[Start])
  <2>1. cp[Start] \in Checkpoint /\ cp[Start].step \in {"IDLE", "QUESTION_READY"}
        /\ (cp[Start].rv = 0 => cp[Start] = NewCheckpoint(Start))
    BY <1>1 DEF CheckpointsOK, Sound
  <2>2. NewCheckpoint(Start).rv = 0 /\ NewCheckpoint(Start).step = "IDLE"
        /\ NewCheckpoint(Start).event = NoEvent
    BY DEF NewCheckpoint
  <2>3. cp[Start].rv \in Nat
    BY <2>1 DEF Checkpoint
  <2>4. Order("IDLE") <= Order(cp[Start].step)
    BY <2>1, OrderIs
  <2> QED  BY <2>1, <2>2, <2>3, <2>4 DEF Earlier
<1> QED  BY <1>2, <1>3, <1>4 DEF RunnerOK, Idle

LEMMA InitInv == Init => IInv
<1> SUFFICES ASSUME Init PROVE IInv
  OBVIOUS
<1>1. cp = [k \in Keys |-> NewCheckpoint(k)] /\ runner = [r \in Runners |-> Idle]
      /\ recorded = {} /\ counted = {} /\ projection = {} /\ overlapped = FALSE /\ DOMAIN content = Answers
  BY DEF Init, Ledger!LedgerInit
<1>2. CheckpointsOK
  BY <1>1, NewIsSound DEF CheckpointsOK
<1>3. RunnersOK
  <2>1. RunnerOK(Idle) /\ Idle.pc = "idle"
    BY <1>2, IdleOK DEF Idle
  <2> QED  BY <1>1, <2>1 DEF RunnersOK, RunnerOK, OneRebuild, Rebuilding
<1> QED  BY <1>1, <1>2, <1>3 DEF IInv, LedgerOK

(***************************************************************************)
(* The steps.                                                              *)
(***************************************************************************)
\* The body of ProgressKept
Progress ==
    \A k \in Keys :
        /\ Order(cp'[k].step) >= Order(cp[k].step)
        /\ cp[k].grade # None => cp'[k].grade = cp[k].grade
        /\ cp[k].event # NoEvent => cp'[k].event = cp[k].event
        /\ cp'[k] # cp[k] => cp'[k].rv = cp[k].rv + 1

\* A step that leaves the checkpoints alone keeps the progress.
LEMMA NoProgressLost ==
    ASSUME IInv, cp' = cp
    PROVE  Progress
<1> SUFFICES ASSUME NEW k \in Keys
             PROVE  Order(cp[k].step) >= Order(cp[k].step)
  BY DEF Progress
<1>1. cp[k].step \in Steps
  BY ValidatedIs DEF IInv, CheckpointsOK
<1>2. Order(cp[k].step) \in 1..7
  BY <1>1, StepsFrom
<1> QED  BY <1>2

LEMMA Facts ==
    ASSUME IInv, NEW r \in Runners
    PROVE  /\ runner[r] \in Runner /\ runner[r].key \in Keys /\ runner[r].hand \in Checkpoint
           /\ Sound(runner[r].key, runner[r].hand)
           /\ Earlier(runner[r].hand, cp[runner[r].key])
           /\ cp[runner[r].key] \in Checkpoint
           /\ Sound(runner[r].key, cp[runner[r].key])
  BY DEF IInv, RunnersOK, RunnerOK, CheckpointsOK, Runner

\* A step of a handler that leaves the checkpoints alone; memory may grow, and
\* the projection too as long as no two rebuilds overlap.
LEMMA RunnerStep ==
    ASSUME IInv, NEW r \in Runners, NEW x,
           runner' = [runner EXCEPT ![r] = x], UNCHANGED cp,
           counted \subseteq counted', recorded \subseteq recorded',
           overlapped => overlapped',
           overlapped' \/ projection \subseteq projection',
           projection' = projection \/ Rebuilding(r),
           x.pc = "rebuild" =>
                overlapped' \/ \A q \in Runners \ {r} : ~Rebuilding(q),
           LedgerOK', RunnerOK(x)'
    PROVE  IInv' /\ Progress
<1>1. ASSUME NEW k, NEW c, Sound(k, c)
      PROVE  Sound(k, c)'
  BY <1>1 DEF Sound, Projected
<1>2. CheckpointsOK'
  BY <1>1 DEF IInv, CheckpointsOK
<1>3. x \in Runner
  BY DEF RunnerOK, Runner, Checkpoint, Keys
<1>4. \A q \in Runners : runner'[q] = IF q = r THEN x ELSE runner[q]
  BY DEF IInv, RunnersOK
<1>5. ASSUME NEW q \in Runners
      PROVE  RunnerOK(runner[q])'
  <2>1. CASE q = r
    BY <1>4, <2>1
  <2>2. CASE q # r
    <3>1. runner'[q] = runner[q] /\ RunnerOK(runner[q])
      BY <1>4, <2>2 DEF IInv, RunnersOK
    <3>2. Sound(runner[q].key, runner[q].hand)'
      BY <1>1, <3>1 DEF RunnerOK
    <3>3. Projected(runner[q].key) => Projected(runner[q].key)'
      BY <3>1 DEF Projected
    <3>4. runner[q].pc = "rebuild" => overlapped' \/ projection' \subseteq runner[q].sees
      <4>1. CASE projection' = projection
        BY <3>1, <4>1 DEF RunnerOK
      <4>2. CASE Rebuilding(r) /\ runner[q].pc = "rebuild"
        BY <2>2, <4>2 DEF IInv, RunnersOK, OneRebuild, Rebuilding
      <4> QED  BY <4>1, <4>2
    <3>5. runner'[q] \in Runner /\ Earlier(runner[q].hand, cp[runner[q].key])'
      BY <3>1 DEF RunnerOK
    <3> QED  BY <3>1, <3>2, <3>3, <3>4, <3>5 DEF RunnerOK
  <2> QED  BY <2>1, <2>2
<1>6. OneRebuild'
  BY <1>4 DEF IInv, RunnersOK, OneRebuild, Rebuilding
<1>7. RunnersOK'
  BY <1>3, <1>5, <1>6 DEF IInv, RunnersOK
<1> QED  BY <1>2, <1>7, NoProgressLost DEF IInv

LEMMA LedgerKept ==
    ASSUME IInv, UNCHANGED <<cp, memory, model>>
    PROVE  LedgerOK'
  BY DEF IInv, LedgerOK, memory, model

\* A handler that returns leaves everything as it was.
LEMMA ReturnStep ==
    ASSUME IInv, NEW r \in Runners, Return(r), UNCHANGED <<cp, memory, model>>
    PROVE  IInv' /\ Progress
<1>1. CheckpointsOK' /\ LedgerOK'
  <2>1. CheckpointsOK'
    BY DEF IInv, CheckpointsOK, Sound, Projected, memory, model
  <2> QED  BY <2>1, LedgerKept
<1>2. RunnerOK(Idle)'
  <2>1. RunnerOK(Idle)
    BY IdleOK DEF IInv
  <2> QED  BY <2>1 DEF RunnerOK, Sound, Projected, memory, model
<1>3. runner' = [runner EXCEPT ![r] = Idle]
  BY DEF Return
<1>4. Idle.pc = "idle"
  BY DEF Idle
<1> QED  BY <1>1, <1>2, <1>3, <1>4, RunnerStep DEF memory, model

\* A compare-and-set that passes replaces the row by what its handler made of
\* it, and every other handler's copy is an earlier one from then on.
LEMMA PassedStep ==
    ASSUME IInv, NEW r \in Runners, NEW c, MatchesRow(r), Advance(r, c),
           UNCHANGED <<memory, model>>,
           Sound(runner[r].key, c),
           Order(c.step) >= Order(runner[r].hand.step),
           runner[r].hand.grade # None => c.grade = runner[r].hand.grade,
           runner[r].hand.event # NoEvent => c.event = runner[r].hand.event
    PROVE  IInv' /\ Progress
<1> DEFINE k == runner[r].key
           h == runner[r].hand
           next == [c EXCEPT !.rv = cp[k].rv + 1]
<1>1. /\ k \in Keys /\ h \in Checkpoint /\ cp[k] \in Checkpoint /\ h = cp[k]
      /\ Sound(k, h) /\ c \in Checkpoint
  BY Facts DEF MatchesRow, Earlier, Sound
<1>2. /\ cp' = [cp EXCEPT ![k] = next]
      /\ runner' = [runner EXCEPT ![r] = [@ EXCEPT !.pc = "work", !.hand = next, !.result = None]]
      /\ UNCHANGED <<recorded, counted, content, projection, overlapped>>
  BY DEF Advance, memory, model
<1>3. /\ next \in Checkpoint /\ next.step = c.step /\ next.grade = c.grade
      /\ next.mapped = c.mapped /\ next.event = c.event /\ next.decision = c.decision
      /\ next.pending = c.pending /\ next.refreshed = c.refreshed
      /\ next.rv = cp[k].rv + 1 /\ cp[k].rv \in Nat
  BY <1>1 DEF Checkpoint
<1> HIDE DEF next
<1>4. Sound(k, next)
  <2>1. Validated(next)
    <3>1. Validated(c)
      BY DEF Sound, Projected
    <3> QED  BY <1>1, <1>3, <3>1, ValidatedIs
  <2> QED  BY <1>3, <2>1 DEF Sound, Projected
<1>5. \A q \in Keys : cp'[q] = IF q = k THEN next ELSE cp[q]
  BY <1>2 DEF IInv, CheckpointsOK
<1>6. /\ Order(next.step) >= Order(cp[k].step)
      /\ Order(next.step) \in 1..7 /\ Order(cp[k].step) \in 1..7
      /\ cp[k].grade # None => next.grade = cp[k].grade
      /\ cp[k].event # NoEvent => next.event = cp[k].event
  BY <1>1, <1>3, ValidatedIs, StepsFrom
<1>7. Progress
  <2>1. \A q \in Keys : Order(cp[q].step) \in 1..7
    BY ValidatedIs, StepsFrom DEF IInv, CheckpointsOK
  <2> QED  BY <1>3, <1>5, <1>6, <2>1 DEF Progress
<1>8. CheckpointsOK'
  <2>1. cp' \in [Keys -> Checkpoint]
    BY <1>1, <1>2, <1>3 DEF IInv, CheckpointsOK
  <2>2. \A q \in Keys : cp'[q].rv = 0 => cp'[q] = NewCheckpoint(q)
    BY <1>3, <1>5 DEF IInv, CheckpointsOK
  <2>3. ASSUME NEW q \in Keys
        PROVE  Sound(q, cp'[q])
    BY <1>4, <1>5 DEF IInv, CheckpointsOK
  <2>4. ASSUME NEW q, NEW d, Sound(q, d)
        PROVE  Sound(q, d)'
    BY <1>2, <2>4 DEF Sound, Projected
  <2> QED  BY <2>1, <2>2, <2>3, <2>4 DEF CheckpointsOK
<1>9. LedgerOK'
  <2>1. ASSUME NEW q \in recorded
        PROVE  content[q] = cp'[q].event /\ cp'[q].step \in Diagnosed
    <3>1. q \in Keys /\ content[q] = cp[q].event /\ cp[q].step \in Diagnosed
      BY DEF IInv, LedgerOK, Keys
    <3>2. CASE q = k
      <4>1. cp[k].event # NoEvent
        BY <1>1, <3>1, <3>2, ValidatedIs DEF Sound, Projected
      <4>2. Order(next.step) >= Order("DIAGNOSED")
        BY <1>6, <3>1, <3>2, OrderIs DEF Diagnosed
      <4>3. next.step \in Diagnosed
        BY <1>3, <4>2, ValidatedIs, StepsFrom DEF Diagnosed
      <4> QED  BY <1>5, <1>6, <3>1, <3>2, <4>1, <4>3
    <3>3. CASE q # k
      BY <1>5, <3>1, <3>3
    <3> QED  BY <3>2, <3>3
  <2> QED  BY <1>2, <2>1 DEF IInv, LedgerOK
<1>10. RunnersOK'
  <2>1. \A q \in Runners : runner'[q] =
            IF q = r THEN [runner[r] EXCEPT !.pc = "work", !.hand = next, !.result = None]
            ELSE runner[q]
    BY <1>2 DEF IInv, RunnersOK
  <2>2. /\ runner'[r] \in Runner /\ runner'[r].key = k /\ runner'[r].hand = next
        /\ runner'[r].pc = "work"
    BY <1>3, <2>1, Facts DEF Runner
  <2>3. \A q, d : Sound(q, d) => Sound(q, d)'
    BY <1>2 DEF Sound, Projected
  <2>4. RunnerOK(runner[r])'
    <3>1. Earlier(next, cp'[k])
      BY <1>1, <1>3, <1>5, <1>6 DEF Earlier
    <3> QED  BY <1>4, <2>2, <2>3, <3>1 DEF RunnerOK
  <2>5. ASSUME NEW q \in Runners, q # r
        PROVE  RunnerOK(runner[q])'
    <3>1. runner'[q] = runner[q] /\ RunnerOK(runner[q])
      BY <2>1, <2>5 DEF IInv, RunnersOK
    <3>2. Earlier(runner[q].hand, cp'[runner[q].key])
      <4>1. CASE runner[q].key = k
        <5>1. /\ runner[q].hand.rv \in Nat /\ runner[q].hand.rv <= cp[k].rv
              /\ Order(runner[q].hand.step) <= Order(cp[k].step)
              /\ Order(runner[q].hand.step) \in 1..7
              /\ runner[q].hand.event # NoEvent => cp[k].event = runner[q].hand.event
          BY <4>1, Facts, ValidatedIs, StepsFrom DEF Earlier, Checkpoint
        <5>2. runner[q].hand.rv <= next.rv /\ runner[q].hand.rv # next.rv
          BY <1>3, <5>1
        <5>3. Order(runner[q].hand.step) <= Order(next.step)
          BY <1>6, <5>1
        <5>4. cp'[runner[q].key] = next
          BY <1>1, <1>5, <4>1
        <5> QED  BY <1>6, <5>1, <5>2, <5>3, <5>4 DEF Earlier
      <4>2. CASE runner[q].key # k
        BY <1>5, <3>1, <4>2, Facts DEF RunnerOK
      <4> QED  BY <4>1, <4>2
    <3>3. Sound(runner[q].key, runner[q].hand)'
      BY <2>3, <3>1 DEF RunnerOK
    <3>4. UNCHANGED <<recorded, counted, projection, overlapped>>
      BY <1>2
    <3>5. Earlier(runner'[q].hand, cp'[runner'[q].key])
      BY <3>1, <3>2
    <3> QED  BY <3>1, <3>3, <3>4, <3>5 DEF RunnerOK, Projected
  <2>6. runner' \in [Runners -> Runner]
    BY <2>1, <2>2, <1>2 DEF IInv, RunnersOK
  <2>7. OneRebuild'
    BY <1>2, <2>1, <2>2 DEF IInv, RunnersOK, OneRebuild, Rebuilding
  <2> QED  BY <2>4, <2>5, <2>6, <2>7 DEF RunnersOK
<1> QED  BY <1>7, <1>8, <1>9, <1>10 DEF IInv

\* A compare-and-set that fails returns.
LEMMA AdvanceStep ==
    ASSUME IInv, NEW r \in Runners, NEW c, Advance(r, c),
           UNCHANGED <<memory, model>>,
           Sound(runner[r].key, c),
           Order(c.step) >= Order(runner[r].hand.step),
           runner[r].hand.grade # None => c.grade = runner[r].hand.grade,
           runner[r].hand.event # NoEvent => c.event = runner[r].hand.event
    PROVE  IInv' /\ Progress
<1>1. CASE MatchesRow(r)
  BY <1>1, PassedStep
<1>2. CASE ~MatchesRow(r)
  BY <1>2, ReturnStep DEF Advance
<1> QED  BY <1>1, <1>2

\* The checkpoint in hand, with the facts its changes rest on
LEMMA HandFacts ==
    ASSUME IInv, NEW r \in Runners
    PROVE  LET h == runner[r].hand
               k == runner[r].key
           IN  /\ h \in Checkpoint /\ k \in Keys /\ Sound(k, h) /\ Validated(h)
               /\ h.step \in Steps /\ Order(h.step) \in 1..7
               /\ k = Start => h.step \in {"IDLE", "QUESTION_READY"}
               /\ k # Start => h.step \in Diagnosed \cup {"ANSWER_RECEIVED", "GRADED"}
               /\ k # Start => k \in Answers
<1>1. /\ runner[r].hand \in Checkpoint /\ runner[r].key \in Keys
      /\ Sound(runner[r].key, runner[r].hand)
  BY Facts
<1>2. runner[r].hand.step \in Steps /\ Order(runner[r].hand.step) \in 1..7
  BY <1>1, ValidatedIs, StepsFrom
<1> QED  BY <1>1, <1>2 DEF Sound, Projected, Keys

LEMMA LoadStep ==
    ASSUME IInv, NEW r \in Runners, NEW k \in Keys, Load(r, k)
    PROVE  IInv' /\ Progress
<1>0. PICK x : x = [Idle EXCEPT !.pc = IF cp[k].rv = 0 THEN "create" ELSE "work",
                               !.key = k, !.hand = cp[k]]
  OBVIOUS
<1>1. /\ runner' = [runner EXCEPT ![r] = x]
      /\ UNCHANGED <<cp, recorded, counted, content, projection, overlapped>>
  BY <1>0 DEF Load, memory, model
<1>2. LedgerOK'
  BY LedgerKept DEF Load
<1>3. cp[k] \in Checkpoint /\ Sound(k, cp[k])
  BY DEF IInv, CheckpointsOK
<1>4. x \in Runner /\ x.pc \in {"create", "work"} /\ x.key = k /\ x.hand = cp[k]
  BY <1>0, <1>3 DEF Runner, Idle
<1>5. Earlier(cp[k], cp[k])
  <2>1. cp[k].rv \in Nat /\ Order(cp[k].step) \in 1..7
    BY <1>3, ValidatedIs, StepsFrom DEF Checkpoint
  <2> QED  BY <2>1 DEF Earlier
<1>6. RunnerOK(x)
  BY <1>3, <1>4, <1>5 DEF RunnerOK
<1>7. RunnerOK(x)'
  BY <1>1, <1>4, <1>6 DEF RunnerOK, Sound, Projected
<1> QED  BY <1>1, <1>2, <1>4, <1>7, RunnerStep

LEMMA SelectQuestionStep ==
    ASSUME IInv, NEW r \in Runners, SelectQuestion(r)
    PROVE  IInv' /\ Progress
<1> DEFINE h == runner[r].hand
           k == runner[r].key
           c1 == [h EXCEPT !.step = "QUESTION_READY", !.issues = TRUE]
           c2 == [h EXCEPT !.closed = TRUE]
<1>1. /\ h.step = "IDLE" /\ (Advance(r, c1) \/ Advance(r, c2))
      /\ UNCHANGED <<memory, model>>
  BY DEF SelectQuestion, Working
<1>2. h \in Checkpoint /\ Sound(k, h) /\ k = Start /\ Validated(h)
  BY <1>1, HandFacts DEF Diagnosed
<1>3. /\ c1 \in Checkpoint /\ c1.step = "QUESTION_READY" /\ c1.grade = h.grade
      /\ c1.event = h.event /\ c1.decision = h.decision /\ c1.mapped = h.mapped
      /\ c1.pending = h.pending /\ c1.refreshed = h.refreshed
  BY <1>2, StepsAre DEF Checkpoint, Steps
<1>4. /\ c2 \in Checkpoint /\ c2.step = h.step /\ c2.grade = h.grade
      /\ c2.event = h.event /\ c2.decision = h.decision /\ c2.mapped = h.mapped
      /\ c2.pending = h.pending /\ c2.refreshed = h.refreshed
  BY <1>2 DEF Checkpoint
<1> HIDE DEF h, k, c1, c2
<1>5. Validated(c1) /\ Validated(c2)
  BY <1>1, <1>2, <1>3, <1>4, ValidatedIs DEF Diagnosed, Settled
<1>6. Sound(k, c1) /\ Sound(k, c2)
  BY <1>1, <1>2, <1>3, <1>4, <1>5 DEF Sound, Projected, Diagnosed, Settled
<1>7. Order(c1.step) >= Order(h.step) /\ Order(c2.step) >= Order(h.step)
  BY <1>1, <1>3, <1>4, OrderIs
<1> QED  BY <1>1, <1>3, <1>4, <1>6, <1>7, AdvanceStep DEF h, k

LEMMA GradeAnswerStep ==
    ASSUME IInv, NEW r \in Runners, GradeAnswer(r)
    PROVE  IInv' /\ Progress
<1> DEFINE h == runner[r].hand
           k == runner[r].key
<1>1. PICK g \in Grades : Advance(r, [h EXCEPT !.step = "GRADED", !.grade = g])
  BY DEF GradeAnswer
<1> DEFINE c == [h EXCEPT !.step = "GRADED", !.grade = g]
<1>2. h.step = "ANSWER_RECEIVED" /\ UNCHANGED <<memory, model>>
  BY DEF GradeAnswer, Working
<1>3. h \in Checkpoint /\ Sound(k, h) /\ k # Start /\ Validated(h)
  BY <1>2, HandFacts
<1>4. /\ c \in Checkpoint /\ c.step = "GRADED" /\ c.grade = g
      /\ c.event = h.event /\ c.decision = h.decision /\ c.mapped = h.mapped
      /\ c.pending = h.pending /\ c.refreshed = h.refreshed
  BY <1>3, StepsAre DEF Checkpoint, Steps
<1>5. g # None
  BY WorkflowAssumption
<1> HIDE DEF h, k
<1>6. Validated(c)
  BY <1>2, <1>3, <1>4, <1>5, ValidatedIs DEF Diagnosed, Settled
<1>7. h.grade = None /\ h.event = NoEvent
  BY <1>2, <1>3 DEF Sound, Projected, Diagnosed
<1>8. Sound(k, c)
  BY <1>2, <1>3, <1>4, <1>6, <1>7 DEF Sound, Projected, Diagnosed, Settled
<1>9. Order(c.step) >= Order(h.step)
  BY <1>2, <1>4, OrderIs
<1> QED  BY <1>1, <1>2, <1>4, <1>7, <1>8, <1>9, AdvanceStep DEF h, k

LEMMA MapKnowledgeStep ==
    ASSUME IInv, NEW r \in Runners, MapKnowledge(r)
    PROVE  IInv' /\ Progress
<1> DEFINE h == runner[r].hand
           k == runner[r].key
           c == [h EXCEPT !.mapped = TRUE]
<1>1. h.step = "GRADED" /\ Advance(r, c) /\ UNCHANGED <<memory, model>>
  BY DEF MapKnowledge, Working
<1>2. h \in Checkpoint /\ Sound(k, h) /\ Validated(h) /\ Order(h.step) \in 1..7
  BY HandFacts
<1>3. /\ c \in Checkpoint /\ c.step = h.step /\ c.grade = h.grade
      /\ c.event = h.event /\ c.decision = h.decision /\ c.mapped
      /\ c.pending = h.pending /\ c.refreshed = h.refreshed
  BY <1>2 DEF Checkpoint
<1> HIDE DEF h, k, c
<1>4. Validated(c)
  BY <1>2, <1>3, ValidatedIs
<1>5. Sound(k, c)
  BY <1>2, <1>3, <1>4 DEF Sound, Projected
<1>6. Order(c.step) >= Order(h.step)
  BY <1>2, <1>3
<1> QED  BY <1>1, <1>3, <1>5, <1>6, AdvanceStep DEF h, k

LEMMA DiagnoseStep ==
    ASSUME IInv, NEW r \in Runners, Diagnose(r)
    PROVE  IInv' /\ Progress
<1> DEFINE h == runner[r].hand
           k == runner[r].key
<1>1. PICK d \in Diagnoses[h.grade] :
        Advance(r, [h EXCEPT !.step = "DIAGNOSED",
                             !.event = [grade |-> h.grade, diagnosis |-> d]])
  BY DEF Diagnose
<1> DEFINE e == [grade |-> h.grade, diagnosis |-> d]
           c == [h EXCEPT !.step = "DIAGNOSED", !.event = e]
<1>2. h.step = "GRADED" /\ h.mapped /\ UNCHANGED <<memory, model>>
  BY DEF Diagnose, Working
<1>3. h \in Checkpoint /\ Sound(k, h) /\ Validated(h) /\ k # Start
  BY <1>2, HandFacts
<1>4. h.grade # None /\ h.grade \in Grades
  BY <1>2, <1>3, ValidatedIs DEF Checkpoint
<1>5. e \in Event /\ e # NoEvent
  BY <1>4 DEF Event, NoEvent
<1>6. Advance(r, c)
  BY <1>1
<1> HIDE DEF e
<1>7. /\ c \in Checkpoint /\ c.step = "DIAGNOSED" /\ c.grade = h.grade
      /\ c.event = e /\ c.decision = h.decision /\ c.mapped = h.mapped
      /\ c.pending = h.pending /\ c.refreshed = h.refreshed
  BY <1>3, <1>5, StepsAre DEF Checkpoint, Steps
<1> HIDE DEF h, k, c
<1>8. Validated(c)
  BY <1>2, <1>3, <1>4, <1>5, <1>7, ValidatedIs DEF Diagnosed, Settled
<1>9. Sound(k, c) /\ h.event = NoEvent
  BY <1>2, <1>3, <1>7, <1>8 DEF Sound, Projected, Diagnosed, Settled
<1>10. Order(c.step) >= Order(h.step)
  BY <1>2, <1>7, OrderIs
<1> QED  BY <1>2, <1>6, <1>7, <1>9, <1>10, AdvanceStep DEF h, k

LEMMA CreateStep ==
    ASSUME IInv, NEW r \in Runners, Create(r)
    PROVE  IInv' /\ Progress
<1>1. CASE cp[runner[r].key].rv # 0
  BY <1>1, ReturnStep DEF Create
<1>2. CASE cp[runner[r].key].rv = 0
  <2> DEFINE k == runner[r].key
  <2>1. PICK c : c = [NewCheckpoint(k) EXCEPT !.rv = 1]
    OBVIOUS
  <2>2. /\ cp' = [cp EXCEPT ![k] = c]
        /\ runner' = [runner EXCEPT ![r].pc = "work", ![r].hand = c]
        /\ UNCHANGED <<recorded, counted, content, projection, overlapped>>
    BY <1>2, <2>1 DEF Create, memory, model
  <2>3. /\ k \in Keys /\ cp[k] = NewCheckpoint(k) /\ runner[r] \in Runner /\ cp[k] \in Checkpoint
    BY <1>2, Facts DEF IInv, CheckpointsOK
  <2>4. Sound(k, c) /\ c \in Checkpoint
    <3>1. 1 \in Nat
      OBVIOUS
    <3> QED  BY <2>1, <2>3, <3>1, NewIsSound DEF Sound, Projected
  <2>5. /\ c.rv = 1 /\ c.step = cp[k].step /\ c.grade = cp[k].grade /\ c.event = cp[k].event
        /\ cp[k].rv = 0 /\ cp[k].event = NoEvent
    BY <2>1, <2>3 DEF NewCheckpoint
  <2> HIDE DEF k
  <2>6. \A q \in Keys : cp'[q] = IF q = k THEN c ELSE cp[q]
    BY <2>2 DEF IInv, CheckpointsOK
  <2>7. \A q \in Keys : Order(cp[q].step) \in 1..7
    BY ValidatedIs, StepsFrom DEF IInv, CheckpointsOK
  <2>8. Progress
    BY <2>5, <2>6, <2>7 DEF Progress
  <2>9. \A q, d : Sound(q, d) => Sound(q, d)'
    BY <2>2 DEF Sound, Projected
  <2>10. CheckpointsOK'
    <3>1. cp' \in [Keys -> Checkpoint]
      BY <2>2, <2>4 DEF IInv, CheckpointsOK
    <3>2. \A q \in Keys : Sound(q, cp'[q])
      BY <2>4, <2>6 DEF IInv, CheckpointsOK
    <3>3. \A q \in Keys : cp'[q].rv = 0 => cp'[q] = NewCheckpoint(q)
      BY <2>5, <2>6 DEF IInv, CheckpointsOK
    <3> QED  BY <2>9, <3>1, <3>2, <3>3 DEF CheckpointsOK
  <2>11. LedgerOK'
    <3>1. \A q \in recorded : cp'[q].event = cp[q].event /\ cp'[q].step = cp[q].step
      BY <2>5, <2>6 DEF IInv, LedgerOK, Keys
    <3> QED  BY <2>2, <3>1 DEF IInv, LedgerOK
  <2>12. \A q \in Runners : runner'[q] =
            IF q = r THEN [runner[r] EXCEPT !.pc = "work", !.hand = c] ELSE runner[q]
    BY <2>2 DEF IInv, RunnersOK
  <2>13. /\ runner'[r] \in Runner /\ runner'[r].key = k /\ runner'[r].hand = c
         /\ runner'[r].pc = "work"
    BY <2>3, <2>4, <2>12 DEF Runner, k
  <2>14. RunnerOK(runner[r])'
    <3>1. Earlier(c, cp'[k])
      BY <2>3, <2>5, <2>6, <2>7 DEF Earlier
    <3> QED  BY <2>4, <2>9, <2>13, <3>1 DEF RunnerOK
  <2>15. ASSUME NEW q \in Runners, q # r
         PROVE  RunnerOK(runner[q])'
    <3>1. runner'[q] = runner[q] /\ RunnerOK(runner[q])
      BY <2>12, <2>15 DEF IInv, RunnersOK
    <3>2. Earlier(runner[q].hand, cp'[runner[q].key])
      <4>1. CASE runner[q].key = k
        <5>1. /\ runner[q].hand.rv \in Nat /\ runner[q].hand.rv <= cp[k].rv
              /\ Order(runner[q].hand.step) <= Order(cp[k].step)
              /\ runner[q].hand.event # NoEvent => cp[k].event = runner[q].hand.event
          BY <4>1, Facts DEF Earlier, Checkpoint
        <5>2. runner[q].hand.rv <= c.rv /\ runner[q].hand.rv # c.rv
          BY <2>5, <5>1
        <5>3. cp'[runner[q].key] = c
          BY <2>3, <2>6, <4>1
        <5> QED  BY <2>5, <5>1, <5>2, <5>3 DEF Earlier
      <4>2. CASE runner[q].key # k
        BY <2>6, <3>1, <4>2, Facts DEF RunnerOK
      <4> QED  BY <4>1, <4>2
    <3>3. Sound(runner[q].key, runner[q].hand)'
      BY <2>9, <3>1 DEF RunnerOK
    <3>4. UNCHANGED <<recorded, counted, projection, overlapped>>
      BY <2>2
    <3>5. Earlier(runner'[q].hand, cp'[runner'[q].key])
      BY <3>1, <3>2
    <3> QED  BY <3>1, <3>3, <3>4, <3>5 DEF RunnerOK, Projected
  <2>16. runner' \in [Runners -> Runner]
    BY <2>2, <2>12, <2>13 DEF IInv, RunnersOK
  <2>17. OneRebuild'
    BY <2>2, <2>12, <2>13 DEF IInv, RunnersOK, OneRebuild, Rebuilding
  <2> QED  BY <2>8, <2>10, <2>11, <2>14, <2>15, <2>16, <2>17 DEF IInv, RunnersOK
<1> QED  BY <1>1, <1>2

LEMMA WriteEventStep ==
    ASSUME IInv, NEW r \in Runners, WriteEvent(r)
    PROVE  IInv' /\ Progress
<1> DEFINE k == runner[r].key
           h == runner[r].hand
<1>1. PICK x : x = [runner[r] EXCEPT !.pc = "written",
                         !.result = IF k \in counted' THEN "mutated" ELSE "unchanged"]
  OBVIOUS
<1>2. /\ runner[r].pc = "work" /\ h.step = "DIAGNOSED" /\ k \notin recorded
      /\ recorded' = recorded \cup {k} /\ (counted' = counted \cup {k} \/ counted' = counted)
      /\ content' = [content EXCEPT ![k] = h.event] /\ UNCHANGED <<cp, projection, overlapped>>
  BY DEF WriteEvent, Working, Ledger!Record, model
<1>3. runner' = [runner EXCEPT ![r] = x]
  <2>1. [runner EXCEPT ![r].pc = "written",
                       ![r].result = IF k \in counted' THEN "mutated" ELSE "unchanged"]
        = [runner EXCEPT ![r] = x]
    BY <1>1 DEF IInv, RunnersOK
  <2> QED  BY <2>1 DEF WriteEvent, Written
<1>4. /\ h \in Checkpoint /\ k \in Answers /\ k \in Keys /\ Sound(k, h) /\ Earlier(h, cp[k])
      /\ Validated(h) /\ cp[k] \in Checkpoint /\ runner[r] \in Runner
  BY <1>2, Facts, HandFacts
<1>5. h.event # NoEvent /\ cp[k].event = h.event
  BY <1>2, <1>4, ValidatedIs DEF Earlier, Diagnosed
<1>6. cp[k].step \in Diagnosed
  <2>1. Order(cp[k].step) >= Order("DIAGNOSED") /\ cp[k].step \in Steps
    <3>1. cp[k].step \in Steps /\ Order(h.step) <= Order(cp[k].step)
      BY <1>4, ValidatedIs DEF Earlier
    <3>2. Order(cp[k].step) \in 1..7 /\ Order("DIAGNOSED") = 5
      BY <3>1, StepsFrom, OrderIs
    <3> QED  BY <1>2, <3>1, <3>2
  <2> QED  BY <2>1, StepsFrom DEF Diagnosed
<1>7. LedgerOK'
  <2>1. \A q \in Answers : content'[q] = IF q = k THEN h.event ELSE content[q]
    BY <1>2 DEF IInv, LedgerOK
  <2>2. DOMAIN content' = Answers
    BY <1>2 DEF IInv, LedgerOK
  <2>3. /\ counted' \subseteq recorded' /\ recorded' \subseteq Answers
        /\ projection' \subseteq counted'
    BY <1>2, <1>4 DEF IInv, LedgerOK
  <2>4. ASSUME NEW q \in recorded'
        PROVE  content'[q] = cp[q].event /\ cp[q].step \in Diagnosed
    BY <1>2, <1>5, <1>6, <2>1, <2>3, <2>4 DEF IInv, LedgerOK
  <2>5. overlapped' \in BOOLEAN
    BY <1>2 DEF IInv, LedgerOK
  <2> QED  BY <1>2, <2>2, <2>3, <2>4, <2>5 DEF LedgerOK
<1>8. /\ x \in Runner /\ x.key = k /\ x.hand = h /\ x.pc = "written"
      /\ x.result = IF k \in counted' THEN "mutated" ELSE "unchanged"
  BY <1>1, <1>4 DEF Runner
<1>9. /\ recorded \subseteq recorded' /\ counted \subseteq counted' /\ projection \subseteq projection'
  BY <1>2
<1> HIDE DEF k, h
<1>10. PICK hh, kk : hh = h /\ kk = k
  OBVIOUS
<1>11. Sound(kk, hh)'
  BY <1>2, <1>4, <1>9, <1>10 DEF Sound, Projected
<1>12. RunnerOK(x)'
  <2>1. Earlier(hh, cp'[kk])
    BY <1>2, <1>4, <1>10
  <2>2. kk \in recorded' /\ hh.step = "DIAGNOSED"
    BY <1>2, <1>10
  <2>3. x.key = kk /\ x.hand = hh
    BY <1>8, <1>10
  <2>4. x.result # None /\ (x.result = "mutated" => kk \in counted')
    BY <1>8, <1>10 DEF None
  <2> QED  BY <1>8, <1>11, <2>1, <2>2, <2>3, <2>4 DEF RunnerOK
<1> QED  BY <1>2, <1>3, <1>7, <1>8, <1>9, <1>12, RunnerStep

LEMMA RewriteEventStep ==
    ASSUME IInv, NEW r \in Runners, RewriteEvent(r)
    PROVE  IInv' /\ Progress
<1>1. CASE Return(r)
  BY <1>1, ReturnStep DEF RewriteEvent
<1>2. CASE Written(r, "unchanged")
  <2>1. PICK x : x = [runner[r] EXCEPT !.pc = "written", !.result = "unchanged"]
    OBVIOUS
  <2>2. runner' = [runner EXCEPT ![r] = x]
    BY <1>2, <2>1 DEF Written, IInv, RunnersOK
  <2>3. /\ runner[r].hand.step = "DIAGNOSED" /\ runner[r].key \in recorded
        /\ UNCHANGED <<cp, memory, model>>
    BY DEF RewriteEvent, Working
  <2>4. RunnerOK(x)
    <3>1. /\ x \in Runner /\ x.key = runner[r].key /\ x.hand = runner[r].hand
          /\ x.pc = "written" /\ x.result = "unchanged"
      BY <2>1, Facts DEF Runner
    <3> QED  BY <2>3, <3>1, Facts DEF RunnerOK, None
  <2>5. RunnerOK(x)'
    BY <2>3, <2>4 DEF RunnerOK, Sound, Projected, memory, model
  <2>6. x.pc = "written"
    BY <2>1, Facts DEF Runner
  <2> QED  BY <2>2, <2>3, <2>5, <2>6, LedgerKept, RunnerStep DEF memory, model
<1> QED  BY <1>1, <1>2 DEF RewriteEvent

LEMMA SaveWriteStep ==
    ASSUME IInv, NEW r \in Runners, SaveWrite(r)
    PROVE  IInv' /\ Progress
<1> DEFINE h == runner[r].hand
           k == runner[r].key
           res == runner[r].result
           c == WithResult(h, res)
<1>1. runner[r].pc = "written" /\ Advance(r, c) /\ UNCHANGED <<memory, model>>
  BY DEF SaveWrite
<1>2. /\ h \in Checkpoint /\ Sound(k, h) /\ Validated(h) /\ k \in Answers /\ k # Start
      /\ h.step = "DIAGNOSED" /\ k \in recorded /\ res \in {"mutated", "unchanged"}
      /\ res = "mutated" => k \in counted
  <2>1. RunnerOK(runner[r]) /\ LedgerOK
    BY DEF IInv, RunnersOK
  <2> QED  BY <1>1, <2>1, HandFacts, WorkflowAssumption DEF RunnerOK, Runner, LedgerOK
<1>3. /\ c \in Checkpoint /\ c.step = "MEMORY_UPDATED" /\ c.grade = h.grade
      /\ c.event = h.event /\ c.decision = res /\ c.mapped = h.mapped
      /\ c.pending = (res = "mutated") /\ c.refreshed = (res # "mutated")
  BY <1>2, StepsAre DEF Checkpoint, Steps, WithResult, RefreshDue
<1> HIDE DEF h, k, res, c
<1>4. Validated(c)
  BY <1>2, <1>3, ValidatedIs DEF Diagnosed, Settled, None
<1>5. Sound(k, c)
  BY <1>2, <1>3, <1>4 DEF Sound, Projected, Diagnosed, Settled
<1>6. Order(c.step) >= Order(h.step)
  BY <1>2, <1>3, OrderIs
<1> QED  BY <1>1, <1>3, <1>5, <1>6, AdvanceStep DEF h, k

LEMMA BeginRefreshStep ==
    ASSUME IInv, NEW r \in Runners, BeginRefresh(r)
    PROVE  IInv' /\ Progress
<1>1. PICK x : x = [runner[r] EXCEPT !.pc = "rebuild", !.sees = counted]
  OBVIOUS
<1>2. runner' = [runner EXCEPT ![r] = x]
  <2>1. [runner EXCEPT ![r].pc = "rebuild", ![r].sees = counted] = [runner EXCEPT ![r] = x]
    BY <1>1 DEF IInv, RunnersOK
  <2> QED  BY <2>1 DEF BeginRefresh
<1>3. /\ runner[r].hand.pending /\ runner[r].pc = "work"
      /\ UNCHANGED <<cp, recorded, counted, content, projection>>
      /\ overlapped' = (overlapped \/ \E q \in Runners \ {r} : Rebuilding(q))
  BY DEF BeginRefresh, memory
<1>4. /\ counted \subseteq Answers /\ projection \subseteq counted
      /\ overlapped \in BOOLEAN /\ overlapped' \in BOOLEAN
  BY <1>3 DEF IInv, LedgerOK
<1>5. /\ x \in Runner /\ x.key = runner[r].key /\ x.hand = runner[r].hand
      /\ x.pc = "rebuild" /\ x.sees = counted
  BY <1>1, <1>4, Facts DEF Runner
<1>6. LedgerOK'
  BY <1>3, <1>4 DEF IInv, LedgerOK
<1>7. /\ Sound(x.key, x.hand) /\ Earlier(x.hand, cp[x.key])
  BY <1>5, Facts
<1>8. Sound(x.key, x.hand)'
  BY <1>3, <1>4, <1>7 DEF Sound, Projected
<1>9. x.hand.decision = "mutated" => x.key \in x.sees
  BY <1>5, <1>7 DEF Sound
<1>10. RunnerOK(x)'
  BY <1>3, <1>4, <1>5, <1>7, <1>8, <1>9 DEF RunnerOK
<1>11. /\ overlapped => overlapped'
       /\ overlapped' \/ \A q \in Runners \ {r} : ~Rebuilding(q)
  BY <1>3
<1> QED  BY <1>2, <1>3, <1>6, <1>10, <1>11, RunnerStep

LEMMA CommitRefreshStep ==
    ASSUME IInv, NEW r \in Runners, CommitRefresh(r)
    PROVE  IInv' /\ Progress
<1>1. PICK x : x = [runner[r] EXCEPT !.pc = "refreshed", !.sees = {}]
  OBVIOUS
<1>2. runner' = [runner EXCEPT ![r] = x]
  <2>1. [runner EXCEPT ![r].pc = "refreshed", ![r].sees = {}] = [runner EXCEPT ![r] = x]
    BY <1>1 DEF IInv, RunnersOK
  <2> QED  BY <2>1 DEF CommitRefresh
<1>3. /\ Rebuilding(r) /\ projection' = runner[r].sees
      /\ UNCHANGED <<cp, recorded, counted, content, overlapped>>
  BY DEF CommitRefresh, memory
<1>4. /\ runner[r].hand.pending /\ runner[r].sees \subseteq counted
      /\ runner[r].hand.decision = "mutated" => runner[r].key \in runner[r].sees
      /\ overlapped \/ projection \subseteq runner[r].sees
  BY <1>3 DEF IInv, RunnersOK, RunnerOK, Rebuilding
<1>5. /\ x \in Runner /\ x.key = runner[r].key /\ x.hand = runner[r].hand
      /\ x.pc = "refreshed"
  BY <1>1, Facts DEF Runner
<1>6. LedgerOK' /\ (overlapped' \/ projection \subseteq projection')
  BY <1>3, <1>4 DEF IInv, LedgerOK
<1>7. /\ Sound(x.key, x.hand) /\ Earlier(x.hand, cp[x.key])
  BY <1>5, Facts
<1>8. Sound(x.key, x.hand)'
  BY <1>3, <1>6, <1>7 DEF Sound, Projected
<1>9. x.hand.decision = "mutated" => Projected(x.key)'
  BY <1>3, <1>4, <1>5 DEF Projected
<1>10. RunnerOK(x)'
  BY <1>3, <1>4, <1>5, <1>7, <1>8, <1>9 DEF RunnerOK
<1> QED  BY <1>2, <1>3, <1>5, <1>6, <1>10, RunnerStep

LEMMA SaveRefreshStep ==
    ASSUME IInv, NEW r \in Runners, SaveRefresh(r)
    PROVE  IInv' /\ Progress
<1> DEFINE h == runner[r].hand
           k == runner[r].key
           c == [h EXCEPT !.pending = FALSE, !.refreshed = TRUE]
<1>1. runner[r].pc = "refreshed" /\ Advance(r, c) /\ UNCHANGED <<memory, model>>
  BY DEF SaveRefresh
<1>2. /\ h \in Checkpoint /\ Sound(k, h) /\ Validated(h) /\ Order(h.step) \in 1..7
      /\ h.decision = "mutated" => Projected(k)
  <2>1. RunnerOK(runner[r])
    BY DEF IInv, RunnersOK
  <2> QED  BY <1>1, <2>1, HandFacts DEF RunnerOK
<1>3. /\ c \in Checkpoint /\ c.step = h.step /\ c.grade = h.grade
      /\ c.event = h.event /\ c.decision = h.decision /\ c.mapped = h.mapped
      /\ ~c.pending /\ c.refreshed
  BY <1>2 DEF Checkpoint
<1> HIDE DEF h, k, c
<1>4. Validated(c)
  BY <1>2, <1>3, ValidatedIs
<1>5. Sound(k, c)
  BY <1>2, <1>3, <1>4 DEF Sound, Projected
<1>6. Order(c.step) >= Order(h.step)
  BY <1>2, <1>3
<1> QED  BY <1>1, <1>3, <1>5, <1>6, AdvanceStep DEF h, k

LEMMA CompleteCatalogStep ==
    ASSUME IInv, NEW r \in Runners, CompleteCatalog(r)
    PROVE  IInv' /\ Progress
<1> DEFINE h == runner[r].hand
           k == runner[r].key
           c == [h EXCEPT !.closed = TRUE]
<1>1. Advance(r, c) /\ UNCHANGED <<memory, model>>
  BY DEF CompleteCatalog
<1>2. h \in Checkpoint /\ Sound(k, h) /\ Validated(h) /\ Order(h.step) \in 1..7
  BY HandFacts
<1>3. /\ c \in Checkpoint /\ c.step = h.step /\ c.grade = h.grade
      /\ c.event = h.event /\ c.decision = h.decision /\ c.mapped = h.mapped
      /\ c.pending = h.pending /\ c.refreshed = h.refreshed
  BY <1>2 DEF Checkpoint
<1> HIDE DEF h, k, c
<1>4. Validated(c)
  BY <1>2, <1>3, ValidatedIs
<1>5. Sound(k, c)
  BY <1>2, <1>3, <1>4 DEF Sound, Projected
<1>6. Order(c.step) >= Order(h.step)
  BY <1>2, <1>3
<1> QED  BY <1>1, <1>3, <1>5, <1>6, AdvanceStep DEF h, k

LEMMA RecommendStep ==
    ASSUME IInv, NEW r \in Runners, Recommend(r)
    PROVE  IInv' /\ Progress
<1> DEFINE h == runner[r].hand
           k == runner[r].key
<1>1. PICK q \in BOOLEAN : Advance(r, [h EXCEPT !.step = "RECOMMENDED", !.issues = q])
  BY DEF Recommend
<1> DEFINE c == [h EXCEPT !.step = "RECOMMENDED", !.issues = q]
<1>2. h.step = "MEMORY_UPDATED" /\ UNCHANGED <<memory, model>>
  BY DEF Recommend, Working
<1>3. h \in Checkpoint /\ Sound(k, h) /\ Validated(h) /\ k # Start
  BY <1>2, HandFacts
<1>4. /\ c \in Checkpoint /\ c.step = "RECOMMENDED" /\ c.grade = h.grade
      /\ c.event = h.event /\ c.decision = h.decision /\ c.mapped = h.mapped
      /\ c.pending = h.pending /\ c.refreshed = h.refreshed
  BY <1>3, StepsAre DEF Checkpoint, Steps
<1>5. Advance(r, c)
  BY <1>1
<1> HIDE DEF h, k, c
<1>6. Validated(c)
  BY <1>2, <1>3, <1>4, ValidatedIs DEF Diagnosed, Settled
<1>7. Sound(k, c)
  BY <1>2, <1>3, <1>4, <1>6 DEF Sound, Projected, Diagnosed, Settled
<1>8. Order(c.step) >= Order(h.step)
  BY <1>2, <1>4, OrderIs
<1> QED  BY <1>2, <1>4, <1>5, <1>7, <1>8, AdvanceStep DEF h, k

LEMMA RespondStep ==
    ASSUME IInv, NEW r \in Runners, Respond(r) \/ Fail(r)
    PROVE  IInv' /\ Progress
  BY ReturnStep DEF Respond, Fail

LEMMA NextInv ==
    ASSUME IInv, [Next]_vars
    PROVE  IInv' /\ [Progress]_vars
<1>1. CASE Next
  BY <1>1, LoadStep, CreateStep, SelectQuestionStep, GradeAnswerStep, MapKnowledgeStep,
     DiagnoseStep, WriteEventStep, RewriteEventStep, SaveWriteStep, BeginRefreshStep,
     CommitRefreshStep, SaveRefreshStep, CompleteCatalogStep, RecommendStep, RespondStep DEF Next, Work
<1>2. CASE UNCHANGED vars
  <2>1. CheckpointsOK' /\ LedgerOK'
    BY <1>2 DEF IInv, CheckpointsOK, LedgerOK, Sound, Projected, vars, memory, model
  <2>2. RunnersOK'
    BY <1>2 DEF IInv, RunnersOK, RunnerOK, OneRebuild, Rebuilding, Sound, Projected, vars, memory, model
  <2> QED  BY <1>2, <2>1, <2>2 DEF IInv
<1> QED  BY <1>1, <1>2

LEMMA Invariance == Spec => [](IInv)
<1>1. Init => IInv
  BY InitInv
<1>2. IInv /\ [Next]_vars => IInv'
  BY NextInv
<1> QED  BY <1>1, <1>2, PTL DEF Spec

(***************************************************************************)
(* The theorems.                                                           *)
(***************************************************************************)
\* Every stored checkpoint can be read back by a retry: it has the material its
\* step needs, whatever the grader said and wherever handlers failed.
THEOREM TypeCorrect == Spec => []TypeOK
<1>1. IInv => TypeOK
  <2> SUFFICES ASSUME IInv PROVE TypeOK
    OBVIOUS
  <2>1. \A k \in Keys : Validated(cp[k])
    BY DEF IInv, CheckpointsOK, Sound
  <2> QED  BY <2>1 DEF IInv, CheckpointsOK, LedgerOK, RunnersOK, Runner, TypeOK
<1> QED  BY <1>1, Invariance, PTL

\* One grading per answer reaches memory, however many handlers graded it.
THEOREM EventMatchesCheckpointHolds == Spec => []EventMatchesCheckpoint
<1>1. IInv => EventMatchesCheckpoint
  BY DEF IInv, LedgerOK, EventMatchesCheckpoint
<1> QED  BY <1>1, Invariance, PTL

\* No checkpoint claims a memory write that did not happen.
THEOREM CheckpointBackedHolds == Spec => []CheckpointBacked
<1>1. ASSUME IInv PROVE CheckpointBacked
  <2> SUFFICES ASSUME NEW k \in Answers
               PROVE  /\ AtLeast(cp[k], "MEMORY_UPDATED") => k \in recorded
                      /\ cp[k].decision = "mutated" => k \in counted
    BY DEF CheckpointBacked
  <2>1. cp[k] \in Checkpoint /\ Sound(k, cp[k])
    BY <1>1 DEF IInv, CheckpointsOK, Keys
  <2>2. AtLeast(cp[k], "MEMORY_UPDATED") => cp[k].step \in Settled
    BY <2>1, ValidatedIs, StepsFrom DEF AtLeast, Settled
  <2> QED  BY <2>1, <2>2 DEF Sound, Projected
<1> QED  BY <1>1, Invariance, PTL

\* Unless two rebuilds overlapped, a change whose refresh a checkpoint calls done
\* is in the student model, and the rebuilds of other handlers keep it there.
THEOREM RefreshedIsProjectedHolds == Spec => []RefreshedIsProjected
<1>1. IInv => RefreshedIsProjected
  BY DEF IInv, CheckpointsOK, Sound, Projected, Keys, RefreshedIsProjected
<1> QED  BY <1>1, Invariance, PTL

\* Stored progress is never undone, by no retry and by no competing handler.
THEOREM ProgressKeptHolds == Spec => ProgressKept
<1>1. IInv /\ [Next]_vars => [Progress]_vars
  BY NextInv
<1>2. Spec => [][Progress]_vars
  BY <1>1, Invariance, PTL DEF Spec
<1> QED  BY <1>2 DEF ProgressKept, Progress
=============================================================================
