-------------------------- MODULE PracticeWorkflow --------------------------
(* The checkpointed saga of one practice session (exam_mem/practice/
   workflow.py): a first request selects a question, every answer is graded,
   mapped, diagnosed, written to memory, projected and followed by the next
   question.  The output of each completed step is stored in the answer's
   checkpoint by a compare-and-set on its row version.

   Runners are request handlers.  Any of them may work on any request, two at
   once on the same one; one that fails, for whatever reason, forgets what it
   had in hand, and the request may be sent again.  Each checkpoint operation
   and the memory write commit in transactions of their own.

   The memory write is the EvidenceLedger that LifecycleStore implements: an
   event is recorded once and counts at that moment or never. *)
EXTENDS Naturals, FiniteSets

CONSTANTS
    Answers,      \* the answer requests of the session (idempotency keys)
    Start,        \* the checkpoint key of the opening request
    IssuedBy,     \* the request whose recommendation an answer replies to
    LastAnswers,  \* the answers that complete the session's catalog
    Runners,      \* concurrent request handlers
    Diagnoses,    \* what may be diagnosed on each grade the grader can give
    MaxFailures   \* bound on the number of failed requests

Keys   == Answers \cup {Start}
Grades == DOMAIN Diagnoses
None   == "none"

ASSUME WorkflowAssumption ==
    /\ Start \notin Answers
    /\ IssuedBy \in [Answers -> Keys]
    /\ LastAnswers \subseteq Answers
    /\ None \notin Grades
    /\ MaxFailures \in Nat

VARIABLES
    cp,          \* practice_workflow_checkpoints; row version 0: no row
    runner,      \* what each handler is doing
    recorded,    \* L1: the answers whose event is stored
    counted,     \* L2: the answers that are provenance of a memory
    content,     \* the event each recorded answer was stored with
    history,     \* the L1 events each recorded decision was taken on
    projection,  \* L3: the counted answers the rebuild that committed last has read
    overlapped,  \* two rebuilds have run at the same time
    failures     \* failed requests so far

memory == <<recorded, counted, content, history>>
model  == <<projection, overlapped>>
vars   == <<cp, runner, memory, model, failures>>

Event   == [grade : Grades, diagnosis : UNION {Diagnoses[g] : g \in Grades}]
NoEvent == [grade |-> None, diagnosis |-> None]

States == <<"IDLE", "QUESTION_READY", "ANSWER_RECEIVED", "GRADED", "DIAGNOSED",
            "MEMORY_UPDATED", "RECOMMENDED">>
Order(s) == CHOOSE i \in DOMAIN States : States[i] = s
AtLeast(c, s) == Order(c.step) >= Order(s)

NewCheckpoint(k) ==
    [rv |-> 0, step |-> IF k = Start THEN "IDLE" ELSE "ANSWER_RECEIVED",
     grade |-> None, mapped |-> FALSE, event |-> NoEvent, decision |-> None,
     pending |-> FALSE, refreshed |-> FALSE, closed |-> FALSE, issues |-> FALSE]

\* "sees": what the rebuild under way has read of L2.
Idle == [pc |-> "idle", key |-> Start, hand |-> NewCheckpoint(Start), result |-> None,
         sees |-> {}]

Ledger == INSTANCE EvidenceLedger WITH Events <- Answers

Init ==
    /\ cp = [k \in Keys |-> NewCheckpoint(k)]
    /\ runner = [r \in Runners |-> Idle]
    /\ Ledger!LedgerInit
    /\ content = [k \in Answers |-> NoEvent]
    /\ history = [k \in Answers |-> {}]
    /\ projection = {} /\ overlapped = FALSE
    /\ failures = 0

(***************************************************************************)
(* Requests.                                                               *)
(***************************************************************************)
\* Faulty variant: an answer that has a checkpoint is refused as a duplicate.
MayRequestOnce(k) == k # Start => cp[IssuedBy[k]].issues /\ cp[k].rv = 0

\* find_issued_question: some checkpoint of the session issued the question.
MayRequest(k) == k # Start => cp[IssuedBy[k]].issues

Load(r, k) ==
    /\ runner[r].pc = "idle"
    /\ MayRequest(k)
    /\ runner' = [runner EXCEPT ![r] =
                    [Idle EXCEPT !.pc = IF cp[k].rv = 0 THEN "create" ELSE "work",
                                 !.key = k, !.hand = cp[k]]]
    /\ UNCHANGED <<cp, memory, model, failures>>

Return(r) == runner' = [runner EXCEPT ![r] = Idle]

\* INSERT .. ON CONFLICT DO NOTHING; the loser of a race is told to retry.
Create(r) ==
    LET k == runner[r].key
        c == [NewCheckpoint(k) EXCEPT !.rv = 1]
    IN  /\ runner[r].pc = "create"
        /\ \/ /\ cp[k].rv = 0
              /\ cp' = [cp EXCEPT ![k] = c]
              /\ runner' = [runner EXCEPT ![r].pc = "work", ![r].hand = c]
           \/ /\ cp[k].rv # 0
              /\ Return(r)
              /\ UNCHANGED cp
        /\ UNCHANGED <<memory, model, failures>>

\* Faulty variant: the update forgets the expected row version.
MatchesAnyRow(r) == TRUE

\* The stored row is at the version the runner read.
MatchesRow(r) == cp[runner[r].key].rv = runner[r].hand.rv

\* advance: the compare-and-set that makes a step's output durable, or the
\* error practice_checkpoint_cas_stale.
Advance(r, c) ==
    LET next == [c EXCEPT !.rv = cp[runner[r].key].rv + 1]
    IN  \/ /\ MatchesRow(r)
           /\ cp' = [cp EXCEPT ![runner[r].key] = next]
           /\ runner' = [runner EXCEPT ![r].pc = "work", ![r].hand = next,
                                       ![r].result = None]
        \/ /\ ~MatchesRow(r)
           /\ Return(r)
           /\ UNCHANGED cp

(***************************************************************************)
(* The steps of a request, each decided by the checkpoint in hand.         *)
(***************************************************************************)
Working(r, s) == runner[r].pc = "work" /\ runner[r].hand.step = s

\* The opening request: a question, or the advice that there is none.
SelectQuestion(r) ==
    LET h == runner[r].hand
    IN  /\ Working(r, "IDLE")
        /\ ~h.closed
        /\ \/ Advance(r, [h EXCEPT !.step = "QUESTION_READY", !.issues = TRUE])
           \/ Advance(r, [h EXCEPT !.closed = TRUE])
        /\ UNCHANGED <<memory, model, failures>>

\* A fresh grade, or the stored grade of the same answer to the same question.
GradeAnswer(r) ==
    /\ Working(r, "ANSWER_RECEIVED")
    /\ \E g \in Grades :
        Advance(r, [runner[r].hand EXCEPT !.step = "GRADED", !.grade = g])
    /\ UNCHANGED <<memory, model, failures>>

MapKnowledge(r) ==
    /\ Working(r, "GRADED")
    /\ ~runner[r].hand.mapped
    /\ Advance(r, [runner[r].hand EXCEPT !.mapped = TRUE])
    /\ UNCHANGED <<memory, model, failures>>

\* The diagnosis fixes the learning event and its memory candidates.
Diagnose(r) ==
    LET h == runner[r].hand
    IN  /\ Working(r, "GRADED")
        /\ h.mapped
        /\ \E d \in Diagnoses[h.grade] :
            Advance(r, [h EXCEPT !.step = "DIAGNOSED",
                                 !.event = [grade |-> h.grade, diagnosis |-> d]])
        /\ UNCHANGED <<memory, model, failures>>

Written(r, result) ==
    runner' = [runner EXCEPT ![r].pc = "written", ![r].result = result]

\* The first write of the event: L1, L2 and audit in one transaction.
WriteEvent(r) ==
    LET k == runner[r].key
    IN  /\ Working(r, "DIAGNOSED")
        /\ Ledger!Record(k)
        /\ content' = [content EXCEPT ![k] = runner[r].hand.event]
        /\ history' = [history EXCEPT ![k] = recorded]
        /\ Written(r, IF k \in counted' THEN "mutated" ELSE "unchanged")
        /\ UNCHANGED <<cp, model, failures>>

\* A repeated write finds the same event: what L2 holds is answered as a
\* replay; what it does not hold meets its recorded decision, provided that
\* the decision would be taken on the same history, and is refused otherwise.
Answered(k, event) ==
    /\ content[k] = event
    /\ k \in counted \/ recorded \ {k} = history[k]

RewriteEvent(r) ==
    LET k == runner[r].key
    IN  /\ Working(r, "DIAGNOSED")
        /\ k \in recorded
        /\ \/ Answered(k, runner[r].hand.event) /\ Written(r, "unchanged")
           \/ ~Answered(k, runner[r].hand.event) /\ Return(r)
        /\ UNCHANGED <<cp, memory, model, failures>>

\* Faulty variant: the write is taken for a mere replay, nothing is pending.
NothingPending(result) == FALSE

\* Only a write that changed L2 returns projection requests.
RefreshDue(result) == result = "mutated"

\* Faulty variant: the result is stored and the step left where it was.
WithResultOnly(c, result) ==
    [c EXCEPT !.decision = result, !.pending = RefreshDue(result),
              !.refreshed = ~RefreshDue(result)]

WithResult(c, result) ==
    [c EXCEPT !.step = "MEMORY_UPDATED", !.decision = result,
              !.pending = RefreshDue(result), !.refreshed = ~RefreshDue(result)]

\* Faulty variant: the checkpoint runs ahead of the write.
SaveWriteAhead(r) ==
    /\ Working(r, "DIAGNOSED")
    /\ Advance(r, WithResult(runner[r].hand, "mutated"))
    /\ UNCHANGED <<memory, model, failures>>

SaveWrite(r) ==
    /\ runner[r].pc = "written"
    /\ Advance(r, WithResult(runner[r].hand, runner[r].result))
    /\ UNCHANGED <<memory, model, failures>>

\* refresh_after_commit: the student model is rebuilt from L1 and L2 in a
\* transaction of its own.  ProjectionRebuild has its statements; what counts here
\* is that L2 is read in one of them and replaces L3 at COMMIT.
Rebuilding(r) == runner[r].pc = "rebuild"

BeginRefresh(r) ==
    /\ runner[r].pc = "work"
    /\ runner[r].hand.pending
    /\ runner' = [runner EXCEPT ![r].pc = "rebuild", ![r].sees = counted]
    /\ overlapped' = (overlapped \/ \E q \in Runners \ {r} : Rebuilding(q))
    /\ UNCHANGED <<cp, memory, projection, failures>>

CommitRefresh(r) ==
    /\ Rebuilding(r)
    /\ projection' = runner[r].sees
    /\ runner' = [runner EXCEPT ![r].pc = "refreshed", ![r].sees = {}]
    /\ UNCHANGED <<cp, memory, overlapped, failures>>

SaveRefresh(r) ==
    /\ runner[r].pc = "refreshed"
    /\ Advance(r, [runner[r].hand EXCEPT !.pending = FALSE, !.refreshed = TRUE])
    /\ UNCHANGED <<memory, model, failures>>

CompleteCatalog(r) ==
    LET h == runner[r].hand
    IN  /\ Working(r, "MEMORY_UPDATED")
        /\ ~h.pending /\ ~h.closed
        /\ runner[r].key \in LastAnswers
        /\ Advance(r, [h EXCEPT !.closed = TRUE])
        /\ UNCHANGED <<memory, model, failures>>

\* The next question, or the advice that there is none.
Recommend(r) ==
    LET h == runner[r].hand
    IN  /\ Working(r, "MEMORY_UPDATED")
        /\ ~h.pending
        /\ runner[r].key \notin LastAnswers
        /\ \E q \in BOOLEAN :
            Advance(r, [h EXCEPT !.step = "RECOMMENDED", !.issues = q])
        /\ UNCHANGED <<memory, model, failures>>

\* Nothing is left to do for this checkpoint.
Complete(c) ==
    /\ c.rv > 0
    /\ ~c.pending
    /\ c.closed \/ c.step \in {"QUESTION_READY", "RECOMMENDED"}

Respond(r) ==
    /\ runner[r].pc = "work"
    /\ Complete(runner[r].hand)
    /\ Return(r)
    /\ UNCHANGED <<cp, memory, model, failures>>

\* A tool error, a refused write, a crash of the handler.
Fail(r) ==
    /\ runner[r].pc # "idle"
    /\ failures < MaxFailures
    /\ failures' = failures + 1
    /\ Return(r)
    /\ UNCHANGED <<cp, memory, model>>

(***************************************************************************)
(* The specification.                                                      *)
(***************************************************************************)
Work(r) ==
    \/ Create(r)
    \/ SelectQuestion(r)
    \/ GradeAnswer(r)
    \/ MapKnowledge(r)
    \/ Diagnose(r)
    \/ WriteEvent(r)
    \/ RewriteEvent(r)
    \/ SaveWrite(r)
    \/ BeginRefresh(r)
    \/ CommitRefresh(r)
    \/ SaveRefresh(r)
    \/ CompleteCatalog(r)
    \/ Recommend(r)
    \/ Respond(r)

Next ==
    \E r \in Runners :
        \/ \E k \in Keys : Load(r, k)
        \/ Work(r)
        \/ Fail(r)

Spec == Init /\ [][Next]_vars

\* A handler goes on with the request it holds, and a request that may be
\* made is sent again until it is answered: the client's part of the bargain.
Fairness ==
    /\ \A r \in Runners : WF_vars(Work(r))
    /\ \A k \in Keys : SF_vars(\E r \in Runners : Load(r, k))

FairSpec == Spec /\ Fairness

(***************************************************************************)
(* Properties.                                                             *)
(***************************************************************************)
Checkpoint ==
    [rv : Nat, step : {States[i] : i \in DOMAIN States}, grade : Grades \cup {None},
     mapped : BOOLEAN, event : Event \cup {NoEvent},
     decision : {None, "mutated", "unchanged"},
     pending : BOOLEAN, refreshed : BOOLEAN, closed : BOOLEAN, issues : BOOLEAN]

\* What the checkpoint model's validators demand of a stored payload.
Validated(c) ==
    /\ AtLeast(c, "GRADED") => c.grade # None
    /\ AtLeast(c, "DIAGNOSED") => c.mapped /\ c.event # NoEvent
    /\ AtLeast(c, "MEMORY_UPDATED") <=> c.decision # None
    /\ ~(c.pending /\ c.refreshed)

\* The stored values have their types, and a checkpoint has the material its
\* step needs: a payload that fails validation cannot be read back by a retry.
TypeOK ==
    /\ cp \in [Keys -> Checkpoint]
    /\ \A k \in Keys : Validated(cp[k])
    /\ runner \in [Runners ->
            [pc : {"idle", "create", "work", "written", "rebuild", "refreshed"},
             key : Keys, hand : Checkpoint, result : {None, "mutated", "unchanged"},
             sees : SUBSET Answers]]
    /\ recorded \subseteq Answers /\ counted \subseteq Answers
    /\ projection \subseteq Answers /\ overlapped \in BOOLEAN

\* One grading per answer reaches memory: the event in L1 is the one in the
\* checkpoint, though grader and analyzer may answer every handler otherwise.
EventMatchesCheckpoint ==
    \A k \in recorded : content[k] = cp[k].event

\* A checkpoint never claims a memory write that did not happen, nor a change
\* of L2 where L2 does not hold the event.
CheckpointBacked ==
    \A k \in Answers :
        /\ AtLeast(cp[k], "MEMORY_UPDATED") => k \in recorded
        /\ cp[k].decision = "mutated" => k \in counted

\* A checkpoint that stored a change of L2 and calls its projection refreshed
\* has its answer in the student model, and no rebuild of another handler takes
\* it out again, unless two rebuilds overlap: the one that read less may then
\* be the last to commit.
RefreshedIsProjected ==
    ~overlapped =>
        \A k \in Answers :
            cp[k].decision = "mutated" /\ cp[k].refreshed => k \in projection

\* Stored progress is never undone: steps only go forward, a stored grade and
\* event stay, and every change of the row raises its version by one.
ProgressKept ==
    [][ \A k \in Keys :
            /\ Order(cp'[k].step) >= Order(cp[k].step)
            /\ cp[k].grade # None => cp'[k].grade = cp[k].grade
            /\ cp[k].event # NoEvent => cp'[k].event = cp[k].event
            /\ cp'[k] # cp[k] => cp'[k].rv = cp[k].rv + 1 ]_vars

\* The retry of a write that L1 holds and L2 does not, after other events.
Refused(k) == k \in recorded /\ ~Answered(k, cp[k].event)

\* Whatever fails and whoever competes, a request that is repeated is carried
\* to its end, unless its write is refused as a conflict with its own record.
RequestsComplete ==
    \A k \in Keys : cp[k].rv > 0 ~> Complete(cp[k]) \/ (k \in Answers /\ Refused(k))
=============================================================================
