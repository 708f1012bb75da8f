--------------------------- MODULE LifecycleStore ---------------------------
(* The write path of learning memory for one mastery slot: the L1 event log,
   the append-only L2 version chain and the lifecycle audit, written by
   concurrent database transactions (TransactionalPracticeMemoryWriter.write
   -> LifecycleMemoryBackend.record_event / update -> PostgresLifecycleApplier
   .apply -> PostgresLearningMemoryRepository).

   One transaction runs under READ COMMITTED: every read sees what others had
   committed when its statement began, so the reads are separate steps.  The
   steps from the first row lock to COMMIT are one action (Add, Replace,
   Invalidate, Contest): the transaction holds the locks of the rows it
   changes, so no other writer of the slot changes them in between; what it
   read before (snapshots, row versions, next version) is checked against
   the rows as they are then.  Lock waits that end in a deadlock, crashes and
   every exception roll the whole transaction back: Abort.

   Rows are named by their version, events by the order in which they were
   issued (their occurred_at). *)
EXTENDS MasteryPolicy, Sequences

CONSTANTS
    Writers,          \* connections that write the slot
    MaxEvents,        \* bound on the number of issued events
    MaxRecompute,     \* maximum_cas_recomputations
    AnswerKinds,      \* contents an answer may have
    CorrectionKinds,  \* contents a correction may have
    Replacements      \* values a correction may supply

ASSUME StoreAssumption ==
    /\ MaxEvents \in Nat
    /\ MaxRecompute \in Nat
    /\ AnswerKinds \subseteq
        [correct : BOOLEAN, session : Nat, conf : 0..100, weight : Nat \ {0},
         temporary : BOOLEAN, careless : BOOLEAN]
    /\ CorrectionKinds \subseteq [conf : 0..100, replaces : BOOLEAN]
    /\ Replacements \subseteq
        [level : {"low", "improving", "stable", "high"}, score : 0..100]

VARIABLES
    sent,   \* the issued events; position = name = occurred_at
    log,    \* learning_events: names of the committed L1 events
    rows,   \* learning_memories of the slot; position = version
    audit,  \* lifecycle_decisions: the first input and the outcome of an event
    tx      \* the open transaction of each connection

vars == <<sent, log, rows, audit, tx>>

EventIds == 1..MaxEvents
Issued   == 1..Len(sent)
Versions == 1..Len(rows)

NoRows   == [v \in {} |-> 0]
NoInput  == [e |-> 0, cand |-> NoRows, hist |-> {}, rel |-> NoRelation]
NoAudit  == [input |-> NoInput, op |-> "none", state |-> "none"]
IdleTx   == [step |-> "idle", fresh |-> FALSE, in |-> NoInput, first |-> NoInput,
             d |-> NoOp, ver |-> 0, n |-> 0]

Init ==
    /\ sent = <<>>
    /\ log = {}
    /\ rows = <<>>
    /\ audit = [e \in EventIds |-> NoAudit]
    /\ tx = [w \in Writers |-> IdleTx]

(***************************************************************************)
(* Issuing events.                                                         *)
(***************************************************************************)
\* A graded answer whose event is built from the submitted attempt.
SubmitAnswer(k) ==
    /\ Len(sent) < MaxEvents
    /\ sent' = Append(sent,
        [kind |-> "answer", correct |-> k.correct, session |-> k.session,
         conf |-> k.conf, weight |-> k.weight, temporary |-> k.temporary,
         careless |-> k.careless, target |-> 0, proposes |-> Low])
    /\ UNCHANGED <<log, rows, audit, tx>>

\* A confirmed correction of a row some reader displayed; without a
\* replacement the candidate repeats the row's own value.
SubmitCorrection(k, t, r) ==
    /\ Len(sent) < MaxEvents
    /\ sent' = Append(sent,
        [kind |-> "correction", correct |-> FALSE, session |-> 0,
         conf |-> k.conf, weight |-> 1, temporary |-> FALSE,
         careless |-> FALSE, target |-> t,
         proposes |-> IF k.replaces THEN r ELSE rows[t].val])
    /\ UNCHANGED <<log, rows, audit, tx>>

(***************************************************************************)
(* Reading and deciding.                                                   *)
(***************************************************************************)
CandidateStates == {"active", "contested"}

\* find_candidate_snapshots: the committed rows that are still open.
Candidates ==
    [v \in {u \in Versions : rows[u].state \in CandidateStates} |-> rows[v]]

\* event_was_applied: some row of the slot holds the event as provenance.
EventWasApplied(e) == \E v \in Versions : e \in rows[v].prov

\* record_event, then the paged read of the other events of the context.
\* INSERT .. ON CONFLICT waits while another transaction inserts the event.
Begin(w, e) ==
    /\ tx[w].step = "idle"
    /\ \A u \in Writers : ~(tx[u].fresh /\ tx[u].in.e = e)
    /\ tx' = [tx EXCEPT ![w] = [IdleTx EXCEPT
                !.step = "recorded", !.fresh = e \notin log,
                !.in = [NoInput EXCEPT !.e = e, !.hist = log \ {e}]]]
    /\ UNCHANGED <<sent, log, rows, audit>>

End(w) == tx' = [tx EXCEPT ![w] = IdleTx]

\* An event L2 already holds: answered with a NO_OP that names its rows.
ReplayApplied(w) ==
    /\ tx[w].step = "recorded"
    /\ ~tx[w].fresh
    /\ EventWasApplied(tx[w].in.e)
    /\ End(w)
    /\ UNCHANGED <<sent, log, rows, audit>>

\* The commit of an event with the outcome of its last decision.
CommitOutcome(w, input, op, state) ==
    /\ log' = log \cup {tx[w].in.e}
    /\ audit' = [audit EXCEPT ![tx[w].in.e] =
                    [input |-> input, op |-> op, state |-> state]]
    /\ End(w)
    /\ UNCHANGED sent

NoOpState(in) == IF DOMAIN in.cand = {} THEN "idempotent" ELSE "applied"

FirstInput(in) ==
    [in EXCEPT !.cand = Candidates, !.rel = Relation(sent, in.e, Candidates)]

\* Faulty variant: a conflicting decision row is overwritten.
DecisionStatusOverwriting(in) ==
    IF audit[in.e].input = in THEN "existing" ELSE "created"

\* append_decision: the identity of a decision is its event; a stored decision
\* is met again only by the same input, any other input is a conflict.
DecisionStatus(in) ==
    IF audit[in.e] = NoAudit THEN "created"
    ELSE IF audit[in.e].input = in THEN "existing" ELSE "conflict"

\* Snapshots, relation, decision and append_decision.  A stored decision
\* returns its recorded outcome; a conflict, like a decision that raises or
\* has no legal shape, leaves the transaction nothing but Abort.
DecideFirst(w) ==
    LET in == FirstInput(tx[w].in)
        d  == Decide(sent, in)
    IN  /\ tx[w].step = "recorded"
        /\ tx[w].fresh \/ ~EventWasApplied(in.e)
        /\ d.op # "raise" /\ ShapeOK(in, d)
        /\ \/ /\ DecisionStatus(in) = "existing"
              /\ End(w)
              /\ UNCHANGED <<sent, log, rows, audit>>
           \/ /\ DecisionStatus(in) = "created" /\ d.op = "no_op"
              /\ CommitOutcome(w, in, "no_op", NoOpState(in))
              /\ UNCHANGED rows
           \/ /\ DecisionStatus(in) = "created" /\ d.op # "no_op"
              /\ tx' = [tx EXCEPT ![w].step = "decided", ![w].in = in,
                                  ![w].first = in, ![w].d = d]
              /\ UNCHANGED <<sent, log, rows, audit>>

\* next_version: the highest version visible to the statement, plus one.
ReadVersion(w) ==
    /\ tx[w].step = "decided"
    /\ tx[w].d.op \in Replacing \cup {"add"}
    /\ tx' = [tx EXCEPT ![w].step = "versioned", ![w].ver = Len(rows) + 1]
    /\ UNCHANGED <<sent, log, rows, audit>>

(***************************************************************************)
(* Applying a decision.                                                    *)
(***************************************************************************)
\* Faulty variant: the compare-and-set forgets the row version.
MatchesAnyRowVersion(in, t) == rows[t].state \in CandidateStates

\* cas_transition: the row is still open and at the row version decided on.
Matches(in, t) ==
    rows[t].state \in CandidateStates /\ rows[t].rv = in.cand[t].rv

\* ck_learning_memories_valid_interval when valid_to is the event's time.
ClosesInOrder(in, t) == in.e >= rows[t].from

\* The targets are closed in version order; the first that cannot be decides
\* between a stale decision and an integrity error.
CannotClose(in, d) ==
    {t \in d.targets : ~Matches(in, t) \/ ~ClosesInOrder(in, t)}

IsStale(in, d) ==
    IF d.op = "contested" THEN \E t \in d.targets : ~Matches(in, t)
    ELSE /\ CannotClose(in, d) # {}
         /\ ~Matches(in, Min(CannotClose(in, d)))

\* Faulty variant: row versions start at zero.
NewRowUnversioned(e, val, state, group, prov) ==
    [val |-> val, state |-> state, rv |-> 0, group |-> group, by |-> 0,
     prov |-> prov, from |-> e]

NewRow(e, val, state, group, prov) ==
    [val |-> val, state |-> state, rv |-> 1, group |-> group, by |-> 0,
     prov |-> prov, from |-> e]

\* Faulty variant: closing a row leaves its row version as it was.
ArchivedSilently(row, by) == [row EXCEPT !.state = "archived", !.by = by]

Archived(row, by) ==
    [row EXCEPT !.state = "archived", !.by = by, !.rv = @ + 1]

Invalidated(row, e) ==
    [row EXCEPT !.state = "invalidated", !.rv = @ + 1, !.prov = @ \cup {e}]

Disputed(row, group, e) ==
    [row EXCEPT !.state = "active", !.rv = @ + 1, !.group = group,
                !.prov = @ \cup {e}]

\* Faulty variant: no unique index over the active rows.
RoomForAny(row, others) == TRUE

\* uq_learning_memories_scope_slot_active over the rows and the new one.
RoomFor(row, others) ==
    row.state = "active" => \A v \in DOMAIN others : others[v].state # "active"

Add(w) ==
    LET in  == tx[w].in
        row == NewRow(in.e, Proposed(sent, in.e), "active", 0, {in.e})
    IN  /\ tx[w].step = "versioned"
        /\ tx[w].d.op = "add"
        /\ tx[w].ver = Len(rows) + 1
        /\ RoomFor(row, rows)
        /\ rows' = Append(rows, row)
        /\ CommitOutcome(w, tx[w].first, "add", "applied")

Replace(w) ==
    LET in     == tx[w].in
        d      == tx[w].d
        row    == NewRow(in.e, ReplacementValue(sent, in, d),
                         ReplacementState(in, d), ReplacementGroup(in, d),
                         CombinedProvenance(in, d))
        closed == [v \in Versions |->
                    IF v \in d.targets THEN Archived(rows[v], tx[w].ver)
                    ELSE rows[v]]
    IN  /\ tx[w].step = "versioned"
        /\ d.op \in Replacing
        /\ CannotClose(in, d) = {}
        /\ tx[w].ver = Len(rows) + 1
        /\ RoomFor(row, closed)
        /\ rows' = Append(closed, row)
        /\ CommitOutcome(w, tx[w].first, d.op, "applied")

Invalidate(w) ==
    LET in == tx[w].in
    IN  /\ tx[w].step = "decided"
        /\ tx[w].d.op = "invalidate"
        /\ CannotClose(in, tx[w].d) = {}
        /\ rows' = [v \in Versions |->
                    IF v \in tx[w].d.targets THEN Invalidated(rows[v], in.e)
                    ELSE rows[v]]
        /\ CommitOutcome(w, tx[w].first, "invalidate", "applied")

\* The target stays active in a dispute; the proposal becomes its branch.
Contest(w) ==
    LET in      == tx[w].in
        t       == TheOne(tx[w].d.targets)
        group   == IF in.cand[t].group # 0 THEN in.cand[t].group ELSE in.e
        branch  == NewRow(in.e, Proposed(sent, in.e), "contested", group, {in.e})
    IN  /\ tx[w].step = "decided"
        /\ tx[w].d.op = "contested"
        /\ Matches(in, t)
        /\ rows' = Append([rows EXCEPT ![t] = Disputed(@, group, in.e)], branch)
        /\ CommitOutcome(w, tx[w].first, "contested", "contested")

\* A CAS that matched no row: the savepoint is rolled back, the transaction
\* goes on to a recomputation.
NoticeStale(w) ==
    /\ \/ tx[w].step = "versioned" /\ tx[w].d.op \in Replacing
       \/ tx[w].step = "decided" /\ tx[w].d.op \in {"invalidate", "contested"}
    /\ IsStale(tx[w].in, tx[w].d)
    /\ tx' = [tx EXCEPT ![w].step = "stale"]
    /\ UNCHANGED <<sent, log, rows, audit>>

\* The input rebased on the rows as they are now: the relation is kept, the
\* provenance of the new snapshots joins the evidence.
Rebased(in) ==
    [in EXCEPT !.cand = Candidates,
               !.hist = (@ \cup UNION {rows[v].prov : v \in DOMAIN Candidates}) \ {in.e}]

Recompute(w) ==
    LET in == Rebased(tx[w].in)
        d  == Decide(sent, in)
    IN  /\ tx[w].step = "stale"
        /\ tx[w].n < MaxRecompute
        /\ in.rel.targets \subseteq DOMAIN in.cand
        /\ d.op # "raise" /\ ShapeOK(in, d)
        /\ \/ /\ d.op = "no_op"
              /\ CommitOutcome(w, tx[w].first, "no_op", NoOpState(in))
              /\ UNCHANGED rows
           \/ /\ d.op # "no_op"
              /\ tx' = [tx EXCEPT ![w].step = "decided", ![w].in = in,
                                  ![w].d = d, ![w].n = @ + 1]
              /\ UNCHANGED <<sent, log, rows, audit>>

\* cas_recompute_exhausted, relation_reclassification_required and
\* cas_recompute_input_invalid: L1 keeps the event, L2 is left as it is.
GiveUp(w) ==
    LET in == Rebased(tx[w].in)
    IN  /\ tx[w].step = "stale"
        /\ \/ tx[w].n = MaxRecompute
           \/ ~(in.rel.targets \subseteq DOMAIN in.cand)
           \/ Decide(sent, in).op = "raise"
        /\ CommitOutcome(w, tx[w].first, tx[w].d.op, "failed")
        /\ UNCHANGED rows

Abort(w) ==
    /\ tx[w].step # "idle"
    /\ End(w)
    /\ UNCHANGED <<sent, log, rows, audit>>

(***************************************************************************)
(* The specification.                                                      *)
(***************************************************************************)
Step(w) ==
    \/ \E e \in Issued : Begin(w, e)
    \/ ReplayApplied(w)
    \/ DecideFirst(w)
    \/ ReadVersion(w)
    \/ Add(w)
    \/ Replace(w)
    \/ Invalidate(w)
    \/ Contest(w)
    \/ NoticeStale(w)
    \/ Recompute(w)
    \/ GiveUp(w)
    \/ Abort(w)

Next ==
    \/ \E k \in AnswerKinds : SubmitAnswer(k)
    \/ \E k \in CorrectionKinds, t \in Versions, r \in Replacements :
            SubmitCorrection(k, t, r)
    \/ \E w \in Writers : Step(w)

Spec == Init /\ [][Next]_vars

(***************************************************************************)
(* Properties.                                                             *)
(***************************************************************************)
Value == [level : {"low", "improving", "stable", "high"}, score : 0..100]

Row == [val : Value,
        state : {"active", "contested", "archived", "invalidated"},
        rv : Nat \ {0}, group : 0..MaxEvents, by : Nat,
        prov : SUBSET EventIds, from : EventIds]

\* The stored values have their types.  Versions count from one and row
\* versions too, as the check constraints of learning_memories demand.
TypeOK ==
    /\ Len(sent) <= MaxEvents
    /\ log \subseteq Issued
    /\ rows \in Seq(Row)
    /\ DOMAIN audit = EventIds
    /\ DOMAIN tx = Writers
    /\ \A w \in Writers :
        /\ tx[w].step \in {"idle", "recorded", "decided", "versioned", "stale"}
        /\ tx[w].step # "idle" => tx[w].in.e \in Issued
        /\ tx[w].n <= MaxRecompute

\* What a compare-and-set rests on: for as long as a transaction holds the
\* snapshot of a row, an equal row version means an equal row, whatever other
\* transactions commit meanwhile.
VersionTellsRow ==
    \A w \in Writers : tx[w].step \in {"decided", "versioned", "stale"} =>
        \A t \in DOMAIN tx[w].in.cand :
            /\ t \in Versions
            /\ tx[w].in.cand[t].rv <= rows[t].rv
            /\ tx[w].in.cand[t].rv = rows[t].rv => tx[w].in.cand[t] = rows[t]

\* However writers interleave, a slot never has two active rows: readers that
\* take the active row of a slot find one answer.
OneActive ==
    \A u, v \in Versions :
        rows[u].state = "active" /\ rows[v].state = "active" => u = v

\* No lost update: the row that replaces another holds every event the
\* replaced row held when it was closed, and comes after it in the chain.
EvidenceCarriedForward ==
    \A v \in Versions :
        rows[v].state = "archived" =>
            /\ rows[v].by \in (v + 1)..Len(rows)
            /\ rows[v].prov \subseteq rows[rows[v].by].prov

Counted == UNION {rows[v].prov : v \in Versions}

\* The audit tells the truth about both layers: an event has a decision
\* exactly when it is in L1, and L2 holds it exactly when its outcome is a
\* mutation that was neither refused nor given up.
AuditMatchesMemory ==
    \A e \in EventIds :
        /\ e \in log <=> audit[e] # NoAudit
        /\ e \in Counted <=>
            audit[e].op \notin {"none", "no_op"} /\ audit[e].state # "failed"

\* A dispute is one the policy can go on with: a contested branch has exactly
\* one rival, it is active, shares its group and differs from it in score.
DisputeWellFormed ==
    \A b \in ContestedIn(rows) :
        /\ ContestedIn(rows) = {b}
        /\ \E a \in Versions :
            /\ ActiveIn(rows) = {a}
            /\ rows[a].group = rows[b].group
            /\ rows[a].val.score # rows[b].val.score

\* What the policy and the shape check make of an event that is written next.
Decidable(e) ==
    LET in == FirstInput([NoInput EXCEPT !.e = e, !.hist = log \ {e}])
    IN  Decide(sent, in).op # "raise" /\ ShapeOK(in, Decide(sent, in))

\* Whatever was written before it, and in whatever order, an answer later
\* than every recorded event can be decided: no exception is lying in wait.
NextAnswerDecidable ==
    \A e \in Issued \ log :
        IsAnswer(sent, e) /\ (\A x \in log : x < e) => Decidable(e)

\* The standing value is never overdue: when the recorded answers are written
\* one after the other, no opposite direction that passes the stability gate
\* is left standing against the active row of a slot without corrections.
Opposes(e, v) == sent[e].correct # (rows[v].val.score > 50)

StandingJustified ==
    (\A e \in log : IsAnswer(sent, e)) => \A v \in ActiveIn(rows) :
        LET against == {e \in log : Opposes(e, v)}
        IN  ~IsStableWinner(sent, against, log \ against)

\* L2 is append-only: a version keeps its value and its start, a closed
\* version never changes, and any change to a row raises its row version by
\* exactly one, so that a compare-and-set can tell that it happened.
AppendOnly ==
    [][ /\ Len(rows') >= Len(rows)
        /\ \A v \in Versions :
            /\ rows'[v].val = rows[v].val /\ rows'[v].from = rows[v].from
            /\ rows[v].prov \subseteq rows'[v].prov
            /\ rows[v].state \notin CandidateStates => rows'[v] = rows[v]
            /\ rows'[v] # rows[v] => rows'[v].rv = rows[v].rv + 1 ]_vars

\* The write path implements the ledger: an event enters L1 once and in the
\* same step counts in L2 or never will, whatever is retried or recomputed.
Ledger == INSTANCE EvidenceLedger WITH
            Events <- EventIds, recorded <- log, counted <- Counted
ImplementsLedger == Ledger!LedgerSpec
=============================================================================
