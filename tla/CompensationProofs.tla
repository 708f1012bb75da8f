------------------------- MODULE CompensationProofs -------------------------
(* Proofs about Compensation: beside compensations the write path keeps all it
   promises by itself, and a compensation takes back its source and nothing
   else, for any number of writers and events, any contents and thresholds. *)
EXTENDS Compensation, LifecycleStoreProofs

(***************************************************************************)
(* The inductive invariant.                                                *)
(***************************************************************************)
\* A recorded change opens at most one branch, and none when it replaces the
\* active row otherwise than by a dispute.
TrailOK ==
    /\ trail \in [EventIds -> [was : Cands, is : Cands]]
    /\ \A e \in log :
        /\ \A u, v \in ContestedIn(trail[e].is) : u = v
        /\ audit[e].op \in Replacing /\ PriorActive(e) # {} =>
                ContestedIn(trail[e].is) = {}

\* What the plan of a compensation of source s found, once and for all.
Planned(e, s) ==
    /\ s \in log /\ audit[s].op \in Restorable
    /\ Cardinality(PriorActive(s)) = 1
    /\ sent[e].proposes = trail[s].was[TheOne(PriorActive(s))].val

PlansOK == \A e \in Issued : IsCompensation(e) => Planned(e, sent[e].target)

\* A transaction that compensates supersedes what its source left open, and has
\* no recomputation left.
Compensating(t, left) ==
    /\ t.step \in Deciding
    /\ t.n = MaxRecompute
    /\ t.in.cand = left /\ DOMAIN left # {}
    /\ t.d = Decision("supersede", DOMAIN left)

InFlightOK ==
    \A w \in Writers : tx[w].step # "idle" /\ IsCompensation(tx[w].in.e) =>
        Compensating(tx[w], OpenOf(trail[sent[tx[w].in.e].target].is))

\* An applied compensation closed the rows that its source had left open.
Closes(c) ==
    LET s == sent[c].target
        v == TheOne(ActiveIn(trail[c].is))
    IN  /\ trail[c].was = OpenOf(trail[s].is)
        /\ DOMAIN trail[c].was # {}
        /\ \A t \in DOMAIN trail[c].was : t \in Versions /\ rows[t].state = "archived"
        /\ audit[s].op # "contested" =>
            trail[c].is[v].val = trail[s].was[TheOne(PriorActive(s))].val

ClosedOnce ==
    \A c \in Compensations :
        /\ Closes(c)
        /\ \A d \in Compensations : sent[d].target = sent[c].target => d = c

CompensationInv ==
    /\ LedgerInv
    /\ TrailOK
    /\ PlansOK
    /\ InFlightOK
    /\ ClosedOnce

(***************************************************************************)
(* What stays as it is.                                                    *)
(***************************************************************************)
\* What no step ever changes: issued and committed events with their recorded
\* outcome and changes, and the closed rows.
Keeps ==
    /\ \A s \in log : s \in log' /\ audit'[s] = audit[s] /\ trail'[s] = trail[s]
    /\ \A e \in Issued : e \in Issued' /\ sent'[e] = sent[e]
    /\ GrowsTo(rows, rows')

\* A step of a transaction issues nothing.
LEMMA StepKeepsSent ==
    ASSUME NEW w \in Writers, Step(w)
    PROVE  sent' = sent
BY DEF Step, Begin, ReplayApplied, DecideFirst, ReadVersion, Add, Replace, Invalidate,
       Contest, NoticeStale, Recompute, GiveUp, Abort, CommitOutcome

\* What is issued is an answer or a correction.
LEMMA SubmitKeeps ==
    ASSUME IInv,
           \/ \E k \in AnswerKinds : SubmitAnswer(k)
           \/ \E k \in CorrectionKinds, t \in Versions, r \in Replacements :
                SubmitCorrection(k, t, r)
    PROVE  /\ UNCHANGED <<log, rows, audit, tx>>
           /\ \A e \in Issued : e \in Issued' /\ sent'[e] = sent[e]
           /\ \A e \in Issued' \ Issued : sent'[e].kind # "compensation"
<1>1. PICK ev : /\ sent' = Append(sent, ev) /\ ev.kind # "compensation"
                /\ UNCHANGED <<log, rows, audit, tx>>
    BY DEF SubmitAnswer, SubmitCorrection
<1>2. sent \in Seq(Event)
    BY DEF IInv, TypeInv
<1>3. /\ Len(sent) \in Nat /\ Len(sent') = Len(sent) + 1 /\ sent'[Len(sent) + 1] = ev
      /\ \A e \in 1..Len(sent) : sent'[e] = sent[e]
    BY <1>1, <1>2
<1> QED
    BY <1>1, <1>3 DEF Issued

\* An ordinary step keeps what was committed, and records changes only of the
\* event that it commits.
LEMMA OrdinaryKeeps ==
    ASSUME CompensationInv, OrdinaryStep
    PROVE  Keeps
<1>1. Next /\ AppendChanges /\ LedgerInv /\ IInv
    BY DEF OrdinaryStep, CompensationInv, LedgerInv
<1>2. GrowsTo(rows, rows')
    BY <1>1, NextGrows
<1>3. \A s \in log : s \in EventIds
    BY <1>1, StoreAssumption DEF IInv, TypeInv, Issued, EventIds
<1>4. \A s \in log : trail'[s] = trail[s]
    BY <1>1, <1>3 DEF AppendChanges
<1>5. CASE \E w \in Writers : Step(w)
    <2>1. PICK w \in Writers : Step(w)
        BY <1>5
    <2>2. sent' = sent
        BY <2>1, StepKeepsSent
    <2>3. LeavesLedger(w) \/ Settles(w)
        BY <1>1, <2>1, LedgerStep
    <2>4. ASSUME Settles(w)
          PROVE  tx[w].in.e \notin log
        BY <1>1, <2>4 DEF Settles, LedgerInv, FreshOK
    <2>5. \A s \in log : s \in log' /\ audit'[s] = audit[s]
        BY <1>3, <2>3, <2>4 DEF LeavesLedger, Settles
    <2> QED
        BY <1>2, <1>4, <2>2, <2>5 DEF Keeps, Issued
<1>6. CASE \/ \E k \in AnswerKinds : SubmitAnswer(k)
           \/ \E k \in CorrectionKinds, t \in Versions, r \in Replacements :
                SubmitCorrection(k, t, r)
    BY <1>1, <1>2, <1>4, <1>6, SubmitKeeps DEF Keeps
<1> QED
    BY <1>1, <1>5, <1>6 DEF Next

\* A plan of a compensation never becomes another.
LEMMA PlansKept ==
    ASSUME CompensationInv, Keeps, NEW e \in Issued, IsCompensation(e)
    PROVE  Planned(e, sent[e].target)' /\ sent'[e].target = sent[e].target
<1>1. PICK s : s = sent[e].target
    OBVIOUS
<1>2. Planned(e, s)
    BY <1>1 DEF CompensationInv, PlansOK
<1>3. /\ s \in log /\ s \in log' /\ audit'[s] = audit[s] /\ trail'[s] = trail[s]
      /\ sent'[e] = sent[e]
    BY <1>2 DEF Planned, Keeps
<1>4. PriorActive(s)' = PriorActive(s)
    BY <1>3 DEF PriorActive
<1>5. Planned(e, s)'
    BY <1>2, <1>3, <1>4 DEF Planned
<1>6. sent'[e].target = s
    BY <1>1, <1>3
<1> QED
    BY <1>1, <1>5, <1>6

\* What an applied compensation closed stays closed.
LEMMA ClosesKept ==
    ASSUME CompensationInv, Keeps, NEW c \in Compensations
    PROVE  /\ c \in Compensations' /\ Closes(c)' /\ sent'[c].target = sent[c].target
<1>0. PICK s : s = sent[c].target
    OBVIOUS
<1>1. c \in log /\ c \in Issued /\ IsCompensation(c) /\ audit[c].state = "applied"
    BY DEF Compensations, CompensationInv, LedgerInv, IInv, TypeInv
<1>2. /\ sent'[c] = sent[c] /\ c \in log' /\ audit'[c] = audit[c] /\ trail'[c] = trail[c]
    BY <1>1 DEF Keeps
<1>3. c \in Compensations'
    BY <1>1, <1>2 DEF Compensations, IsCompensation
<1>4. s \in log /\ audit'[s] = audit[s] /\ trail'[s] = trail[s] /\ sent'[c].target = s
    BY <1>0, <1>1, <1>2 DEF Keeps, CompensationInv, PlansOK, Planned
<1>5. Closes(c)
    BY DEF CompensationInv, ClosedOnce
<1>6. \A t \in DOMAIN trail[c].was : t \in Versions' /\ rows'[t].state = "archived"
    <2>1. rows \in Seq(Row)
        BY DEF CompensationInv, LedgerInv, IInv, TypeInv
    <2>2. \A t \in 1..Len(rows) : rows[t].state = "archived" => rows'[t] = rows[t]
        BY DEF Keeps, GrowsTo, CandidateStates
    <2>3. \A t \in Versions : t \in Versions'
        BY <2>1 DEF Keeps, GrowsTo, Versions
    <2> QED
        BY <1>5, <2>2, <2>3 DEF Closes, Versions
<1>7. PriorActive(s)' = PriorActive(s)
    BY <1>4 DEF PriorActive
<1>8. Closes(c)'
    BY <1>0, <1>2, <1>4, <1>5, <1>6, <1>7 DEF Closes
<1> QED
    BY <1>0, <1>3, <1>4, <1>8

(***************************************************************************)
(* What a commit records of its changes.                                   *)
(***************************************************************************)
\* A chain that is left alone has no changes.
LEMMA NoChanges ==
    ASSUME UNCHANGED rows, DOMAIN rows = Versions
    PROVE  Changed = {}
BY DEF Changed

\* Among the rows that a step changes, the new one alone may be contested.
LEMMA OneBranch ==
    ASSUME LedgerInv, NEW w \in Writers, Step(w)
    PROVE  \A v \in Changed : rows'[v].state = "contested" => v = Len(rows) + 1
<1>1. Preserves(w) /\ rows \in Seq(Row) /\ rows' \in Seq(Row)
    BY LedgerStep DEF LedgerInv, IInv, TypeInv, Preserves
<1>2. /\ DOMAIN rows = Versions /\ DOMAIN rows' = 1..Len(rows')
      /\ Len(rows) \in Nat /\ Len(rows') \in Nat
    BY <1>1 DEF Versions
<1>3. CASE UNCHANGED rows
    BY <1>2, <1>3, NoChanges
<1>4. CASE Add(w)
    <2>1. PICK row : rows' = Append(rows, row)
        BY <1>4 DEF Add
    <2>2. Len(rows') = Len(rows) + 1 /\ \A v \in Versions : rows'[v] = rows[v]
        BY <1>1, <2>1 DEF Versions
    <2> QED
        BY <1>2, <2>2 DEF Changed, Versions
<1>5. CASE Replace(w)
    <2>1. ReplacementOf(tx[w].in, tx[w].d)
        BY <1>1, <1>5, ReplaceRows
    <2>2. /\ Len(rows') = Len(rows) + 1
          /\ \A v \in Versions : rows'[v] = rows[v] \/ rows'[v].state = "archived"
        BY <2>1 DEF ReplacementOf
    <2> QED
        BY <1>2, <2>2 DEF Changed, Versions
<1>6. CASE Invalidate(w)
    <2> DEFINE e == tx[w].in.e
               d == tx[w].d
    <2>1. tx[w].step = "decided" /\ rows' = [v \in Versions |->
                IF v \in d.targets THEN Invalidated(rows[v], e) ELSE rows[v]]
        BY <1>6 DEF Invalidate
    <2>2. e \in EventIds /\ \A v \in Versions : rows[v] \in Row
        BY <1>1, <2>1, AtCommit DEF Versions
    <2>3. DOMAIN rows' = Versions
        BY <2>1
    <2>4. \A v \in Versions : rows'[v] = rows[v] \/ rows'[v] = Invalidated(rows[v], e)
        BY <2>1
    <2> HIDE DEF e, d
    <2>5. \A v \in Versions : rows'[v] = rows[v] \/ rows'[v].state = "invalidated"
        BY <2>2, <2>4, InvalidatedType
    <2> QED
        BY <2>3, <2>5 DEF Changed
<1>7. CASE Contest(w)
    <2>1. PICK t : DisputeOf(tx[w].in, t)
        BY <1>1, <1>7, ContestRows
    <2>2. /\ Len(rows') = Len(rows) + 1
          /\ \A v \in Versions : rows'[v] = rows[v] \/ rows'[v].state = "active"
        BY <2>1 DEF DisputeOf
    <2> QED
        BY <1>2, <2>2 DEF Changed, Versions
<1> QED
    BY <1>3, <1>4, <1>5, <1>6, <1>7 DEF Step, Begin, ReplayApplied, DecideFirst,
        ReadVersion, NoticeStale, Recompute, GiveUp, Abort

\* The rows a replacement changes are its targets and the new one; if the new one
\* is contested, it has replaced a branch and no active row.
LEMMA ReplaceChanges ==
    ASSUME LedgerInv, NEW w \in Writers, Replace(w)
    PROVE  /\ Changed = tx[w].d.targets \cup {Len(rows) + 1}
           /\ Changed \cap Versions = tx[w].d.targets
           /\ rows'[Len(rows) + 1].state = "contested" =>
                \A t \in tx[w].d.targets : rows[t].state = "contested"
<1> DEFINE in == tx[w].in
           d  == tx[w].d
           n  == Len(rows) + 1
<1>1. Step(w) /\ Preserves(w) /\ rows \in Seq(Row) /\ rows' \in Seq(Row)
    BY LedgerStep DEF LedgerInv, IInv, TypeInv, Preserves, Step
<1>2. /\ DOMAIN rows' = 1..Len(rows') /\ Len(rows) \in Nat
      /\ \A v \in Versions : rows[v] \in Row
    BY <1>1 DEF Versions
<1>3. ReplacementOf(in, d)
    BY <1>1, ReplaceRows
<1> HIDE DEF in, d
<1>4. \A t \in d.targets : rows'[t] # rows[t]
    <2>1. \A t \in d.targets : rows'[t].rv = rows[t].rv + 1 /\ rows[t].rv \in Nat
        BY <1>2, <1>3 DEF ReplacementOf, Row
    <2> QED
        BY <2>1
<1>5. /\ d.targets \subseteq Versions /\ Len(rows') = n
      /\ \A v \in Versions \ d.targets : rows'[v] = rows[v]
    BY <1>3 DEF ReplacementOf
<1>6. n \notin Versions /\ DOMAIN rows' = Versions \cup {n}
    BY <1>2, <1>5 DEF Versions
<1>7. Changed = d.targets \cup {n} /\ Changed \cap Versions = d.targets
    BY <1>4, <1>5, <1>6 DEF Changed
<1>8. ASSUME rows'[n].state = "contested", NEW t \in d.targets
      PROVE  rows[t].state = "contested"
    <2>1. rows'[n].state = ReplacementState(in, d)
        BY <1>3 DEF ReplacementOf, NewRow
    <2>2. StaysDisputed(in, d) /\ in.cand[TheOne(d.targets)].state = "contested"
        BY <1>8, <2>1 DEF ReplacementState
    <2>3. IsFiniteSet(d.targets)
        <3>1. IsFiniteSet(Versions)
            BY <1>2, FS_Interval DEF Versions
        <3> QED
            BY <1>5, <3>1, FS_Subset
    <2>4. d.targets = {t}
        BY <1>8, <2>2, <2>3, FS_Singleton DEF StaysDisputed
    <2>5. TheOne(d.targets) = t
        BY <2>4 DEF TheOne
    <2> QED
        BY <1>3, <1>8, <2>2, <2>5 DEF ReplacementOf
<1> QED
    BY <1>7, <1>8 DEF d

\* The changes of a step have their type.
LEMMA ChangesType ==
    ASSUME rows \in Seq(Row), rows' \in Seq(Row)
    PROVE  /\ ChangesOfStep \in [was : Cands, is : Cands]
           /\ DOMAIN ChangesOfStep.was = Changed \cap Versions
           /\ \A v \in Changed \cap Versions : ChangesOfStep.was[v] = rows[v]
           /\ DOMAIN ChangesOfStep.is = Changed
           /\ \A v \in Changed : ChangesOfStep.is[v] = rows'[v]
<1> DEFINE was == [v \in Changed \cap Versions |-> rows[v]]
           is  == [v \in Changed |-> rows'[v]]
<1>1. /\ Changed \subseteq Nat
      /\ \A v \in Changed : rows'[v] \in Row
      /\ \A v \in Changed \cap Versions : rows[v] \in Row
    BY DEF Changed, Versions
<1> HIDE DEF Changed
<1>2. was \in Cands /\ is \in Cands
    <2>1. /\ was \in [Changed \cap Versions -> Row] /\ Changed \cap Versions \in SUBSET Nat
          /\ is \in [Changed -> Row] /\ Changed \in SUBSET Nat
        BY <1>1
    <2> HIDE DEF was, is
    <2> QED
        BY <2>1 DEF Cands
<1>3. ChangesOfStep = [was |-> was, is |-> is]
    BY DEF ChangesOfStep
<1>4. /\ DOMAIN was = Changed \cap Versions /\ DOMAIN is = Changed
      /\ \A v \in Changed \cap Versions : was[v] = rows[v]
      /\ \A v \in Changed : is[v] = rows'[v]
    OBVIOUS
<1> HIDE DEF was, is
<1> QED
    BY <1>2, <1>3, <1>4

\* The outcomes that a commit may record, and what it makes of the chain then.
LEMMA CommitKinds ==
    ASSUME LedgerInv, NEW w \in Writers, Step(w), log' # log
    PROVE  /\ log' = log \cup {tx[w].in.e} /\ tx[w].in.e \in EventIds
           /\ \/ UNCHANGED rows
              \/ Replace(w)
              \/ audit'[tx[w].in.e].op \notin Replacing
<1>1. tx[w].step # "idle" => tx[w].in.e \in EventIds /\ DOMAIN audit = EventIds
    BY AtWork
<1>2. CASE Add(w)
    BY <1>1, <1>2 DEF Add, CommitOutcome, Replacing
<1>3. CASE Replace(w)
    BY <1>1, <1>3 DEF Replace, CommitOutcome
<1>4. CASE Invalidate(w)
    BY <1>1, <1>4 DEF Invalidate, CommitOutcome, Replacing
<1>5. CASE Contest(w)
    BY <1>1, <1>5 DEF Contest, CommitOutcome, Replacing
<1>6. CASE DecideFirst(w)
    <2>1. FirstInput(tx[w].in).e = tx[w].in.e
        BY DEF FirstInput
    <2> QED
        BY <1>1, <1>6 DEF DecideFirst, CommitOutcome
<1>7. CASE Recompute(w)
    BY <1>1, <1>7 DEF Recompute, CommitOutcome
<1>8. CASE GiveUp(w)
    BY <1>1, <1>8 DEF GiveUp, CommitOutcome
<1> QED
    BY <1>2, <1>3, <1>4, <1>5, <1>6, <1>7, <1>8 DEF Step, Begin, ReplayApplied,
        ReadVersion, NoticeStale, Abort

\* What a commit records as its changes holds at most one branch, and none when
\* the active row was replaced.
LEMMA CommitRecords ==
    ASSUME LedgerInv, NEW w \in Writers, Step(w), log' # log
    PROVE  /\ \A u, v \in ContestedIn(ChangesOfStep.is) : u = v
           /\ audit'[tx[w].in.e].op \in Replacing /\ ActiveIn(ChangesOfStep.was) # {} =>
                ContestedIn(ChangesOfStep.is) = {}
<1>1. rows \in Seq(Row) /\ rows' \in Seq(Row) /\ DOMAIN rows = Versions
    BY LedgerStep DEF LedgerInv, IInv, TypeInv, Preserves, Versions
<1>2. /\ DOMAIN ChangesOfStep.was = Changed \cap Versions
      /\ \A v \in Changed \cap Versions : ChangesOfStep.was[v] = rows[v]
      /\ DOMAIN ChangesOfStep.is = Changed
      /\ \A v \in Changed : ChangesOfStep.is[v] = rows'[v]
    BY <1>1, ChangesType
<1>3. \A v \in Changed : rows'[v].state = "contested" => v = Len(rows) + 1
    BY OneBranch
<1>4. \A v \in ContestedIn(ChangesOfStep.is) :
            v \in Changed /\ rows'[v].state = "contested" /\ v = Len(rows) + 1
    BY <1>2, <1>3 DEF ContestedIn
<1>5. ASSUME audit'[tx[w].in.e].op \in Replacing, NEW a \in ActiveIn(ChangesOfStep.was)
      PROVE  ContestedIn(ChangesOfStep.is) = {}
    <2>1. a \in Changed \cap Versions /\ rows[a].state = "active"
        BY <1>2 DEF ActiveIn
    <2>2. CASE UNCHANGED rows
        BY <1>1, <2>1, <2>2, NoChanges
    <2>3. CASE Replace(w)
        BY <1>4, <2>1, <2>3, ReplaceChanges
    <2> QED
        BY <1>5, <2>2, <2>3, CommitKinds
<1> QED
    BY <1>4, <1>5

\* The trail stays sound in an ordinary step.
LEMMA TrailStep ==
    ASSUME CompensationInv, OrdinaryStep
    PROVE  TrailOK'
<1>1. Next /\ AppendChanges /\ LedgerInv /\ TrailOK /\ Keeps
    BY OrdinaryKeeps DEF OrdinaryStep, CompensationInv
<1>2. rows \in Seq(Row) /\ rows' \in Seq(Row)
    <2>1. LedgerInv'
        BY <1>1, LedgerNextInv
    <2> QED
        BY <1>1, <2>1 DEF LedgerInv, IInv, TypeInv
<1>3. trail' \in [EventIds -> [was : Cands, is : Cands]]
    BY <1>1, <1>2, ChangesType DEF AppendChanges, TrailOK
<1>4. ASSUME NEW e \in log
      PROVE  /\ \A u, v \in ContestedIn(trail'[e].is) : u = v
             /\ audit'[e].op \in Replacing /\ ActiveIn(trail'[e].was) # {} =>
                    ContestedIn(trail'[e].is) = {}
    BY <1>1 DEF Keeps, TrailOK, PriorActive
<1>5. ASSUME NEW e \in log' \ log
      PROVE  /\ \A u, v \in ContestedIn(trail'[e].is) : u = v
             /\ audit'[e].op \in Replacing /\ ActiveIn(trail'[e].was) # {} =>
                    ContestedIn(trail'[e].is) = {}
    <2>1. PICK w \in Writers : Step(w)
        BY <1>1 DEF Next, SubmitAnswer, SubmitCorrection
    <2>2. e = tx[w].in.e /\ e \in EventIds
        BY <1>1, <2>1, CommitKinds
    <2>3. trail'[e] = ChangesOfStep
        BY <1>1, <2>2 DEF AppendChanges
    <2> QED
        BY <1>1, <2>1, <2>2, <2>3, CommitRecords
<1> QED
    BY <1>3, <1>4, <1>5 DEF TrailOK, PriorActive

(***************************************************************************)
(* Compensations on their way.                                             *)
(***************************************************************************)
\* What a transaction at work on an event does next without ending.
GoesOn(w) ==
    \/ tx'[w].step = "recorded"
    \/ tx[w].step \notin Deciding
    \/ tx[w].n < MaxRecompute
    \/ /\ tx'[w].step \in Deciding /\ tx'[w].n = tx[w].n
       /\ tx'[w].in = tx[w].in /\ tx'[w].d = tx[w].d

\* A transaction either ends or goes on.
LEMMA EndsOrGoesOn ==
    ASSUME LedgerInv, NEW w \in Writers, Step(w)
    PROVE  /\ tx'[w].step = "idle" \/ GoesOn(w)
           /\ tx'[w].step \in {"idle", "recorded"} \/ tx'[w].in.e = tx[w].in.e
           /\ tx'[w].step = "idle" \/ log' = log
           /\ tx[w].step = "idle" => tx'[w].step = "recorded"
<1>1. tx \in [Writers -> Tx] /\ tx[w] \in Tx /\ IdleTx.step = "idle"
    BY IdleType DEF LedgerInv, IInv, TypeInv
<1>2. CASE ReplayApplied(w) \/ Add(w) \/ Replace(w) \/ Invalidate(w) \/ Contest(w)
           \/ GiveUp(w) \/ Abort(w)
    <2>1. tx' = [tx EXCEPT ![w] = IdleTx] /\ tx[w].step # "idle"
        BY <1>2 DEF ReplayApplied, Add, Replace, Invalidate, Contest, GiveUp, Abort,
            CommitOutcome, End
    <2> QED
        BY <1>1, <2>1
<1>3. CASE \E e \in Issued : Begin(w, e)
    <2>1. PICK next : tx' = [tx EXCEPT ![w] = next] /\ next.step = "recorded" /\ log' = log
        BY <1>3 DEF Begin, IdleTx
    <2> QED
        BY <1>1, <2>1 DEF GoesOn
<1>4. CASE DecideFirst(w)
    <2> DEFINE in == FirstInput(tx[w].in)
    <2>1. tx[w].step = "recorded" /\ in.e = tx[w].in.e
        BY <1>4 DEF DecideFirst, FirstInput
    <2>2. CASE End(w)
        BY <1>1, <2>1, <2>2 DEF End
    <2>3. ASSUME NEW d, log' = log,
                 tx' = [tx EXCEPT ![w].step = "decided", ![w].in = in,
                                  ![w].first = in, ![w].d = d]
          PROVE  tx'[w].in.e = tx[w].in.e
        <3> HIDE DEF in
        <3> QED
            BY <1>1, <2>1, <2>3 DEF Tx
    <2> QED
        BY <1>4, <2>1, <2>2, <2>3 DEF DecideFirst, CommitOutcome, GoesOn, Deciding
<1>5. CASE ReadVersion(w)
    <2>1. PICK ver : tx' = [tx EXCEPT ![w].step = "versioned", ![w].ver = ver]
        BY <1>5 DEF ReadVersion
    <2>2. /\ tx'[w].step = "versioned" /\ tx'[w].n = tx[w].n
          /\ tx'[w].in = tx[w].in /\ tx'[w].d = tx[w].d
        BY <1>1, <2>1 DEF Tx
    <2> QED
        BY <1>5, <2>2 DEF ReadVersion, GoesOn, Deciding
<1>6. CASE NoticeStale(w)
    <2>1. tx' = [tx EXCEPT ![w].step = "stale"] /\ log' = log /\ tx[w].step # "idle"
        BY <1>6 DEF NoticeStale
    <2>2. /\ tx'[w].step = "stale" /\ tx'[w].n = tx[w].n
          /\ tx'[w].in = tx[w].in /\ tx'[w].d = tx[w].d
        BY <1>1, <2>1 DEF Tx
    <2> QED
        BY <2>1, <2>2 DEF GoesOn, Deciding
<1>7. CASE Recompute(w)
    <2> DEFINE in == Rebased(tx[w].in)
    <2>1. tx[w].step = "stale" /\ tx[w].n < MaxRecompute
        BY <1>7 DEF Recompute
    <2>4. in.e = tx[w].in.e
        BY <1>1 DEF Rebased, Tx, Input
    <2>2. CASE End(w)
        BY <1>1, <2>1, <2>2 DEF End
    <2>3. ASSUME NEW d, log' = log,
                 tx' = [tx EXCEPT ![w].step = "decided", ![w].in = in,
                                  ![w].d = d, ![w].n = @ + 1]
          PROVE  tx'[w].in.e = tx[w].in.e
        <3> HIDE DEF in
        <3> QED
            BY <1>1, <2>4, <2>3 DEF Tx
    <2> QED
        BY <1>7, <2>1, <2>2, <2>3 DEF Recompute, CommitOutcome, GoesOn
<1> QED
    BY <1>2, <1>3, <1>4, <1>5, <1>6, <1>7 DEF Step

\* A compensation on its way keeps its decision in an ordinary step.
LEMMA InFlightStep ==
    ASSUME CompensationInv, OrdinaryStep
    PROVE  InFlightOK'
<1>1. Next /\ AppendChanges /\ LedgerInv /\ InFlightOK /\ Keeps
    BY OrdinaryKeeps DEF OrdinaryStep, CompensationInv
<1>2. ASSUME NEW w \in Writers, tx[w].step # "idle", IsCompensation(tx[w].in.e)
      PROVE  /\ Compensating(tx[w], OpenOf(trail[sent[tx[w].in.e].target].is))
             /\ OpenOf(trail'[sent'[tx[w].in.e].target].is) =
                    OpenOf(trail[sent[tx[w].in.e].target].is)
    <2>1. tx[w].in.e \in Issued
        BY <1>1, <1>2 DEF LedgerInv, IInv, TypeInv
    <2>2. sent[tx[w].in.e].target \in log /\ sent'[tx[w].in.e] = sent[tx[w].in.e]
        BY <1>1, <1>2, <2>1 DEF CompensationInv, PlansOK, Planned, Keeps
    <2> QED
        BY <1>1, <1>2, <2>2 DEF Keeps, InFlightOK
<1>3. ASSUME NEW w \in Writers, tx'[w] = tx[w], tx'[w].step # "idle",
             sent'[tx'[w].in.e].kind = "compensation"
      PROVE  Compensating(tx'[w], OpenOf(trail'[sent'[tx'[w].in.e].target].is))
    <2>1. tx[w].in.e \in Issued
        BY <1>1, <1>3 DEF LedgerInv, IInv, TypeInv
    <2>2. IsCompensation(tx[w].in.e)
        BY <1>1, <1>3, <2>1 DEF Keeps, IsCompensation
    <2> QED
        BY <1>2, <1>3, <2>2
<1>4. CASE UNCHANGED tx
    BY <1>3, <1>4 DEF InFlightOK, IsCompensation
<1>5. ASSUME NEW w \in Writers, Step(w)
      PROVE  InFlightOK'
    <2>1. /\ \A u \in Writers \ {w} : tx'[u] = tx[u]
          /\ sent' = sent
        BY <1>1, <1>5, LedgerStep, StepKeepsSent DEF Preserves
    <2>2. ASSUME tx'[w].step # "idle", sent'[tx'[w].in.e].kind = "compensation"
          PROVE  Compensating(tx'[w], OpenOf(trail'[sent'[tx'[w].in.e].target].is))
        <3>1. IsCompensation(tx'[w].in.e)
            BY <2>1, <2>2 DEF IsCompensation
        <3>2. tx'[w].step # "recorded"
            BY <3>1 DEF OrdinaryStep
        <3>3. tx'[w].in.e = tx[w].in.e /\ tx[w].step # "idle" /\ GoesOn(w)
            BY <1>1, <1>5, <2>2, <3>2, EndsOrGoesOn
        <3>4. /\ Compensating(tx[w], OpenOf(trail[sent[tx[w].in.e].target].is))
              /\ OpenOf(trail'[sent'[tx[w].in.e].target].is) =
                    OpenOf(trail[sent[tx[w].in.e].target].is)
            BY <1>2, <3>1, <3>3
        <3>5. ~(tx[w].n < MaxRecompute) /\ tx[w].step \in Deciding
            <4>1. tx[w].n = MaxRecompute /\ tx[w].step \in Deciding
                BY <3>4 DEF Compensating
            <4> QED
                BY <4>1, StoreAssumption
        <3>6. /\ tx'[w].step \in Deciding /\ tx'[w].n = tx[w].n
              /\ tx'[w].in = tx[w].in /\ tx'[w].d = tx[w].d
            BY <3>2, <3>3, <3>5 DEF GoesOn
        <3> QED
            BY <3>3, <3>4, <3>6 DEF Compensating
    <2> QED
        BY <1>3, <2>1, <2>2 DEF InFlightOK, IsCompensation
<1> QED
    BY <1>1, <1>4, <1>5 DEF Next, SubmitAnswer, SubmitCorrection

(***************************************************************************)
(* What a compensation takes back.                                         *)
(***************************************************************************)
\* The snapshots of a compensation are what its source left open.
LEMMA OpenRows ==
    ASSUME NEW changed
    PROVE  /\ DOMAIN OpenOf(changed) \subseteq DOMAIN changed
           /\ \A v \in DOMAIN OpenOf(changed) :
                OpenOf(changed)[v] = changed[v] /\ changed[v].state \in CandidateStates
           /\ OpenOf(changed) = [v \in DOMAIN OpenOf(changed) |-> OpenOf(changed)[v]]
BY DEF OpenOf

\* A compensation on its way knows its source.
LEMMA CompensationAtWork ==
    ASSUME CompensationInv, NEW w \in Writers, tx[w].step # "idle",
           IsCompensation(tx[w].in.e)
    PROVE  /\ Planned(tx[w].in.e, sent[tx[w].in.e].target)
           /\ Compensating(tx[w], OpenOf(trail[sent[tx[w].in.e].target].is))
           /\ tx[w].d.op = "supersede" /\ tx[w].d.targets = DOMAIN tx[w].in.cand
           /\ tx[w].step \in Deciding /\ tx[w].n = MaxRecompute
<1>1. Compensating(tx[w], OpenOf(trail[sent[tx[w].in.e].target].is))
    BY DEF CompensationInv, InFlightOK
<1>2. PICK left : Compensating(tx[w], left)
    BY <1>1
<1>3. /\ tx[w].d.op = "supersede" /\ tx[w].d.targets = DOMAIN tx[w].in.cand
      /\ tx[w].step \in Deciding /\ tx[w].n = MaxRecompute
    BY <1>2 DEF Compensating, Decision
<1>4. Planned(tx[w].in.e, sent[tx[w].in.e].target)
    BY DEF CompensationInv, PlansOK, LedgerInv, IInv, TypeInv
<1> QED
    BY <1>1, <1>3, <1>4

\* Only a replacement commits a compensation as applied.
LEMMA AppliedByReplace ==
    ASSUME CompensationInv, NEW w \in Writers, Step(w), log' # log,
           IsCompensation(tx[w].in.e), audit'[tx[w].in.e].state = "applied"
    PROVE  Replace(w)
<1>1. LedgerInv /\ InFlightOK
    BY DEF CompensationInv
<1>2. tx[w].step # "idle"
    BY <1>1, EndsOrGoesOn, StoreAssumption
<1>3. tx[w].in.e \in EventIds /\ DOMAIN audit = EventIds
    BY <1>1, <1>2, AtWork
<1>4. /\ tx[w].step \in Deciding /\ tx[w].n = MaxRecompute
      /\ tx[w].d.op = "supersede"
    BY <1>2, CompensationAtWork
<1>5. ~DecideFirst(w) /\ ~Add(w) /\ ~Invalidate(w) /\ ~Contest(w)
    BY <1>4 DEF DecideFirst, Add, Invalidate, Contest, Deciding
<1>6. ~Recompute(w)
    BY <1>4, StoreAssumption DEF Recompute
<1>7. ~GiveUp(w)
    BY <1>3 DEF GiveUp, CommitOutcome
<1> QED
    BY <1>5, <1>6, <1>7 DEF Step, Begin, ReplayApplied, ReadVersion, NoticeStale, Abort

\* A compensation that is applied closes what its source left open, and no other
\* compensation of that source was applied before.
LEMMA ReplaceCloses ==
    ASSUME CompensationInv, NEW w \in Writers, Step(w), Replace(w), AppendChanges, Keeps,
           NEW c, c = tx[w].in.e, IsCompensation(c)
    PROVE  /\ Closes(c)'
           /\ \A d \in Compensations : sent[d].target # sent[c].target
<1>1. PICK s, left : /\ c = tx[w].in.e /\ s = sent[c].target
                     /\ left = OpenOf(trail[s].is)
    OBVIOUS
<1>2. LedgerInv /\ TrailOK /\ tx[w].step = "versioned"
    BY DEF CompensationInv, Replace
<1>3. /\ Planned(c, s) /\ Compensating(tx[w], left)
      /\ tx[w].d.op = "supersede" /\ tx[w].d.targets = DOMAIN left
      /\ tx[w].in.cand = left /\ DOMAIN left # {}
    BY <1>1, <1>2, CompensationAtWork DEF Compensating
<1>4. /\ c \in EventIds /\ c \in Issued /\ c \notin log /\ c \in log'
      /\ rows \in Seq(Row) /\ rows' \in Seq(Row)
    BY <1>1, <1>2, AtWork, LedgerStep DEF LedgerInv, FreshOK, Deciding, IInv, TypeInv,
        Preserves, Replace, CommitOutcome
<1>5. s \in log /\ sent'[c] = sent[c] /\ audit'[s] = audit[s] /\ trail'[s] = trail[s]
    BY <1>3, <1>4 DEF Planned, Keeps
<1>6. trail'[c] = ChangesOfStep
    BY <1>4 DEF AppendChanges
<1>7. PICK n : n = Len(rows) + 1
    OBVIOUS
<1>8. /\ Changed = DOMAIN left \cup {n} /\ Changed \cap Versions = DOMAIN left
    BY <1>2, <1>3, <1>7, ReplaceChanges
<1>9. /\ DOMAIN left \subseteq Versions
      /\ \A t \in DOMAIN left : /\ left[t] = rows[t] /\ rows[t].state \in CandidateStates
                                /\ rows'[t].state = "archived"
      /\ rows'[n].state = "active" /\ rows'[n].val = ReplacementValue(sent, tx[w].in, tx[w].d)
      /\ Len(rows') = n
    <2>1. ReplacementOf(tx[w].in, tx[w].d)
        BY <1>2, LedgerStep, ReplaceRows
    <2>2. ReplacementState(tx[w].in, tx[w].d) = "active"
        BY <1>3 DEF ReplacementState, StaysDisputed
    <2> QED
        BY <1>3, <1>7, <2>1, <2>2 DEF ReplacementOf, NewRow
<1>10. ChangesOfStep.was = left
    <2>1. ChangesOfStep.was = [v \in DOMAIN left |-> rows[v]]
        BY <1>8 DEF ChangesOfStep
    <2>2. left = [v \in DOMAIN left |-> left[v]]
        BY <1>1, OpenRows
    <2> QED
        BY <1>9, <2>1, <2>2
<1>11. \A t \in DOMAIN left : t \in Versions' /\ rows'[t].state = "archived"
    BY <1>4, <1>7, <1>9 DEF Versions
<1>12. /\ DOMAIN ChangesOfStep.is = DOMAIN left \cup {n}
       /\ \A v \in DOMAIN left \cup {n} : ChangesOfStep.is[v] = rows'[v]
    BY <1>4, <1>8, ChangesType
<1>13. ActiveIn(ChangesOfStep.is) = {n}
    BY <1>9, <1>12 DEF ActiveIn
<1>14. ASSUME audit[s].op # "contested"
       PROVE  rows'[n].val = trail[s].was[TheOne(PriorActive(s))].val
    <2>1. PriorActive(s) # {}
        BY <1>3, OneIsSome DEF Planned
    <2>2. audit[s].op \in Replacing
        BY <1>3, <1>14 DEF Planned, Restorable, Replacing
    <2>3. ContestedIn(trail[s].is) = {}
        BY <1>2, <1>5, <2>1, <2>2 DEF TrailOK
    <2>4. ContestedIn(tx[w].in.cand) = {}
        <3>1. /\ DOMAIN left \subseteq DOMAIN trail[s].is
              /\ \A v \in DOMAIN left : left[v] = trail[s].is[v]
            BY <1>1, OpenRows
        <3> QED
            BY <1>3, <2>3, <3>1 DEF ContestedIn
    <2>5. ReplacementValue(sent, tx[w].in, tx[w].d) = Proposed(sent, c)
        BY <1>1, <1>3, <2>4 DEF ReplacementValue
    <2>6. Proposed(sent, c) = sent[c].proposes
        BY <1>1 DEF Proposed, IsAnswer, IsCompensation
    <2> QED
        BY <1>3, <1>9, <2>5, <2>6 DEF Planned
<1>15. PriorActive(s)' = PriorActive(s)
    BY <1>5 DEF PriorActive
<1>16. TheOne({n}) = n
    BY DEF TheOne
<1>17. Closes(c)'
    <2>1. trail'[c].is[n].val = rows'[n].val
        BY <1>6, <1>12
    <2>2. sent'[c].target = s
        BY <1>1, <1>5
    <2> QED
        BY <1>1, <1>3, <1>5, <1>6, <1>10, <1>11, <1>13, <1>14, <1>15, <1>16, <2>1, <2>2 DEF Closes
<1>18. ASSUME NEW d \in Compensations, sent[d].target = s
       PROVE  FALSE
    <2>1. Closes(d)
        BY DEF CompensationInv, ClosedOnce
    <2>2. \A t \in DOMAIN left : rows[t].state = "archived"
        BY <1>1, <1>18, <2>1 DEF Closes
    <2> QED
        BY <1>3, <1>9, <2>2 DEF CandidateStates
<1> QED
    BY <1>1, <1>17, <1>18

\* What is closed once stays closed once in an ordinary step.
LEMMA ClosedOnceStep ==
    ASSUME CompensationInv, OrdinaryStep
    PROVE  ClosedOnce'
<1>1. Next /\ AppendChanges /\ LedgerInv /\ Keeps
    BY OrdinaryKeeps DEF OrdinaryStep, CompensationInv
<1>2. ASSUME NEW c \in Compensations'
      PROVE  /\ c \in Compensations
             \/ /\ c \notin log /\ log' = log \cup {c} /\ Closes(c)'
                /\ \A d \in Compensations : sent[d].target # sent'[c].target
    <2>1. c \in log' /\ sent'[c].kind = "compensation" /\ audit'[c].state = "applied"
        BY <1>2 DEF Compensations, IsCompensation
    <2>2. CASE c \in log
        <3>1. c \in Issued
            BY <1>1, <2>2 DEF LedgerInv, IInv, TypeInv
        <3> QED
            BY <1>1, <2>1, <2>2, <3>1 DEF Keeps, Compensations, IsCompensation
    <2>3. CASE c \notin log
        <3>1. PICK w \in Writers : Step(w)
            BY <1>1, <2>1, <2>3 DEF Next, SubmitAnswer, SubmitCorrection
        <3>2. log' # log
            BY <2>1, <2>3
        <3>3. log' = log \cup {tx[w].in.e} /\ c = tx[w].in.e /\ sent' = sent
            BY <1>1, <2>1, <2>3, <3>1, <3>2, CommitKinds, StepKeepsSent
        <3>4. IsCompensation(tx[w].in.e) /\ audit'[tx[w].in.e].state = "applied"
            BY <2>1, <3>3 DEF IsCompensation
        <3>5. Replace(w)
            BY <3>1, <3>2, <3>4, AppliedByReplace
        <3> QED
            BY <1>1, <2>3, <3>1, <3>3, <3>4, <3>5, ReplaceCloses
    <2> QED
        BY <2>2, <2>3
<1>3. \A c \in Compensations : Closes(c)' /\ sent'[c].target = sent[c].target
    BY <1>1, ClosesKept
<1>4. \A c \in Compensations : c \in log
    BY DEF Compensations
<1>5. ASSUME NEW c \in Compensations', NEW d \in Compensations',
             sent'[d].target = sent'[c].target
      PROVE  d = c
    <2>1. CASE c \in Compensations /\ d \in Compensations
        BY <1>3, <1>5, <2>1 DEF CompensationInv, ClosedOnce
    <2>2. CASE c \in Compensations /\ d \notin Compensations
        BY <1>2, <1>3, <1>5, <2>2
    <2>3. CASE c \notin Compensations /\ d \in Compensations
        BY <1>2, <1>3, <1>5, <2>3
    <2>4. CASE c \notin Compensations /\ d \notin Compensations
        BY <1>2, <1>5, <2>4
    <2> QED
        BY <2>1, <2>2, <2>3, <2>4
<1> QED
    BY <1>2, <1>3, <1>5 DEF ClosedOnce

(***************************************************************************)
(* Planning a compensation.                                                *)
(***************************************************************************)
\* The supersede of everything open is a decision that the applier can act on.
LEMMA PlanDecided ==
    ASSUME CompensationInv, NEW s \in log, TailUnchanged(s),
           NEW in, in = [NoInput EXCEPT !.e = Len(sent) + 1, !.cand = Candidates],
           Len(sent) + 1 <= MaxEvents,
           NEW d, d = Decision("supersede", DOMAIN Candidates)
    PROVE  /\ in \in Input /\ in.e = Len(sent) + 1 /\ in.cand = Candidates
           /\ d \in Dec
           /\ SnapshotsOf(in, rows) /\ DecisionOK(in, d) /\ ShapeOK(in, d)
<1>1. LedgerInv /\ TypeInv /\ TrailOK /\ Len(sent) \in Nat
    BY DEF CompensationInv, LedgerInv, IInv, TypeInv
<1>2. in \in Input /\ in.e = Len(sent) + 1 /\ in.cand = Candidates
    <2>1. NoInput \in Input
        BY IdleType DEF IdleTx, Tx
    <2>2. \E e \in Nat, cand \in Cands : e = Len(sent) + 1 /\ cand = Candidates
        BY <1>1, CandidatesOK
    <2>3. PICK e \in Nat, cand \in Cands : e = Len(sent) + 1 /\ cand = Candidates
        BY <2>2
    <2>4. in = [NoInput EXCEPT !.e = e, !.cand = cand]
        BY <2>3
    <2>5. in \in Input /\ in.e = e /\ in.cand = cand
        BY <2>1, <2>4 DEF Input
    <2> QED
        BY <2>3, <2>5
<1>3. d.op = "supersede" /\ d.targets = DOMAIN in.cand /\ d = Decision(d.op, d.targets)
    BY <1>2 DEF Decision
<1>4. SnapshotsOf(in, rows)
    <2>1. DOMAIN in.cand \subseteq 1..Len(rows)
        BY <1>1, <1>2, CandidatesOK DEF Versions
    <2>2. ASSUME NEW t \in DOMAIN in.cand
          PROVE  /\ in.cand[t].state \in CandidateStates
                 /\ in.cand[t].rv <= rows[t].rv
                 /\ in.cand[t] = rows[t]
        <3>1. in.cand[t] = rows[t] /\ rows[t].state \in CandidateStates
            BY <1>1, <1>2, <2>2, CandidatesOK
        <3>2. in.cand[t].rv \in Nat
            BY <1>2, <2>2, CandidateType
        <3> QED
            BY <3>1, <3>2
    <2> QED
        BY <2>1, <2>2 DEF SnapshotsOf
<1>5. \A u, v \in ContestedIn(in.cand) : u = v
    <2>1. in.cand = OpenOf(trail[s].is)
        BY <1>2 DEF TailUnchanged
    <2>2. ContestedIn(in.cand) \subseteq ContestedIn(trail[s].is)
        <3>1. /\ DOMAIN in.cand \subseteq DOMAIN trail[s].is
              /\ \A v \in DOMAIN in.cand : in.cand[v] = trail[s].is[v]
            BY <2>1, OpenRows
        <3> QED
            BY <3>1 DEF ContestedIn
    <2> QED
        BY <1>1, <2>2 DEF TrailOK
<1>6. DecisionOK(in, d)
    <2>1. ContestedIn(in.cand) # {} => \E t \in DOMAIN in.cand : ContestedIn(in.cand) = {t}
        BY <1>5 DEF ContestedIn
    <2>2. DOMAIN in.cand \cap ContestedIn(in.cand) = ContestedIn(in.cand)
        BY DEF ContestedIn
    <2> QED
        BY <1>3, <2>1, <2>2 DEF DecisionOK, Operations
<1>7. ShapeOK(in, d)
    <2>1. in.e \in EventIds /\ in.e \notin log
        BY <1>1, <1>2 DEF LedgerInv, IInv, TypeInv, EventIds, Issued
    <2>2. in.e \notin Counted
        BY <1>1, <2>1 DEF LedgerInv, AuditMatchesMemory, NoAudit
    <2>3. \A t \in DOMAIN in.cand : in.e \notin in.cand[t].prov
        <3>1. \A t \in DOMAIN in.cand : t \in Versions /\ in.cand[t] = rows[t]
            BY <1>1, <1>2, CandidatesOK
        <3> QED
            BY <2>2, <3>1 DEF Counted
    <2>4. ActiveIn(in.cand) \subseteq DOMAIN in.cand
        BY DEF ActiveIn
    <2> QED
        BY <1>3, <2>3, <2>4 DEF ShapeOK
<1> QED
    BY <1>2, <1>3, <1>4, <1>6, <1>7, DecisionType

\* What a compensation issues, and the transaction it begins.
LEMMA PlanIssues ==
    ASSUME CompensationInv, NEW w \in Writers, NEW s \in log, Compensate(w, s)
    PROVE  /\ tx[w].step = "idle"
           /\ UNCHANGED <<log, rows, audit, trail>>
           /\ sent' \in Seq(Event) /\ Len(sent') = Len(sent) + 1 /\ Len(sent') <= MaxEvents
           /\ \A e \in Issued : sent'[e] = sent[e]
           /\ sent'[Len(sent) + 1].kind = "compensation"
           /\ sent'[Len(sent) + 1].target = s
           /\ sent'[Len(sent) + 1].proposes = trail[s].was[TheOne(PriorActive(s))].val
           /\ PriorActive(s) # {}
<1> DEFINE val == trail[s].was[TheOne(PriorActive(s))].val
           ev == [kind |-> "compensation", correct |-> FALSE, session |-> 0,
                  conf |-> 0, weight |-> 1, temporary |-> FALSE, careless |-> FALSE,
                  target |-> s, proposes |-> val]
<1>1. /\ tx[w].step = "idle" /\ Len(sent) + 1 <= MaxEvents
      /\ Cardinality(PriorActive(s)) = 1
      /\ sent' = Append(sent, ev) /\ UNCHANGED <<log, rows, audit, trail>>
    BY DEF Compensate
<1>2. sent \in Seq(Event) /\ s \in EventIds /\ s \in Nat /\ TrailOK
    BY StoreAssumption DEF CompensationInv, LedgerInv, IInv, TypeInv, Issued, EventIds
<1>3. PriorActive(s) # {}
    BY <1>1, OneIsSome
<1>4. val \in Value
    <2>1. TheOne(PriorActive(s)) \in PriorActive(s)
        BY <1>3 DEF TheOne
    <2>2. TheOne(PriorActive(s)) \in DOMAIN trail[s].was
        BY <2>1 DEF PriorActive, ActiveIn
    <2>3. PICK D \in SUBSET Nat : trail[s].was \in [D -> Row]
        BY <1>2 DEF TrailOK, Cands
    <2>4. trail[s].was[TheOne(PriorActive(s))] \in Row
        BY <2>2, <2>3
    <2> QED
        BY <2>4 DEF Row
<1> HIDE DEF val
<1>5. /\ ev \in Event /\ ev.kind = "compensation" /\ ev.target = s /\ ev.proposes = val
    BY <1>2, <1>4 DEF Event
<1> HIDE DEF ev
<1>6. /\ sent' \in Seq(Event) /\ Len(sent') = Len(sent) + 1 /\ sent'[Len(sent) + 1] = ev
      /\ \A e \in 1..Len(sent) : sent'[e] = sent[e]
    BY <1>1, <1>2, <1>5
<1> QED
    BY <1>1, <1>3, <1>5, <1>6 DEF Issued, val

\* A plan finds open rows.
LEMMA TailOpen ==
    ASSUME NEW s, TailUnchanged(s)
    PROVE  DOMAIN Candidates # {} /\ Candidates = OpenOf(trail[s].is)
<1>1. Candidates # NoRows /\ Candidates = OpenOf(trail[s].is)
    BY DEF TailUnchanged
<1>2. DOMAIN Candidates = {} => Candidates = NoRows
    BY DEF Candidates, NoRows
<1> QED
    BY <1>1, <1>2

\* The transaction that applies a plan.
LEMMA PlanInFlight ==
    ASSUME CompensationInv, NEW w \in Writers, NEW s \in log, Compensate(w, s)
    PROVE  /\ tx'[w].in.e = Len(sent) + 1
           /\ Compensating(tx'[w], OpenOf(trail[s].is))
           /\ \A u \in Writers \ {w} : tx'[u] = tx[u]
<1>1. PICK e, cand : e = Len(sent) + 1 /\ cand = Candidates
    OBVIOUS
<1>2. PICK in, d : /\ in = [NoInput EXCEPT !.e = e, !.cand = cand]
                   /\ d = Decision("supersede", DOMAIN cand)
    OBVIOUS
<1> DEFINE next == [IdleTx EXCEPT !.step = "decided", !.fresh = TRUE, !.in = in,
                                  !.first = in, !.d = d, !.n = MaxRecompute]
<1>3. tx' = [tx EXCEPT ![w] = next] /\ TailUnchanged(s) /\ tx \in [Writers -> Tx]
    BY <1>1, <1>2 DEF Compensate, CompensationInv, LedgerInv, IInv, TypeInv
<1>4. in.e = e /\ in.cand = cand
    BY <1>2 DEF NoInput
<1>5. next.step = "decided" /\ next.in = in /\ next.d = d /\ next.n = MaxRecompute
    BY DEF IdleTx
<1> HIDE DEF next
<1>6. tx'[w] = next /\ \A u \in Writers \ {w} : tx'[u] = tx[u]
    BY <1>3
<1>7. cand = OpenOf(trail[s].is) /\ DOMAIN cand # {}
    BY <1>1, <1>3, TailOpen
<1>8. Compensating(next, cand)
    BY <1>2, <1>4, <1>5, <1>7 DEF Compensating, Deciding
<1> QED
    BY <1>1, <1>4, <1>5, <1>6, <1>7, <1>8

\* The plan of a compensation keeps the write path sound.
LEMMA CompensateLedger ==
    ASSUME CompensationInv, NEW w \in Writers, NEW s \in log, Compensate(w, s)
    PROVE  LedgerInv'
<1> DEFINE e == Len(sent) + 1
           in == [NoInput EXCEPT !.e = e, !.cand = Candidates]
           d  == Decision("supersede", DOMAIN Candidates)
           next == [IdleTx EXCEPT !.step = "decided", !.fresh = TRUE, !.in = in,
                                  !.first = in, !.d = d, !.n = MaxRecompute]
<1>1. /\ tx' = [tx EXCEPT ![w] = next] /\ TailUnchanged(s) /\ e <= MaxEvents
      /\ LedgerInv /\ Len(sent) \in Nat /\ tx \in [Writers -> Tx] /\ log \subseteq Issued
    BY DEF Compensate, CompensationInv, LedgerInv, IInv, TypeInv
<1>2. /\ in \in Input /\ in.e = e /\ d \in Dec
      /\ SnapshotsOf(in, rows) /\ DecisionOK(in, d) /\ ShapeOK(in, d)
    BY <1>1, PlanDecided
<1>3. /\ UNCHANGED <<log, rows, audit>>
      /\ sent' \in Seq(Event) /\ Len(sent') = e /\ Len(sent') <= MaxEvents
    BY PlanIssues
<1>4. e \in Issued' /\ e \notin Issued /\ \A x \in Issued : x \in Issued'
    BY <1>1, <1>3 DEF Issued
<1> HIDE DEF in, d, e
<1>5. /\ next \in Tx /\ next.step = "decided" /\ next.fresh /\ next.in = in /\ next.d = d
      /\ next.n = MaxRecompute
    BY <1>2, IdleType, StoreAssumption DEF Tx
<1> HIDE DEF next
<1>6. /\ tx' \in [Writers -> Tx] /\ tx'[w] = next
      /\ \A u \in Writers \ {w} : tx'[u] = tx[u]
    BY <1>1, <1>5
<1>7. TypeInv'
    BY <1>1, <1>2, <1>3, <1>4, <1>5, <1>6, StoreAssumption DEF LedgerInv, IInv, TypeInv
<1>8. DecidedOK'
    <2>1. DecidedAt(next, rows)
        BY <1>2, <1>5 DEF DecidedAt
    <2> QED
        BY <1>1, <1>3, <1>6, <2>1 DEF LedgerInv, IInv, DecidedOK
<1>9. OneActive' /\ EvidenceCarriedForward' /\ Counted' = Counted
    BY <1>1, <1>3 DEF LedgerInv, IInv, OneActive, EvidenceCarriedForward, Versions, Counted
<1>10. AuditMatchesMemory'
    BY <1>1, <1>3, <1>9 DEF LedgerInv, AuditMatchesMemory, EventIds, NoAudit, NoInput, NoRows
<1>11. FreshOK'
    <2>1. e \notin log /\ \A u \in Writers \ {w} : tx[u].step # "idle" => tx[u].in.e # e
        BY <1>1, <1>4 DEF LedgerInv, IInv, TypeInv
    <2> QED
        BY <1>1, <1>2, <1>3, <1>5, <1>6, <2>1 DEF LedgerInv, FreshOK, Deciding
<1> QED
    BY <1>7, <1>8, <1>9, <1>10, <1>11 DEF LedgerInv, IInv

\* The plan of a compensation keeps everything else, too.
LEMMA CompensateStep ==
    ASSUME CompensationInv, NEW w \in Writers, NEW s \in log, Compensate(w, s)
    PROVE  CompensationInv'
<1>1. LedgerInv'
    BY CompensateLedger
<1>2. LedgerInv /\ TrailOK /\ PlansOK /\ TailUnchanged(s)
    BY DEF CompensationInv, Compensate
<1>3. /\ UNCHANGED <<log, rows, audit, trail>>
      /\ Len(sent') = Len(sent) + 1 /\ Len(sent) \in Nat
      /\ \A e \in Issued : sent'[e] = sent[e]
      /\ sent'[Len(sent) + 1].kind = "compensation"
      /\ sent'[Len(sent) + 1].target = s
      /\ sent'[Len(sent) + 1].proposes = trail[s].was[TheOne(PriorActive(s))].val
    BY <1>2, PlanIssues DEF LedgerInv, IInv, TypeInv
<1>4. Keeps
    <2>1. GrowsTo(rows, rows')
        BY <1>2, <1>3, GrowsToSelf DEF LedgerInv, IInv, TypeInv
    <2> QED
        BY <1>3, <2>1 DEF Keeps, Issued
<1>5. TrailOK'
    BY <1>2, <1>3 DEF TrailOK, PriorActive
<1>6. PriorActive(s)' = PriorActive(s)
    BY <1>3 DEF PriorActive
<1>8. PlansOK'
    <2>1. PICK n : n = Len(sent) + 1
        OBVIOUS
    <2>2. Planned(n, s)'
        BY <1>3, <1>6, <2>1 DEF Planned, Compensate
    <2>3. \A e \in Issued' : e \in Issued \/ e = n
        BY <1>3, <2>1 DEF Issued
    <2>4. ASSUME NEW e \in Issued, sent'[e].kind = "compensation"
          PROVE  Planned(e, sent[e].target)' /\ sent'[e].target = sent[e].target
        BY <1>3, <1>4, <2>4, PlansKept DEF IsCompensation
    <2>5. ASSUME NEW e \in Issued', sent'[e].kind = "compensation"
          PROVE  Planned(e, sent[e].target)'
        BY <1>3, <2>1, <2>2, <2>3, <2>4, <2>5
    <2> QED
        BY <2>5 DEF PlansOK, IsCompensation
<1>9. InFlightOK'
    <2>1. /\ tx'[w].in.e = Len(sent) + 1
          /\ Compensating(tx'[w], OpenOf(trail[s].is))
          /\ \A u \in Writers \ {w} : tx'[u] = tx[u]
        BY PlanInFlight
    <2>2. Compensating(tx'[w], OpenOf(trail'[sent'[tx'[w].in.e].target].is))
        BY <1>3, <2>1
    <2>3. ASSUME NEW u \in Writers \ {w}, tx[u].step # "idle",
                 sent'[tx[u].in.e].kind = "compensation"
          PROVE  Compensating(tx[u], OpenOf(trail'[sent'[tx[u].in.e].target].is))
        <3>1. tx[u].in.e \in Issued
            BY <1>2, <2>3 DEF LedgerInv, IInv, TypeInv
        <3>2. IsCompensation(tx[u].in.e) /\ sent'[tx[u].in.e] = sent[tx[u].in.e]
            BY <1>3, <2>3, <3>1 DEF IsCompensation
        <3>3. Compensating(tx[u], OpenOf(trail[sent[tx[u].in.e].target].is))
            BY <2>3, <3>2, CompensationAtWork
        <3> QED
            BY <1>3, <3>2, <3>3
    <2> QED
        BY <2>1, <2>2, <2>3 DEF InFlightOK, IsCompensation
<1>10. ClosedOnce'
    <2>1. \A c \in Compensations :
            /\ c \in Compensations' /\ Closes(c)' /\ sent'[c].target = sent[c].target
        BY <1>4, ClosesKept
    <2>2. Compensations' \subseteq Compensations
        BY <1>2, <1>3 DEF Compensations, IsCompensation, LedgerInv, IInv, TypeInv
    <2> QED
        BY <2>1, <2>2 DEF CompensationInv, ClosedOnce
<1> QED
    BY <1>1, <1>5, <1>8, <1>9, <1>10 DEF CompensationInv

\* What is planned stays planned in an ordinary step.
LEMMA PlansStep ==
    ASSUME CompensationInv, OrdinaryStep
    PROVE  PlansOK'
<1>1. Next /\ LedgerInv /\ Keeps
    BY OrdinaryKeeps DEF OrdinaryStep, CompensationInv
<1>2. \A e \in Issued' : sent'[e].kind = "compensation" =>
            e \in Issued /\ IsCompensation(e)
    <2>1. CASE \E w \in Writers : Step(w)
        BY <2>1, StepKeepsSent DEF Issued, IsCompensation
    <2>2. CASE \/ \E k \in AnswerKinds : SubmitAnswer(k)
               \/ \E k \in CorrectionKinds, t \in Versions, r \in Replacements :
                    SubmitCorrection(k, t, r)
        BY <1>1, <2>2, SubmitKeeps DEF IsCompensation, LedgerInv
    <2> QED
        BY <1>1, <2>1, <2>2 DEF Next
<1>3. ASSUME NEW e \in Issued', sent'[e].kind = "compensation"
      PROVE  Planned(e, sent[e].target)'
    BY <1>1, <1>2, <1>3, PlansKept
<1> QED
    BY <1>3 DEF PlansOK, IsCompensation

\* The invariant holds at first and after every step.
LEMMA CompensationInitInv == CompensationInit => CompensationInv
<1> SUFFICES ASSUME CompensationInit
             PROVE  CompensationInv
    OBVIOUS
<1>1. Init /\ trail = [e \in EventIds |-> NoChange]
    BY DEF CompensationInit
<1>2. NoRows \in Cands /\ NoChange \in [was : Cands, is : Cands]
    <2>1. NoRows \in Cands
        BY DEF NoRows, Cands
    <2> QED
        BY <2>1 DEF NoChange
<1>3. TrailOK
    BY <1>1, <1>2 DEF TrailOK, Init
<1>4. PlansOK
    BY <1>1 DEF PlansOK, Init, Issued
<1>5. InFlightOK
    BY <1>1, IdleType DEF InFlightOK, Init
<1>6. ClosedOnce
    BY <1>1 DEF ClosedOnce, Compensations, Init
<1> QED
    BY <1>1, <1>3, <1>4, <1>5, <1>6, LedgerInitInv DEF CompensationInv

\* The invariant is inductive.
LEMMA CompensationNextInv ==
    CompensationInv /\ [CompensationNext]_compensationVars => CompensationInv'
<1> SUFFICES ASSUME CompensationInv, [CompensationNext]_compensationVars
             PROVE  CompensationInv'
    OBVIOUS
<1>1. CASE OrdinaryStep
    <2>1. LedgerInv'
        BY <1>1, LedgerNextInv DEF OrdinaryStep, CompensationInv
    <2> QED
        BY <1>1, <2>1, TrailStep, PlansStep, InFlightStep, ClosedOnceStep DEF CompensationInv
<1>2. CASE \E w \in Writers, s \in log : Compensate(w, s)
    BY <1>2, CompensateStep
<1>3. CASE UNCHANGED compensationVars
    <2>1. UNCHANGED <<sent, log, rows, audit, tx, trail>> /\ UNCHANGED vars
        BY <1>3 DEF compensationVars, vars
    <2>2. LedgerInv'
        BY <2>1, LedgerNextInv DEF CompensationInv
    <2>3. TrailOK' /\ PlansOK'
        BY <2>1 DEF CompensationInv, TrailOK, PlansOK, PriorActive, Planned, Issued,
            IsCompensation
    <2>4. InFlightOK' /\ ClosedOnce'
        BY <2>1 DEF CompensationInv, InFlightOK, ClosedOnce, Closes, PriorActive,
            IsCompensation, Compensations, Versions
    <2> QED
        BY <2>2, <2>3, <2>4 DEF CompensationInv
<1> QED
    BY <1>1, <1>2, <1>3 DEF CompensationNext

\* It holds in every reachable state.
LEMMA CompensationInvHolds == CompensationSpec => []CompensationInv
BY CompensationInitInv, CompensationNextInv, PTL DEF CompensationSpec

(***************************************************************************)
(* The theorems.                                                           *)
(***************************************************************************)
\* However ordinary writers and operators race, an applied compensation has
\* closed exactly what its source left open, as the source left it, no source is
\* taken back twice, and the slot holds the earlier value again unless the source
\* opened a dispute.
THEOREM TakesBackItsSourceHolds == CompensationSpec => []TakesBackItsSource
<1>1. CompensationInv => TakesBackItsSource
    BY DEF CompensationInv, ClosedOnce, Closes, TakesBackItsSource
<1> QED
    BY <1>1, CompensationInvHolds, PTL

\* Beside compensations a slot still has at most one active row.
THEOREM CompensationOneActive == CompensationSpec => []OneActive
<1>1. CompensationInv => OneActive
    BY DEF CompensationInv, LedgerInv, IInv
<1> QED
    BY <1>1, CompensationInvHolds, PTL

\* Beside compensations no evidence is lost.
THEOREM CompensationEvidence == CompensationSpec => []EvidenceCarriedForward
<1>1. CompensationInv => EvidenceCarriedForward
    BY DEF CompensationInv, LedgerInv, IInv
<1> QED
    BY <1>1, CompensationInvHolds, PTL

\* Beside compensations a row version still tells whether a row has changed.
THEOREM CompensationVersions == CompensationSpec => []VersionTellsRow
<1>1. CompensationInv => VersionTellsRow
    BY InvVersions DEF CompensationInv, LedgerInv
<1> QED
    BY <1>1, CompensationInvHolds, PTL

\* The audit tells the truth about compensations, too: each is in L1 exactly when
\* it has an outcome, and L2 holds it unless it was given up.
THEOREM CompensationAudit == CompensationSpec => []AuditMatchesMemory
<1>1. CompensationInv => AuditMatchesMemory
    BY DEF CompensationInv, LedgerInv
<1> QED
    BY <1>1, CompensationInvHolds, PTL

\* The write path with compensations implements the evidence ledger: planning one
\* leaves the ledger alone, and applying it records one event as any other commit.
THEOREM CompensationLedger == CompensationSpec => ImplementsLedger
<1>1. CompensationInit => Ledger!LedgerInit
    BY DEF CompensationInit, Init, Ledger!LedgerInit, Counted, Versions
<1>2. CompensationInv /\ [CompensationNext]_compensationVars =>
            [Ledger!LedgerNext]_(Ledger!LedgerVars)
    <2> SUFFICES ASSUME CompensationInv, [CompensationNext]_compensationVars
                 PROVE  [Ledger!LedgerNext]_(Ledger!LedgerVars)
        OBVIOUS
    <2>1. CASE OrdinaryStep
        BY <2>1, LedgerSteps DEF OrdinaryStep, CompensationInv
    <2>2. CASE \E w \in Writers, s \in log : Compensate(w, s)
        BY <2>2 DEF Compensate, Ledger!LedgerVars, Counted, Versions
    <2>3. CASE UNCHANGED compensationVars
        BY <2>3 DEF compensationVars, vars, Ledger!LedgerVars, Counted, Versions
    <2> QED
        BY <2>1, <2>2, <2>3 DEF CompensationNext
<1> QED
    BY <1>1, <1>2, CompensationInvHolds, PTL
        DEF CompensationSpec, ImplementsLedger, Ledger!LedgerSpec

\* L2 stays append-only beside compensations: what one takes back is closed by a
\* new version, never rewritten.
THEOREM CompensationAppendOnly == CompensationSpec => AppendOnly
<1> DEFINE Grows == /\ Len(rows') >= Len(rows)
                    /\ \A v \in Versions :
                        /\ rows'[v].val = rows[v].val /\ rows'[v].from = rows[v].from
                        /\ rows[v].prov \subseteq rows'[v].prov
                        /\ rows[v].state \notin CandidateStates => rows'[v] = rows[v]
                        /\ rows'[v] # rows[v] => rows'[v].rv = rows[v].rv + 1
<1>1. CompensationInv /\ [CompensationNext]_compensationVars => [Grows]_vars
    <2> SUFFICES ASSUME CompensationInv, [CompensationNext]_compensationVars
                 PROVE  [Grows]_vars
        OBVIOUS
    <2>1. GrowsTo(rows, rows') => Grows
        BY DEF GrowsTo, Versions
    <2>2. CASE OrdinaryStep
        BY <2>1, <2>2, NextGrows DEF OrdinaryStep, CompensationInv, LedgerInv
    <2>3. CASE \E w \in Writers, s \in log : Compensate(w, s)
        BY <2>1, <2>3, GrowsToSelf DEF Compensate, CompensationInv, LedgerInv, IInv, TypeInv
    <2>4. CASE UNCHANGED compensationVars
        BY <2>4 DEF compensationVars
    <2> QED
        BY <2>2, <2>3, <2>4 DEF CompensationNext
<1> QED
    BY <1>1, CompensationInvHolds, PTL DEF CompensationSpec, AppendOnly
=============================================================================
