----------------------- MODULE LifecycleStoreProofs -----------------------
(* Proofs about LifecycleStore, for any number of writers and events, any
   contents of answers and corrections, and any policy thresholds; only what is
   said of the value left standing needs a sole writer and a positive margin. *)
EXTENDS LifecycleStore, MasteryPolicyProofs, SequenceTheorems

(***************************************************************************)
(* The inductive invariant.                                                *)
(***************************************************************************)
Event ==
    [kind : {"answer", "correction", "compensation"}, correct : BOOLEAN, session : Nat,
     conf : 0..100, weight : Nat, temporary : BOOLEAN, careless : BOOLEAN,
     target : Nat, proposes : Value]

Cands == UNION {[D -> Row] : D \in SUBSET Nat}
Input == [e : Nat, cand : Cands, hist : SUBSET Nat,
          rel : [kind : {"none", "duplicate", "contradictory"}, targets : SUBSET Nat]]
Dec   == [op : Operations, targets : SUBSET Nat]
Tx    == [step : {"idle", "recorded", "decided", "versioned", "stale"},
          fresh : BOOLEAN, in : Input, first : Input, d : Dec, ver : Nat, n : Nat]

\* The full types of the variables; TypeOK is a consequence.
TypeInv ==
    /\ sent \in Seq(Event) /\ Len(sent) <= MaxEvents
    /\ log \subseteq Issued
    /\ rows \in Seq(Row)
    /\ DOMAIN audit = EventIds
    /\ tx \in [Writers -> Tx]
    /\ \A w \in Writers :
        /\ tx[w].step # "idle" => tx[w].in.e \in Issued
        /\ tx[w].n <= MaxRecompute

\* The snapshots a transaction decided on are rows of the chain that were
\* open, and an equal row version means an equal row.
SnapshotsOf(in, chain) ==
    /\ DOMAIN in.cand \subseteq 1..Len(chain)
    /\ \A t \in DOMAIN in.cand :
        /\ in.cand[t].state \in CandidateStates
        /\ in.cand[t].rv <= chain[t].rv
        /\ in.cand[t].rv = chain[t].rv => in.cand[t] = chain[t]

\* A decided transaction has its snapshots and a decision with a legal shape.
DecidedAt(t, chain) ==
    t.step \in {"decided", "versioned", "stale"} =>
        /\ SnapshotsOf(t.in, chain)
        /\ DecisionOK(t.in, t.d)
        /\ ShapeOK(t.in, t.d)

DecidedOK == \A w \in Writers : DecidedAt(tx[w], rows)

IInv == TypeInv /\ DecidedOK /\ OneActive /\ EvidenceCarriedForward

\* What every step does to the chain: rows are added at the end, and a row
\* that changes is an open one whose row version rises by one.
GrowsTo(chain, next) ==
    /\ Len(next) >= Len(chain)
    /\ \A v \in 1..Len(chain) :
        /\ next[v].val = chain[v].val /\ next[v].from = chain[v].from
        /\ chain[v].prov \subseteq next[v].prov
        /\ chain[v].state \notin CandidateStates => next[v] = chain[v]
        /\ next[v] # chain[v] => next[v].rv = chain[v].rv + 1

\* What a step of writer w does to the invariant.
Preserves(w) ==
    /\ TypeInv'
    /\ GrowsTo(rows, rows')
    /\ \A u \in Writers \ {w} : tx'[u] = tx[u]
    /\ DecidedAt(tx'[w], rows')
    /\ OneActive' /\ EvidenceCarriedForward'

(***************************************************************************)
(* Initial states, and lemmas on what the steps are built from.            *)
(***************************************************************************)
\* An idle transaction has its type.
LEMMA IdleType == IdleTx \in Tx /\ IdleTx.step = "idle" /\ IdleTx.n = 0
<1>1. NoRows \in Cands
    BY DEF NoRows, Cands
<1>2. NoInput \in Input
    BY <1>1 DEF NoInput, Input, NoRelation
<1>3. NoOp \in Dec
    BY DEF NoOp, Dec, Decision, Operations
<1> QED
    BY <1>2, <1>3 DEF IdleTx, Tx

\* An idle transaction has decided nothing.
LEMMA IdleOK ==
    ASSUME NEW chain
    PROVE  DecidedAt(IdleTx, chain)
BY IdleType DEF DecidedAt

\* The invariant holds of the empty database.
LEMMA InitInv == Init => IInv
<1> SUFFICES ASSUME Init
             PROVE  IInv
    OBVIOUS
<1>1. TypeInv
    BY IdleType, StoreAssumption DEF TypeInv, Init, Issued
<1>2. DecidedOK
    BY IdleOK DEF DecidedOK, Init
<1>3. OneActive /\ EvidenceCarriedForward
    BY DEF OneActive, EvidenceCarriedForward, Init, Versions
<1> QED
    BY <1>1, <1>2, <1>3 DEF IInv

\* The candidate snapshots are finitely many open rows of the chain.
LEMMA CandidatesOK ==
    ASSUME TypeInv
    PROVE  /\ Candidates \in Cands
           /\ IsFiniteSet(DOMAIN Candidates)
           /\ DOMAIN Candidates \subseteq Versions
           /\ \A t \in DOMAIN Candidates :
                Candidates[t] = rows[t] /\ rows[t].state \in CandidateStates
<1> DEFINE D == {u \in Versions : rows[u].state \in CandidateStates}
<1>1. Len(rows) \in Nat /\ \A v \in Versions : rows[v] \in Row
    BY DEF TypeInv, Versions
<1>2. Candidates \in [D -> Row]
    BY <1>1 DEF Candidates
<1>3. D \in SUBSET Nat
    BY <1>1 DEF Versions
<1>4. IsFiniteSet(D)
    <2>1. IsFiniteSet(Versions)
        BY <1>1, FS_Interval DEF Versions
    <2> QED
        BY <2>1, FS_Subset
<1> QED
    BY <1>2, <1>3, <1>4 DEF Candidates, Cands

\* The resolved relation names versions.
LEMMA RelationType ==
    ASSUME TypeInv, NEW e \in Issued
    PROVE  Relation(sent, e, Candidates) \in
            [kind : {"none", "duplicate", "contradictory"}, targets : SUBSET Nat]
<1>1. sent[e] \in Event
    BY DEF TypeInv, Issued
<1>2. sent[e].target \in Nat
    BY <1>1 DEF Event
<1>3. ActiveIn(Candidates) \subseteq Nat
    BY CandidatesOK DEF ActiveIn, TypeInv, Versions
<1> QED
    BY <1>2, <1>3 DEF Relation, NoRelation

\* What an event proposes is a mastery value.
LEMMA ProposedType ==
    ASSUME TypeInv, NEW e \in Issued
    PROVE  Proposed(sent, e) \in Value
<1>1. sent[e] \in Event
    BY DEF TypeInv, Issued
<1>2. sent[e].proposes \in Value
    BY <1>1 DEF Event
<1> QED
    BY <1>2 DEF Proposed, High, Low, Value

\* A chain left alone grows to itself.
LEMMA GrowsToSelf ==
    ASSUME NEW chain \in Seq(Row)
    PROVE  GrowsTo(chain, chain)
BY DEF GrowsTo

\* A snapshot in a policy input is a row, named by its version.
LEMMA CandidateType ==
    ASSUME NEW in \in Input, NEW t \in DOMAIN in.cand
    PROVE  in.cand[t] \in Row /\ in.cand[t].rv \in Nat /\ t \in Nat
<1>1. PICK D \in SUBSET Nat : in.cand \in [D -> Row]
    BY DEF Input, Cands
<1>2. in.cand[t] \in Row /\ t \in Nat
    BY <1>1
<1> QED
    BY <1>2 DEF Row

\* A change of the chain leaves the snapshots of other transactions sound.
LEMMA SnapshotsKept ==
    ASSUME NEW in \in Input, NEW chain \in Seq(Row), NEW next \in Seq(Row),
           SnapshotsOf(in, chain), GrowsTo(chain, next)
    PROVE  SnapshotsOf(in, next)
<1>1. Len(chain) \in Nat /\ Len(next) \in Nat /\ Len(next) >= Len(chain)
    BY DEF GrowsTo
<1>2. DOMAIN in.cand \subseteq 1..Len(next)
    BY <1>1 DEF SnapshotsOf
<1>3. ASSUME NEW t \in DOMAIN in.cand
      PROVE  /\ in.cand[t].rv <= next[t].rv
             /\ in.cand[t].rv = next[t].rv => in.cand[t] = next[t]
    <2>1. t \in 1..Len(chain)
        BY <1>3 DEF SnapshotsOf
    <2>2. chain[t] \in Row
        BY <2>1
    <2>3. chain[t].rv \in Nat
        BY <2>2 DEF Row
    <2>5. in.cand[t].rv \in Nat
        BY CandidateType
    <2>6. CASE next[t] = chain[t]
        BY <2>6 DEF SnapshotsOf
    <2>7. CASE next[t] # chain[t]
        <3>1. next[t].rv = chain[t].rv + 1
            BY <2>1, <2>7 DEF GrowsTo
        <3>2. in.cand[t].rv <= chain[t].rv
            BY DEF SnapshotsOf
        <3> QED
            BY <3>1, <3>2, <2>3, <2>5
    <2> QED
        BY <2>6, <2>7
<1> QED
    BY <1>2, <1>3 DEF SnapshotsOf

\* A writer's step preserves the invariant when it does so for that writer.
LEMMA PreservesAll ==
    ASSUME IInv, NEW w \in Writers, Preserves(w)
    PROVE  IInv'
<1>1. TypeInv /\ TypeInv' /\ GrowsTo(rows, rows')
    BY DEF IInv, Preserves
<1>2. ASSUME NEW u \in Writers \ {w}
      PROVE  DecidedAt(tx'[u], rows')
    <2>1. tx'[u] = tx[u] /\ DecidedAt(tx[u], rows)
        BY DEF Preserves, IInv, DecidedOK
    <2>2. tx[u].in \in Input
        BY <1>1 DEF TypeInv, Tx
    <2>3. rows \in Seq(Row) /\ rows' \in Seq(Row)
        BY <1>1 DEF TypeInv
    <2>4. SnapshotsOf(tx[u].in, rows) => SnapshotsOf(tx[u].in, rows')
        BY <2>2, <2>3, <1>1, SnapshotsKept
    <2> QED
        BY <2>1, <2>4 DEF DecidedAt
<1>3. DecidedOK'
    BY <1>2 DEF DecidedOK, Preserves
<1> QED
    BY <1>3 DEF IInv, Preserves

(***************************************************************************)
(* Steps that only change a transaction, or commit without changing rows.  *)
(***************************************************************************)
\* Writer w's transaction becomes next; nothing else changes.
LEMMA TxStep ==
    ASSUME IInv, NEW w \in Writers, NEW next \in Tx,
           tx' = [tx EXCEPT ![w] = next], UNCHANGED <<sent, log, rows, audit>>,
           next.step # "idle" => next.in.e \in Issued,
           next.n <= MaxRecompute,
           DecidedAt(next, rows)
    PROVE  Preserves(w)
<1>1. /\ tx' \in [Writers -> Tx] /\ tx'[w] = next
      /\ \A u \in Writers \ {w} : tx'[u] = tx[u]
    BY DEF IInv, TypeInv
<1>2. TypeInv'
    BY <1>1 DEF IInv, TypeInv, Issued
<1>3. GrowsTo(rows, rows')
    BY GrowsToSelf DEF IInv, TypeInv
<1>4. OneActive' /\ EvidenceCarriedForward'
    BY DEF IInv, OneActive, EvidenceCarriedForward, Versions
<1> QED
    BY <1>1, <1>2, <1>3, <1>4 DEF Preserves

\* A transaction that ends without a trace preserves the invariant.
LEMMA EndStep ==
    ASSUME IInv, NEW w \in Writers, End(w), UNCHANGED <<sent, log, rows, audit>>
    PROVE  Preserves(w)
<1>1. DecidedAt(IdleTx, rows)
    BY IdleOK
<1>2. IdleTx.n <= MaxRecompute
    BY IdleType, StoreAssumption
<1> QED
    BY <1>1, <1>2, IdleType, TxStep DEF End

\* A commit, whatever it makes of the rows.
LEMMA CommitStep ==
    ASSUME IInv, NEW w \in Writers, tx[w].step # "idle",
           NEW input, NEW op, NEW state, CommitOutcome(w, input, op, state),
           rows' \in Seq(Row), GrowsTo(rows, rows'),
           OneActive', EvidenceCarriedForward'
    PROVE  Preserves(w)
<1>1. tx' = [tx EXCEPT ![w] = IdleTx] /\ sent' = sent
    BY DEF CommitOutcome, End
<1>2. /\ tx' \in [Writers -> Tx] /\ tx'[w] = IdleTx
      /\ \A u \in Writers \ {w} : tx'[u] = tx[u]
    BY <1>1, IdleType DEF IInv, TypeInv
<1>3. log' \subseteq Issued
    BY DEF CommitOutcome, IInv, TypeInv
<1>4. DOMAIN audit' = EventIds
    BY DEF CommitOutcome, IInv, TypeInv
<1>5. IdleTx.n <= MaxRecompute
    BY IdleType, StoreAssumption
<1>6. TypeInv'
    BY <1>1, <1>2, <1>3, <1>4, <1>5, IdleType DEF IInv, TypeInv, Issued, EventIds
<1>7. DecidedAt(tx'[w], rows')
    BY <1>2, IdleOK
<1> QED
    BY <1>2, <1>6, <1>7 DEF Preserves

\* A commit that leaves L2 alone preserves the invariant.
LEMMA CommitUnchanged ==
    ASSUME IInv, NEW w \in Writers, tx[w].step # "idle",
           NEW input, NEW op, NEW state, CommitOutcome(w, input, op, state),
           UNCHANGED rows
    PROVE  Preserves(w)
<1>1. rows' \in Seq(Row) /\ GrowsTo(rows, rows')
    BY GrowsToSelf DEF IInv, TypeInv
<1>2. OneActive' /\ EvidenceCarriedForward'
    BY DEF IInv, OneActive, EvidenceCarriedForward, Versions
<1> QED
    BY <1>1, <1>2, CommitStep

\* Recording an event and reading its history.
LEMMA BeginStep ==
    ASSUME IInv, NEW w \in Writers, NEW e \in Issued, Begin(w, e)
    PROVE  Preserves(w)
<1> DEFINE in == [NoInput EXCEPT !.e = e, !.hist = log \ {e}]
           next == [IdleTx EXCEPT !.step = "recorded", !.fresh = e \notin log, !.in = in]
<1>1. Len(sent) \in Nat /\ log \subseteq Nat /\ e \in Nat
    BY DEF IInv, TypeInv, Issued
<1>2. NoInput \in Input
    BY IdleType DEF IdleTx, Tx
<1>3. in \in Input /\ in.e = e
    BY <1>1, <1>2 DEF Input
<1>4. next \in Tx /\ next.step = "recorded" /\ next.in = in /\ next.n = 0
    <2> HIDE DEF in
    <2> QED
        BY <1>3, IdleType DEF Tx
<1>5. tx' = [tx EXCEPT ![w] = next] /\ UNCHANGED <<sent, log, rows, audit>>
    BY DEF Begin
<1>6. DecidedAt(next, rows)
    BY <1>4 DEF DecidedAt
<1> HIDE DEF in, next
<1>7. next.in.e \in Issued /\ next.n <= MaxRecompute
    BY <1>3, <1>4, StoreAssumption
<1> QED
    BY <1>4, <1>5, <1>6, <1>7, TxStep

\* A sound decision has its type.
LEMMA DecisionType ==
    ASSUME NEW in \in Input, NEW d, DecisionOK(in, d)
    PROVE  d \in Dec
<1>1. DOMAIN in.cand \subseteq Nat
    BY CandidateType
<1> QED
    BY <1>1 DEF DecisionOK, Dec, Decision

\* What a writer decides on the rows as they are is sound to act on.
LEMMA DecisionOnCandidates ==
    ASSUME TypeInv, NEW in \in Input, in.cand = Candidates,
           Decide(sent, in).op # "raise", ShapeOK(in, Decide(sent, in))
    PROVE  /\ Decide(sent, in) \in Dec
           /\ SnapshotsOf(in, rows)
           /\ DecisionOK(in, Decide(sent, in))
<1>1. DecisionOK(in, Decide(sent, in))
    BY CandidatesOK, DecideOK
<1>2. SnapshotsOf(in, rows)
    <2>1. DOMAIN in.cand \subseteq 1..Len(rows)
        BY CandidatesOK DEF Versions
    <2>2. ASSUME NEW t \in DOMAIN in.cand
          PROVE  /\ in.cand[t].state \in CandidateStates
                 /\ in.cand[t].rv <= rows[t].rv
                 /\ in.cand[t] = rows[t]
        BY <2>2, CandidatesOK, CandidateType
    <2> QED
        BY <2>1, <2>2 DEF SnapshotsOf
<1> QED
    BY <1>1, <1>2, DecisionType

\* The input of a first decision has its type and holds the current rows.
LEMMA FirstInputType ==
    ASSUME TypeInv, NEW in \in Input, in.e \in Issued
    PROVE  /\ FirstInput(in) \in Input
           /\ FirstInput(in).e = in.e
           /\ FirstInput(in).cand = Candidates
<1>1. Relation(sent, in.e, Candidates) \in
            [kind : {"none", "duplicate", "contradictory"}, targets : SUBSET Nat]
    BY RelationType
<1> QED
    BY <1>1, CandidatesOK DEF FirstInput, Input

\* A first decision: replayed, committed as a NO_OP or taken to the rows.
LEMMA DecideFirstStep ==
    ASSUME IInv, NEW w \in Writers, DecideFirst(w)
    PROVE  Preserves(w)
<1> DEFINE in == FirstInput(tx[w].in)
           d  == Decide(sent, in)
           next == [tx[w] EXCEPT !.step = "decided", !.in = in, !.first = in, !.d = d]
<1>1. /\ TypeInv /\ tx[w] \in Tx /\ tx[w].step = "recorded"
      /\ tx[w].in.e \in Issued /\ tx[w].n <= MaxRecompute
    BY DEF IInv, TypeInv, DecideFirst
<1>2. in \in Input /\ in.e \in Issued /\ in.cand = Candidates
    BY <1>1, FirstInputType DEF Tx
<1>3. d.op # "raise" /\ ShapeOK(in, d)
    BY DEF DecideFirst
<1>4. d \in Dec /\ SnapshotsOf(in, rows) /\ DecisionOK(in, d)
    BY <1>1, <1>2, <1>3, DecisionOnCandidates
<1>5. CASE End(w) /\ UNCHANGED <<sent, log, rows, audit>>
    BY <1>5, EndStep
<1>6. CASE CommitOutcome(w, in, "no_op", NoOpState(in)) /\ UNCHANGED rows
    BY <1>1, <1>6, CommitUnchanged
<1>7. CASE tx' = [tx EXCEPT ![w] = next] /\ UNCHANGED <<sent, log, rows, audit>>
    <2> HIDE DEF in, d
    <2>1. /\ next \in Tx /\ next.step = "decided" /\ next.in = in /\ next.d = d
          /\ next.n <= MaxRecompute
        BY <1>1, <1>2, <1>4 DEF Tx
    <2> HIDE DEF next
    <2>2. DecidedAt(next, rows)
        BY <2>1, <1>3, <1>4 DEF DecidedAt
    <2> QED
        BY <1>2, <1>7, <2>1, <2>2, TxStep
<1> QED
    BY <1>5, <1>6, <1>7 DEF DecideFirst

\* Reading the next version.
LEMMA ReadVersionStep ==
    ASSUME IInv, NEW w \in Writers, ReadVersion(w)
    PROVE  Preserves(w)
<1> DEFINE ver  == Len(rows) + 1
           next == [tx[w] EXCEPT !.step = "versioned", !.ver = ver]
<1>1. /\ tx[w] \in Tx /\ tx[w].in.e \in Issued /\ tx[w].n <= MaxRecompute
      /\ Len(rows) \in Nat /\ tx[w].step = "decided" /\ DecidedAt(tx[w], rows)
    BY DEF IInv, TypeInv, ReadVersion, DecidedOK
<1>2. /\ next \in Tx /\ next.step = "versioned" /\ next.in = tx[w].in
      /\ next.d = tx[w].d /\ next.n = tx[w].n
    <2>1. ver \in Nat
        BY <1>1
    <2> HIDE DEF ver
    <2> QED
        BY <1>1, <2>1 DEF Tx
<1>3. tx' = [tx EXCEPT ![w] = next] /\ UNCHANGED <<sent, log, rows, audit>>
    BY DEF ReadVersion
<1> HIDE DEF next
<1>4. DecidedAt(next, rows)
    BY <1>1, <1>2 DEF DecidedAt
<1> QED
    BY <1>1, <1>2, <1>3, <1>4, TxStep

\* A compare-and-set that matched no row.
LEMMA NoticeStaleStep ==
    ASSUME IInv, NEW w \in Writers, NoticeStale(w)
    PROVE  Preserves(w)
<1> DEFINE next == [tx[w] EXCEPT !.step = "stale"]
<1>1. /\ tx[w] \in Tx /\ tx[w].in.e \in Issued /\ tx[w].n <= MaxRecompute
      /\ tx[w].step \in {"decided", "versioned"} /\ DecidedAt(tx[w], rows)
    BY DEF IInv, TypeInv, NoticeStale, DecidedOK
<1>2. /\ next \in Tx /\ next.step = "stale" /\ next.in = tx[w].in
      /\ next.d = tx[w].d /\ next.n = tx[w].n
    BY <1>1 DEF Tx
<1>3. tx' = [tx EXCEPT ![w] = next] /\ UNCHANGED <<sent, log, rows, audit>>
    BY DEF NoticeStale
<1> HIDE DEF next
<1>4. DecidedAt(next, rows)
    BY <1>1, <1>2 DEF DecidedAt
<1> QED
    BY <1>1, <1>2, <1>3, <1>4, TxStep

\* A rebased input has its type and holds the current rows.
LEMMA RebasedType ==
    ASSUME TypeInv, NEW in \in Input
    PROVE  /\ Rebased(in) \in Input
           /\ Rebased(in).e = in.e
           /\ Rebased(in).cand = Candidates
<1>1. ASSUME NEW v \in DOMAIN Candidates
      PROVE  rows[v].prov \subseteq Nat
    <2>1. v \in Versions
        BY CandidatesOK
    <2>2. rows[v] \in Row
        BY <2>1 DEF TypeInv, Versions
    <2> QED
        BY <2>2, StoreAssumption DEF Row, EventIds
<1>2. UNION {rows[v].prov : v \in DOMAIN Candidates} \subseteq Nat
    BY <1>1
<1>3. (in.hist \cup UNION {rows[v].prov : v \in DOMAIN Candidates}) \ {in.e} \in SUBSET Nat
    BY <1>2 DEF Input
<1> QED
    BY <1>3, CandidatesOK DEF Rebased, Input

\* A recomputed decision: committed as a NO_OP or taken to the rows.
LEMMA RecomputeStep ==
    ASSUME IInv, NEW w \in Writers, Recompute(w)
    PROVE  Preserves(w)
<1> DEFINE in == Rebased(tx[w].in)
           d  == Decide(sent, in)
           n  == tx[w].n + 1
           next == [tx[w] EXCEPT !.step = "decided", !.in = in, !.d = d, !.n = n]
<1>1. /\ TypeInv /\ tx[w] \in Tx /\ tx[w].step = "stale"
      /\ tx[w].in.e \in Issued /\ tx[w].n < MaxRecompute
    BY DEF IInv, TypeInv, Recompute
<1>2. in \in Input /\ in.e \in Issued /\ in.cand = Candidates
    BY <1>1, RebasedType DEF Tx
<1>3. d.op # "raise" /\ ShapeOK(in, d)
    BY DEF Recompute
<1>4. d \in Dec /\ SnapshotsOf(in, rows) /\ DecisionOK(in, d)
    BY <1>1, <1>2, <1>3, DecisionOnCandidates
<1>5. CASE CommitOutcome(w, tx[w].first, "no_op", NoOpState(in)) /\ UNCHANGED rows
    BY <1>1, <1>5, CommitUnchanged
<1>6. CASE tx' = [tx EXCEPT ![w] = next] /\ UNCHANGED <<sent, log, rows, audit>>
    <2>1. n \in Nat /\ n <= MaxRecompute
        BY <1>1, StoreAssumption DEF Tx
    <2> HIDE DEF in, d, n
    <2>2. /\ next \in Tx /\ next.step = "decided" /\ next.in = in /\ next.d = d
          /\ next.n <= MaxRecompute
        BY <1>1, <1>2, <1>4, <2>1 DEF Tx
    <2> HIDE DEF next
    <2>3. DecidedAt(next, rows)
        BY <2>2, <1>3, <1>4 DEF DecidedAt
    <2> QED
        BY <1>2, <1>6, <2>2, <2>3, TxStep
<1> QED
    BY <1>5, <1>6 DEF Recompute

\* A decision that is given up leaves L2 as it was.
LEMMA GiveUpStep ==
    ASSUME IInv, NEW w \in Writers, GiveUp(w)
    PROVE  Preserves(w)
<1>1. /\ tx[w].step # "idle"
      /\ CommitOutcome(w, tx[w].first, tx[w].d.op, "failed") /\ UNCHANGED rows
    BY DEF GiveUp
<1> QED
    BY <1>1, CommitUnchanged

(***************************************************************************)
(* Steps that change rows.                                                 *)
(***************************************************************************)
\* A new row has the type of rows.
LEMMA NewRowType ==
    ASSUME NEW e \in EventIds, NEW val \in Value,
           NEW state \in {"active", "contested"}, NEW group \in 0..MaxEvents,
           NEW prov \in SUBSET EventIds
    PROVE  NewRow(e, val, state, group, prov) \in Row
BY DEF NewRow, Row

\* The first active row of an empty slot.
LEMMA AddStep ==
    ASSUME IInv, NEW w \in Writers, Add(w)
    PROVE  Preserves(w)
<1> DEFINE in  == tx[w].in
           row == NewRow(in.e, Proposed(sent, in.e), "active", 0, {in.e})
<1>1. /\ TypeInv /\ rows \in Seq(Row) /\ in.e \in Issued
      /\ tx[w].step # "idle" /\ OneActive /\ EvidenceCarriedForward
    BY DEF IInv, TypeInv, Add
<1>2. in.e \in EventIds
    BY <1>1, StoreAssumption DEF TypeInv, Issued, EventIds
<1>3. row \in Row
    BY <1>1, <1>2, ProposedType, NewRowType, StoreAssumption
<1>4. row.state = "active"
    BY DEF NewRow
<1>5. /\ rows' = Append(rows, row) /\ RoomFor(row, rows)
      /\ CommitOutcome(w, tx[w].first, "add", "applied")
    BY DEF Add
<1> HIDE DEF row, in
<1>6. /\ rows' \in Seq(Row) /\ Len(rows') = Len(rows) + 1 /\ Len(rows) \in Nat
      /\ \A v \in 1..Len(rows) : rows'[v] = rows[v]
      /\ rows'[Len(rows) + 1] = row
    BY <1>1, <1>3, <1>5
<1>7. GrowsTo(rows, rows')
    BY <1>6 DEF GrowsTo
<1>8. OneActive'
    BY <1>1, <1>4, <1>5, <1>6 DEF OneActive, RoomFor, Versions
<1>9. EvidenceCarriedForward'
    BY <1>1, <1>4, <1>6 DEF EvidenceCarriedForward, Versions
<1> QED
    BY <1>1, <1>5, <1>6, <1>7, <1>8, <1>9, CommitStep

\* The value, state and group of a replacement are those of a replaced row, or
\* the proposal's; its evidence is theirs and the event.
LEMMA ReplacementType ==
    ASSUME TypeInv, NEW in \in Input, in.e \in Issued, NEW d \in Dec,
           IsFiniteSet(DOMAIN in.cand), DecisionOK(in, d), d.op \in Replacing,
           \A t \in DOMAIN in.cand : in.cand[t].state \in CandidateStates
    PROVE  /\ ReplacementValue(sent, in, d) \in Value
           /\ ReplacementState(in, d) \in {"active", "contested"}
           /\ ReplacementGroup(in, d) \in 0..MaxEvents
           /\ CombinedProvenance(in, d) \in SUBSET EventIds
<1>1. ASSUME NEW t \in DOMAIN in.cand
      PROVE  /\ in.cand[t].val \in Value /\ in.cand[t].group \in 0..MaxEvents
             /\ in.cand[t].prov \subseteq EventIds /\ t \in Nat
    BY CandidateType DEF Row
<1>2. d.targets \subseteq DOMAIN in.cand
    BY DEF DecisionOK
<1>3. in.e \in EventIds
    BY StoreAssumption DEF TypeInv, Issued, EventIds
<1>4. ReplacementValue(sent, in, d) \in Value
    <2> DEFINE active    == d.targets \cap ActiveIn(in.cand)
               contested == d.targets \cap ContestedIn(in.cand)
    <2>1. CASE d.op = "merge" /\ active # {}
        <3>1. TheOne(active) \in active
            BY <2>1 DEF TheOne
        <3> QED
            BY <1>1, <1>2, <2>1, <3>1 DEF ReplacementValue
    <2>2. CASE d.op = "merge" /\ active = {}
        <3>1. PICK t \in d.targets : d.targets = {t}
            BY <2>2 DEF DecisionOK
        <3>2. Min(d.targets) = t
            BY <3>1, <1>1, <1>2 DEF Min
        <3> QED
            BY <1>1, <1>2, <2>2, <3>1, <3>2 DEF ReplacementValue
    <2>3. CASE d.op = "supersede" /\ contested # {}
        <3>1. PICK t \in d.targets : contested = {t}
            BY <2>3 DEF DecisionOK
        <3>2. Min(contested) = t
            BY <3>1, <1>1, <1>2 DEF Min
        <3> QED
            BY <1>1, <1>2, <2>3, <3>1, <3>2 DEF ReplacementValue
    <2>4. CASE d.op = "supersede" /\ contested = {}
        BY <2>4, ProposedType DEF ReplacementValue
    <2> QED
        BY <2>1, <2>2, <2>3, <2>4 DEF Replacing
<1>5. StaysDisputed(in, d) => TheOne(d.targets) \in DOMAIN in.cand
    <2>1. ASSUME StaysDisputed(in, d)
          PROVE  d.targets # {}
        <3>1. Cardinality(d.targets) = 1
            BY <2>1 DEF StaysDisputed
        <3>2. Cardinality({}) = 0
            BY FS_EmptySet
        <3> QED
            BY <3>1, <3>2
    <2> QED
        BY <1>2, <2>1 DEF TheOne
<1>6. ReplacementState(in, d) \in {"active", "contested"}
    BY <1>5 DEF ReplacementState, CandidateStates
<1>7. ReplacementGroup(in, d) \in 0..MaxEvents
    BY <1>1, <1>5, StoreAssumption DEF ReplacementGroup
<1>8. CombinedProvenance(in, d) \in SUBSET EventIds
    <2> DEFINE old == UNION {in.cand[t].prov : t \in d.targets}
    <2>1. old \subseteq EventIds
        BY <1>1, <1>2
    <2>2. CombinedProvenance(in, d) = old \cup {in.e}
        BY DEF CombinedProvenance
    <2> HIDE DEF old
    <2> QED
        BY <1>3, <2>1, <2>2
<1> QED
    BY <1>4, <1>6, <1>7, <1>8

\* An archived row keeps everything but state, successor and row version.
LEMMA ArchivedType ==
    ASSUME NEW row \in Row, NEW by \in Nat
    PROVE  /\ Archived(row, by) \in Row
           /\ Archived(row, by).state = "archived" /\ Archived(row, by).by = by
           /\ Archived(row, by).rv = row.rv + 1 /\ Archived(row, by).prov = row.prov
           /\ Archived(row, by).val = row.val /\ Archived(row, by).from = row.from
<1> DEFINE rv == row.rv + 1
<1>1. rv \in Nat \ {0}
    BY DEF Row
<1>2. Archived(row, by) = [row EXCEPT !.state = "archived", !.by = by, !.rv = rv]
    BY DEF Archived
<1> HIDE DEF rv
<1>3. /\ Archived(row, by) \in Row
      /\ Archived(row, by).state = "archived" /\ Archived(row, by).by = by
      /\ Archived(row, by).rv = rv /\ Archived(row, by).prov = row.prov
      /\ Archived(row, by).val = row.val /\ Archived(row, by).from = row.from
    BY <1>1, <1>2 DEF Row
<1> QED
    BY <1>3 DEF rv

\* The rows that are merged or superseded are closed and replaced by one.
LEMMA ReplaceStep ==
    ASSUME IInv, NEW w \in Writers, Replace(w)
    PROVE  Preserves(w)
<1> DEFINE in     == tx[w].in
           d      == tx[w].d
           ver    == tx[w].ver
           row    == NewRow(in.e, ReplacementValue(sent, in, d),
                            ReplacementState(in, d), ReplacementGroup(in, d),
                            CombinedProvenance(in, d))
           closed == [v \in Versions |->
                        IF v \in d.targets THEN Archived(rows[v], ver) ELSE rows[v]]
<1>1. /\ TypeInv /\ rows \in Seq(Row) /\ in.e \in Issued /\ tx[w] \in Tx
      /\ tx[w].step = "versioned" /\ OneActive /\ EvidenceCarriedForward
      /\ Len(rows) \in Nat
    BY DEF IInv, TypeInv, Replace
<1>2. in \in Input /\ d \in Dec /\ ver \in Nat /\ in.e \in EventIds
    BY <1>1, StoreAssumption DEF Tx, TypeInv, Issued, EventIds
<1>3. SnapshotsOf(in, rows) /\ DecisionOK(in, d)
    BY <1>1 DEF IInv, DecidedOK, DecidedAt
<1>4. /\ d.op \in Replacing /\ CannotClose(in, d) = {} /\ ver = Len(rows) + 1
      /\ RoomFor(row, closed) /\ rows' = Append(closed, row)
      /\ CommitOutcome(w, tx[w].first, d.op, "applied")
    BY DEF Replace
<1>5. DOMAIN in.cand \subseteq Versions /\ d.targets \subseteq Versions
    BY <1>3 DEF SnapshotsOf, DecisionOK, Versions
<1>6. row \in Row /\ row.state \in {"active", "contested"}
      /\ row.prov = CombinedProvenance(in, d)
    <2>1. IsFiniteSet(DOMAIN in.cand)
        <3>1. IsFiniteSet(Versions)
            BY <1>1, FS_Interval DEF Versions
        <3> QED
            BY <1>5, <3>1, FS_Subset
    <2>2. \A t \in DOMAIN in.cand : in.cand[t].state \in CandidateStates
        BY <1>3 DEF SnapshotsOf
    <2>3. /\ ReplacementValue(sent, in, d) \in Value
          /\ ReplacementState(in, d) \in {"active", "contested"}
          /\ ReplacementGroup(in, d) \in 0..MaxEvents
          /\ CombinedProvenance(in, d) \in SUBSET EventIds
        BY <1>1, <1>2, <1>3, <1>4, <2>1, <2>2, ReplacementType
    <2> QED
        BY <1>2, <2>3, NewRowType DEF NewRow
<1>7. ASSUME NEW t \in d.targets
      PROVE  /\ rows[t].state \in CandidateStates /\ in.cand[t] = rows[t]
             /\ rows[t].prov \subseteq CombinedProvenance(in, d)
    <2>1. Matches(in, t) /\ t \in DOMAIN in.cand
        BY <1>3, <1>4 DEF CannotClose, DecisionOK
    <2> QED
        BY <2>1, <1>3 DEF Matches, SnapshotsOf, CombinedProvenance
<1>8. ASSUME NEW v \in Versions
      PROVE  /\ rows[v] \in Row
             /\ v \in d.targets => closed[v] = Archived(rows[v], ver)
             /\ v \notin d.targets => closed[v] = rows[v]
             /\ closed[v] \in Row
    <2>1. rows[v] \in Row
        BY <1>1 DEF Versions
    <2> QED
        BY <1>2, <2>1, ArchivedType
<1>9. closed \in Seq(Row) /\ Len(closed) = Len(rows)
    <2>1. closed \in [1..Len(rows) -> Row]
        BY <1>8 DEF Versions
    <2> HIDE DEF closed
    <2> QED
        BY <1>1, <2>1, SeqDef, LenProperties
<1> HIDE DEF row, in, d, ver, closed
<1>10. /\ rows' \in Seq(Row) /\ Len(rows') = Len(rows) + 1
       /\ \A v \in 1..Len(rows) : rows'[v] = closed[v]
       /\ rows'[Len(rows) + 1] = row
    BY <1>1, <1>4, <1>6, <1>9
<1>11. ASSUME NEW v \in Versions
       PROVE  /\ rows'[v].val = rows[v].val /\ rows'[v].from = rows[v].from
              /\ rows'[v].prov = rows[v].prov
              /\ rows'[v] # rows[v] =>
                    /\ v \in d.targets /\ rows'[v].state = "archived"
                    /\ rows'[v].by = ver /\ rows'[v].rv = rows[v].rv + 1
    <2>1. rows'[v] = closed[v]
        BY <1>10 DEF Versions
    <2> QED
        BY <1>2, <1>8, <2>1, ArchivedType
<1>12. GrowsTo(rows, rows')
    BY <1>1, <1>7, <1>10, <1>11 DEF GrowsTo, Versions
<1>13. OneActive'
    <2>1. ASSUME NEW v \in 1..Len(rows), rows'[v].state = "active"
          PROVE  rows[v].state = "active" /\ row.state # "active"
        <3>1. rows'[v] = rows[v]
            BY <1>11, <2>1 DEF Versions
        <3>2. closed[v].state = "active" /\ v \in DOMAIN closed
            BY <1>9, <1>10, <2>1, LenProperties
        <3> QED
            BY <1>4, <2>1, <3>1, <3>2 DEF RoomFor
    <2> QED
        BY <1>1, <1>10, <2>1 DEF OneActive, Versions
<1>14. EvidenceCarriedForward'
    <2> SUFFICES ASSUME NEW v \in 1..Len(rows'), rows'[v].state = "archived"
                 PROVE  /\ rows'[v].by \in (v + 1)..Len(rows')
                        /\ rows'[v].prov \subseteq rows'[rows'[v].by].prov
        BY DEF EvidenceCarriedForward, Versions
    <2>1. v \in Versions
        BY <1>1, <1>6, <1>10 DEF Versions
    <2>2. CASE v \in d.targets /\ rows'[v] # rows[v]
        BY <1>1, <1>4, <1>6, <1>7, <1>10, <1>11, <2>1, <2>2 DEF Versions
    <2>3. CASE rows'[v] = rows[v]
        <3>1. /\ rows[v].by \in (v + 1)..Len(rows)
              /\ rows[v].prov \subseteq rows[rows[v].by].prov
            BY <1>1, <2>1, <2>3 DEF EvidenceCarriedForward
        <3>2. rows[v].by \in Versions
            BY <3>1, <2>1, <1>1 DEF Versions
        <3> QED
            BY <1>1, <1>10, <1>11, <2>1, <2>3, <3>1, <3>2 DEF Versions
    <2> QED
        BY <1>11, <2>1, <2>2, <2>3
<1> QED
    BY <1>1, <1>4, <1>10, <1>12, <1>13, <1>14, CommitStep

\* Rows that stay where they are and gain the event as provenance.
LEMMA InvalidatedType ==
    ASSUME NEW row \in Row, NEW e \in EventIds
    PROVE  /\ Invalidated(row, e) \in Row
           /\ Invalidated(row, e).state = "invalidated"
           /\ Invalidated(row, e).rv = row.rv + 1
           /\ Invalidated(row, e).prov = row.prov \cup {e}
           /\ Invalidated(row, e).val = row.val
           /\ Invalidated(row, e).from = row.from
<1> DEFINE rv   == row.rv + 1
           prov == row.prov \cup {e}
<1>1. rv \in Nat \ {0} /\ prov \in SUBSET EventIds /\ row.prov \subseteq prov
    BY DEF Row
<1>2. Invalidated(row, e) =
            [row EXCEPT !.state = "invalidated", !.rv = rv, !.prov = prov]
    BY DEF Invalidated
<1> HIDE DEF rv, prov
<1>3. /\ Invalidated(row, e) \in Row
      /\ Invalidated(row, e).state = "invalidated"
      /\ Invalidated(row, e).rv = rv /\ Invalidated(row, e).prov = prov
      /\ Invalidated(row, e).val = row.val /\ Invalidated(row, e).from = row.from
    BY <1>1, <1>2 DEF Row
<1> QED
    BY <1>1, <1>3 DEF rv, prov

\* The active side of a dispute stays active and gains the event.
LEMMA DisputedType ==
    ASSUME NEW row \in Row, NEW e \in EventIds, NEW group \in 0..MaxEvents
    PROVE  /\ Disputed(row, group, e) \in Row
           /\ Disputed(row, group, e).state = "active"
           /\ Disputed(row, group, e).rv = row.rv + 1
           /\ Disputed(row, group, e).prov = row.prov \cup {e}
           /\ Disputed(row, group, e).val = row.val
           /\ Disputed(row, group, e).from = row.from
           /\ Disputed(row, group, e).group = group
<1> DEFINE rv   == row.rv + 1
           prov == row.prov \cup {e}
<1>1. rv \in Nat \ {0} /\ prov \in SUBSET EventIds /\ row.prov \subseteq prov
    BY DEF Row
<1>2. Disputed(row, group, e) =
            [row EXCEPT !.state = "active", !.rv = rv, !.group = group, !.prov = prov]
    BY DEF Disputed
<1> HIDE DEF rv, prov
<1>3. /\ Disputed(row, group, e) \in Row
      /\ Disputed(row, group, e).state = "active"
      /\ Disputed(row, group, e).rv = rv /\ Disputed(row, group, e).prov = prov
      /\ Disputed(row, group, e).val = row.val /\ Disputed(row, group, e).from = row.from
      /\ Disputed(row, group, e).group = group
    BY <1>1, <1>2 DEF Row
<1> QED
    BY <1>1, <1>3 DEF rv, prov

\* A chain that keeps its archived rows, and of which every other row keeps
\* its evidence, still carries all evidence forward.
LEMMA EvidenceKept ==
    ASSUME EvidenceCarriedForward, NEW n \in Nat, n = Len(rows), NEW m \in Nat,
           m = Len(rows'), m >= n, GrowsTo(rows, rows'),
           \A v \in 1..m : rows'[v].state = "archived" => v <= n /\ rows'[v] = rows[v]
    PROVE  EvidenceCarriedForward'
<1> SUFFICES ASSUME NEW v \in 1..m, rows'[v].state = "archived"
             PROVE  /\ rows'[v].by \in (v + 1)..m
                    /\ rows'[v].prov \subseteq rows'[rows'[v].by].prov
    BY DEF EvidenceCarriedForward, Versions
<1>1. v \in 1..n /\ rows'[v] = rows[v]
    OBVIOUS
<1>2. rows[v].by \in (v + 1)..n /\ rows[v].prov \subseteq rows[rows[v].by].prov
    BY <1>1 DEF EvidenceCarriedForward, Versions
<1>3. rows[v].by \in 1..n
    BY <1>1, <1>2
<1>4. rows[rows[v].by].prov \subseteq rows'[rows[v].by].prov
    BY <1>3 DEF GrowsTo
<1> QED
    BY <1>1, <1>2, <1>4

\* Rows that are invalidated stay where they are and are not replaced.
LEMMA InvalidateStep ==
    ASSUME IInv, NEW w \in Writers, Invalidate(w)
    PROVE  Preserves(w)
<1> DEFINE in     == tx[w].in
           d      == tx[w].d
<1>1. /\ TypeInv /\ rows \in Seq(Row) /\ in.e \in Issued /\ tx[w] \in Tx
      /\ tx[w].step = "decided" /\ OneActive /\ EvidenceCarriedForward
      /\ Len(rows) \in Nat
    BY DEF IInv, TypeInv, Invalidate
<1>2. in.e \in EventIds
    BY <1>1, StoreAssumption DEF TypeInv, Issued, EventIds
<1>3. /\ CannotClose(in, d) = {}
      /\ rows' = [v \in Versions |->
                    IF v \in d.targets THEN Invalidated(rows[v], in.e) ELSE rows[v]]
      /\ CommitOutcome(w, tx[w].first, "invalidate", "applied")
    BY DEF Invalidate
<1>4. ASSUME NEW t \in d.targets
      PROVE  rows[t].state \in CandidateStates
    BY <1>3 DEF CannotClose, Matches
<1>5. ASSUME NEW v \in Versions
      PROVE  /\ rows'[v] \in Row
             /\ rows'[v].val = rows[v].val /\ rows'[v].from = rows[v].from
             /\ rows[v].prov \subseteq rows'[v].prov
             /\ rows'[v] # rows[v] =>
                    /\ v \in d.targets /\ rows'[v].state = "invalidated"
                    /\ rows'[v].rv = rows[v].rv + 1
    <2>1. rows[v] \in Row
        BY <1>1 DEF Versions
    <2>2. CASE v \notin d.targets
        BY <1>3, <2>1, <2>2
    <2>3. CASE v \in d.targets
        <3>1. rows'[v] = Invalidated(rows[v], in.e)
            BY <1>3, <2>3
        <3> QED
            BY <1>2, <2>1, <2>3, <3>1, InvalidatedType
    <2> QED
        BY <2>2, <2>3
<1>6. rows' \in Seq(Row) /\ Len(rows') = Len(rows)
    <2>1. rows' \in [1..Len(rows) -> Row]
        BY <1>3, <1>5 DEF Versions
    <2> QED
        BY <1>1, <2>1, SeqDef, LenProperties
<1> HIDE DEF in, d
<1>7. GrowsTo(rows, rows')
    BY <1>1, <1>4, <1>5, <1>6 DEF GrowsTo, Versions
<1>8. OneActive'
    BY <1>1, <1>5, <1>6 DEF OneActive, Versions
<1>9. EvidenceCarriedForward'
    <2>1. \A v \in 1..Len(rows') :
            rows'[v].state = "archived" => v <= Len(rows) /\ rows'[v] = rows[v]
        BY <1>1, <1>5, <1>6 DEF Versions
    <2> QED
        BY <1>1, <1>6, <1>7, <2>1, EvidenceKept
<1> QED
    BY <1>1, <1>3, <1>6, <1>7, <1>8, <1>9, CommitStep

\* A dispute marks the active row and appends its branch.
LEMMA ContestStep ==
    ASSUME IInv, NEW w \in Writers, Contest(w)
    PROVE  Preserves(w)
<1> DEFINE in     == tx[w].in
           d      == tx[w].d
           t      == TheOne(d.targets)
           group  == IF in.cand[t].group # 0 THEN in.cand[t].group ELSE in.e
           branch == NewRow(in.e, Proposed(sent, in.e), "contested", group, {in.e})
           marked == [rows EXCEPT ![t] = Disputed(rows[t], group, in.e)]
<1>1. /\ TypeInv /\ rows \in Seq(Row) /\ in.e \in Issued /\ tx[w] \in Tx
      /\ tx[w].step = "decided" /\ OneActive /\ EvidenceCarriedForward
      /\ Len(rows) \in Nat
    BY DEF IInv, TypeInv, Contest
<1>2. in \in Input /\ in.e \in EventIds
    BY <1>1, StoreAssumption DEF Tx, TypeInv, Issued, EventIds
<1>3. SnapshotsOf(in, rows) /\ DecisionOK(in, d) /\ ShapeOK(in, d)
    BY <1>1 DEF IInv, DecidedOK, DecidedAt
<1>4. /\ d.op = "contested" /\ Matches(in, t)
      /\ rows' = Append(marked, branch)
      /\ CommitOutcome(w, tx[w].first, "contested", "contested")
    BY DEF Contest
<1>5. t \in d.targets
    BY <1>3, <1>4 DEF DecisionOK, TheOne
<1>6. t \in DOMAIN in.cand /\ t \in Versions /\ in.cand[t].state = "active"
    BY <1>3, <1>4, <1>5 DEF DecisionOK, SnapshotsOf, ShapeOK, ActiveIn, Versions
<1>7. rows[t] \in Row /\ rows[t].state = "active" /\ in.cand[t] = rows[t]
    <2>1. rows[t] \in Row
        BY <1>1, <1>6 DEF Versions
    <2>2. in.cand[t].rv = rows[t].rv
        BY <1>4 DEF Matches
    <2>3. in.cand[t].rv = rows[t].rv => in.cand[t] = rows[t]
        BY <1>3, <1>6 DEF SnapshotsOf
    <2> QED
        BY <1>6, <2>1, <2>2, <2>3
<1>8. group \in 0..MaxEvents
    BY <1>2, <1>7 DEF Row, EventIds
<1>9. branch \in Row /\ branch.state = "contested"
    <2> HIDE DEF group
    <2>1. Proposed(sent, in.e) \in Value
        BY <1>1, ProposedType
    <2> QED
        BY <1>2, <1>8, <2>1, NewRowType DEF NewRow
<1> HIDE DEF in, d, t, group, branch
<1>10. /\ Disputed(rows[t], group, in.e) \in Row
       /\ Disputed(rows[t], group, in.e).state = "active"
       /\ Disputed(rows[t], group, in.e).rv = rows[t].rv + 1
       /\ rows[t].prov \subseteq Disputed(rows[t], group, in.e).prov
       /\ Disputed(rows[t], group, in.e).val = rows[t].val
       /\ Disputed(rows[t], group, in.e).from = rows[t].from
    BY <1>2, <1>7, <1>8, DisputedType
<1>11. /\ marked \in Seq(Row) /\ Len(marked) = Len(rows)
       /\ marked[t] = Disputed(rows[t], group, in.e)
       /\ \A v \in Versions \ {t} : marked[v] = rows[v]
    BY <1>1, <1>6, <1>10, ExceptSeq DEF Versions
<1> HIDE DEF marked
<1>12. /\ rows' \in Seq(Row) /\ Len(rows') = Len(rows) + 1
       /\ \A v \in 1..Len(rows) : rows'[v] = marked[v]
       /\ rows'[Len(rows) + 1] = branch
    BY <1>1, <1>4, <1>9, <1>11
<1>13. \A v \in Versions \ {t} : rows'[v] = rows[v]
    BY <1>11, <1>12 DEF Versions
<1>14. rows'[t] = Disputed(rows[t], group, in.e)
    BY <1>6, <1>11, <1>12 DEF Versions
<1>15. GrowsTo(rows, rows')
    BY <1>1, <1>7, <1>10, <1>12, <1>13, <1>14 DEF GrowsTo, Versions, CandidateStates
<1>16. OneActive'
    <2>1. \A v \in 1..Len(rows') : rows'[v].state = "active" => v = t
        BY <1>1, <1>6, <1>7, <1>9, <1>12, <1>13 DEF OneActive, Versions
    <2> QED
        BY <2>1 DEF OneActive, Versions
<1>17. EvidenceCarriedForward'
    <2>1. \A v \in 1..Len(rows') :
            rows'[v].state = "archived" => v <= Len(rows) /\ rows'[v] = rows[v]
        BY <1>1, <1>9, <1>10, <1>12, <1>13, <1>14 DEF Versions
    <2> QED
        BY <1>1, <1>12, <1>15, <2>1, EvidenceKept
<1> QED
    BY <1>1, <1>4, <1>12, <1>15, <1>16, <1>17, CommitStep

(***************************************************************************)
(* Issuing events.                                                         *)
(***************************************************************************)
\* A new event changes nothing the invariant says of the others.
LEMMA IssueStep ==
    ASSUME IInv, Len(sent) < MaxEvents, NEW ev \in Event,
           sent' = Append(sent, ev), UNCHANGED <<log, rows, audit, tx>>
    PROVE  IInv'
<1>1. /\ sent' \in Seq(Event) /\ Len(sent') = Len(sent) + 1 /\ Len(sent) \in Nat
      /\ Len(sent') <= MaxEvents
    BY StoreAssumption DEF IInv, TypeInv
<1>2. Issued \subseteq Issued'
    BY <1>1 DEF Issued
<1>3. TypeInv'
    BY <1>1, <1>2 DEF IInv, TypeInv, EventIds
<1>4. DecidedOK' /\ OneActive' /\ EvidenceCarriedForward'
    BY DEF IInv, DecidedOK, OneActive, EvidenceCarriedForward, Versions
<1> QED
    BY <1>3, <1>4 DEF IInv

\* Issuing an answer.
LEMMA SubmitAnswerStep ==
    ASSUME IInv, NEW k \in AnswerKinds, SubmitAnswer(k)
    PROVE  IInv'
<1> DEFINE ev ==
        [kind |-> "answer", correct |-> k.correct, session |-> k.session,
         conf |-> k.conf, weight |-> k.weight, temporary |-> k.temporary,
         careless |-> k.careless, target |-> 0, proposes |-> Low]
<1>1. k \in [correct : BOOLEAN, session : Nat, conf : 0..100, weight : Nat \ {0},
              temporary : BOOLEAN, careless : BOOLEAN]
    BY StoreAssumption
<1>2. Low \in Value
    BY DEF Low, Value
<1>3. ev \in Event
    BY <1>1, <1>2 DEF Event
<1>4. /\ Len(sent) < MaxEvents /\ sent' = Append(sent, ev)
      /\ UNCHANGED <<log, rows, audit, tx>>
    BY DEF SubmitAnswer
<1> QED
    BY <1>3, <1>4, IssueStep

\* Issuing a correction of a row of the chain.
LEMMA SubmitCorrectionStep ==
    ASSUME IInv, NEW k \in CorrectionKinds, NEW t \in Versions,
           NEW r \in Replacements, SubmitCorrection(k, t, r)
    PROVE  IInv'
<1> DEFINE val == IF k.replaces THEN r ELSE rows[t].val
           ev ==
        [kind |-> "correction", correct |-> FALSE, session |-> 0,
         conf |-> k.conf, weight |-> 1, temporary |-> FALSE,
         careless |-> FALSE, target |-> t, proposes |-> val]
<1>1. k \in [conf : 0..100, replaces : BOOLEAN] /\ r \in Value
    BY StoreAssumption DEF Value
<1>2. rows[t] \in Row /\ t \in Nat
    BY DEF IInv, TypeInv, Versions
<1>3. val \in Value
    BY <1>1, <1>2 DEF Row
<1>4. ev \in Event
    <2> HIDE DEF val
    <2> QED
        BY <1>1, <1>2, <1>3 DEF Event
<1>5. /\ Len(sent) < MaxEvents /\ sent' = Append(sent, ev)
      /\ UNCHANGED <<log, rows, audit, tx>>
    BY DEF SubmitCorrection
<1> QED
    BY <1>4, <1>5, IssueStep

(***************************************************************************)
(* The theorems.                                                           *)
(***************************************************************************)
\* Every step of a transaction preserves the invariant for its writer.
LEMMA WriterStep ==
    ASSUME IInv, NEW w \in Writers, Step(w)
    PROVE  Preserves(w)
<1>1. CASE \E e \in Issued : Begin(w, e)
    BY <1>1, BeginStep
<1>2. CASE ReplayApplied(w) \/ Abort(w)
    BY <1>2, EndStep DEF ReplayApplied, Abort
<1>3. CASE DecideFirst(w) \/ ReadVersion(w)
    BY <1>3, DecideFirstStep, ReadVersionStep
<1>4. CASE Add(w)
    BY <1>4, AddStep
<1>5. CASE Replace(w)
    BY <1>5, ReplaceStep
<1>6. CASE Invalidate(w)
    BY <1>6, InvalidateStep
<1>7. CASE Contest(w)
    BY <1>7, ContestStep
<1>8. CASE NoticeStale(w)
    BY <1>8, NoticeStaleStep
<1>9. CASE Recompute(w) \/ GiveUp(w)
    BY <1>9, RecomputeStep, GiveUpStep
<1> QED
    BY <1>1, <1>2, <1>3, <1>4, <1>5, <1>6, <1>7, <1>8, <1>9 DEF Step

\* The invariant is inductive.
LEMMA NextInv == IInv /\ [Next]_vars => IInv'
<1> SUFFICES ASSUME IInv, [Next]_vars
             PROVE  IInv'
    OBVIOUS
<1>1. CASE \E k \in AnswerKinds : SubmitAnswer(k)
    BY <1>1, SubmitAnswerStep
<1>2. CASE \E k \in CorrectionKinds, t \in Versions, r \in Replacements :
                SubmitCorrection(k, t, r)
    BY <1>2, SubmitCorrectionStep
<1>3. CASE \E w \in Writers : Step(w)
    BY <1>3, WriterStep, PreservesAll
<1>4. CASE UNCHANGED vars
    BY <1>4 DEF vars, IInv, TypeInv, DecidedOK, OneActive,
                EvidenceCarriedForward, Versions, Issued
<1> QED
    BY <1>1, <1>2, <1>3, <1>4 DEF Next

\* The inductive invariant holds in every reachable state.
LEMMA InvHolds == Spec => []IInv
BY InitInv, NextInv, PTL DEF Spec

\* The full types of the variables give those the runs check.
LEMMA InvTypes == IInv => TypeOK
<1> SUFFICES ASSUME IInv
             PROVE  TypeOK
    OBVIOUS
<1>1. \A w \in Writers : tx[w].step \in
        {"idle", "recorded", "decided", "versioned", "stale"}
    BY DEF IInv, TypeInv, Tx
<1> QED
    BY <1>1 DEF IInv, TypeInv, TypeOK

\* What a transaction decided on tells it whether its rows have changed.
LEMMA InvVersions == IInv => VersionTellsRow
<1> SUFFICES ASSUME IInv, NEW w \in Writers,
                    tx[w].step \in {"decided", "versioned", "stale"},
                    NEW t \in DOMAIN tx[w].in.cand
             PROVE  /\ t \in Versions
                    /\ tx[w].in.cand[t].rv <= rows[t].rv
                    /\ tx[w].in.cand[t].rv = rows[t].rv => tx[w].in.cand[t] = rows[t]
    BY DEF VersionTellsRow
<1>1. SnapshotsOf(tx[w].in, rows)
    BY DEF IInv, DecidedOK, DecidedAt
<1> QED
    BY <1>1 DEF SnapshotsOf, Versions

\* Every step only makes the chain grow.
LEMMA NextGrows ==
    ASSUME IInv, Next
    PROVE  GrowsTo(rows, rows')
<1>1. CASE \E w \in Writers : Step(w)
    BY <1>1, WriterStep DEF Preserves
<1>2. CASE UNCHANGED rows
    BY <1>2, GrowsToSelf DEF IInv, TypeInv
<1> QED
    BY <1>1, <1>2 DEF Next, SubmitAnswer, SubmitCorrection

\* The stored values of L1, L2, the audit and the open transactions keep their
\* types: in particular no row version and no version ever leaves its check
\* constraint, and no transaction recomputes more often than its bound.
THEOREM TypeCorrect == Spec => []TypeOK
BY InvTypes, InvHolds, PTL

\* A slot never has two active rows, however many transactions run and
\* whatever the policy decides: the unique index and the row locks suffice.
THEOREM OneActiveHolds == Spec => []OneActive
<1>1. IInv => OneActive
    BY DEF IInv
<1> QED
    BY <1>1, InvHolds, PTL

\* No update is lost: what a replaced row held, its replacement holds.
THEOREM EvidenceHolds == Spec => []EvidenceCarriedForward
<1>1. IInv => EvidenceCarriedForward
    BY DEF IInv
<1> QED
    BY <1>1, InvHolds, PTL

\* The row version a transaction compares tells it whether the row it decided
\* on is still as it read it.
THEOREM VersionTellsRowHolds == Spec => []VersionTellsRow
BY InvVersions, InvHolds, PTL

\* L2 is append-only: values and starts of versions are final, evidence only
\* grows, closed versions never change, and every change of an open version
\* raises its row version by one.
THEOREM AppendOnlyHolds == Spec => AppendOnly
<1> DEFINE Grows == /\ Len(rows') >= Len(rows)
                    /\ \A v \in Versions :
                        /\ rows'[v].val = rows[v].val /\ rows'[v].from = rows[v].from
                        /\ rows[v].prov \subseteq rows'[v].prov
                        /\ rows[v].state \notin CandidateStates => rows'[v] = rows[v]
                        /\ rows'[v] # rows[v] => rows'[v].rv = rows[v].rv + 1
<1>1. IInv /\ [Next]_vars => [Grows]_vars
    BY NextGrows DEF GrowsTo, Versions
<1> QED
    BY <1>1, InvHolds, PTL DEF Spec, AppendOnly

(***************************************************************************)
(* The audit and the ledger.                                               *)
(***************************************************************************)
Deciding == {"decided", "versioned", "stale"}

\* A transaction holds the insert of its event until it ends: as long as the
\* event is not in L1 nobody else works on it, and only such an event is decided.
FreshOK ==
    /\ \A w \in Writers : tx[w].step # "idle" => (tx[w].fresh <=> tx[w].in.e \notin log)
    /\ \A w \in Writers : tx[w].step \in Deciding => tx[w].fresh
    /\ \A u, w \in Writers :
        /\ tx[u].step # "idle" /\ tx[u].fresh
        /\ tx[w].step # "idle" /\ tx[w].fresh
        /\ tx[u].in.e = tx[w].in.e
        => u = w

LedgerInv == IInv /\ FreshOK /\ AuditMatchesMemory

\* An outcome by which L2 holds the event.
Mutates(outcome) == outcome.op \notin {"none", "no_op"} /\ outcome.state # "failed"

\* Writer w commits its event, and with it whether L2 holds it.
Settles(w) ==
    /\ tx[w].step # "idle" /\ tx[w].fresh
    /\ tx'[w] = IdleTx
    /\ log' = log \cup {tx[w].in.e}
    /\ \A x \in EventIds \ {tx[w].in.e} : audit'[x] = audit[x]
    /\ audit'[tx[w].in.e].op # "none"
    /\ Counted' = IF Mutates(audit'[tx[w].in.e]) THEN Counted \cup {tx[w].in.e} ELSE Counted

\* Writer w goes on, begins with an event that nobody inserts, or ends.
LeavesLedger(w) ==
    /\ log' = log /\ audit' = audit /\ Counted' = Counted
    /\ \/ tx'[w].step = "idle"
       \/ /\ tx'[w].step = "recorded"
          /\ tx'[w].fresh <=> tx'[w].in.e \notin log
          /\ \A u \in Writers : ~(tx[u].fresh /\ tx[u].in.e = tx'[w].in.e)
       \/ /\ tx[w].step # "idle" /\ (tx[w].step = "recorded" => tx[w].fresh)
          /\ tx'[w].fresh = tx[w].fresh /\ tx'[w].in.e = tx[w].in.e

\* The events and the transaction of a writer at work.
LEMMA AtWork ==
    ASSUME LedgerInv, NEW w \in Writers, tx[w].step # "idle"
    PROVE  /\ tx[w] \in Tx /\ tx[w].in.e \in EventIds /\ tx[w].in.e \in Issued
           /\ tx \in [Writers -> Tx] /\ DOMAIN audit = EventIds
           /\ tx[w].step \in Deciding => tx[w].fresh
           /\ tx[w].fresh <=> audit[tx[w].in.e] = NoAudit
<1>1. /\ tx \in [Writers -> Tx] /\ tx[w].in.e \in Issued /\ DOMAIN audit = EventIds
      /\ Len(sent) \in Nat /\ Len(sent) <= MaxEvents
    BY DEF LedgerInv, IInv, TypeInv
<1>2. tx[w].in.e \in EventIds
    BY <1>1, StoreAssumption DEF Issued, EventIds
<1>3. tx[w].fresh <=> audit[tx[w].in.e] = NoAudit
    BY <1>2 DEF LedgerInv, FreshOK, AuditMatchesMemory
<1>4. tx[w].step \in Deciding => tx[w].fresh
    BY DEF LedgerInv, FreshOK
<1> QED
    BY <1>1, <1>2, <1>3, <1>4

\* A commit of a new event that leaves L2 as it is.
LEMMA SettlesUnchanged ==
    ASSUME LedgerInv, NEW w \in Writers, tx[w].step # "idle", tx[w].fresh,
           NEW input, NEW op, NEW state, CommitOutcome(w, input, op, state),
           op # "none", op = "no_op" \/ state = "failed", UNCHANGED rows
    PROVE  Settles(w)
<1>1. tx \in [Writers -> Tx] /\ tx[w].in.e \in EventIds /\ DOMAIN audit = EventIds
    BY AtWork
<1>2. audit'[tx[w].in.e] = [input |-> input, op |-> op, state |-> state]
    BY <1>1 DEF CommitOutcome
<1>3. Counted' = Counted
    BY DEF Counted, Versions
<1> QED
    BY <1>1, <1>2, <1>3 DEF Settles, Mutates, CommitOutcome, End

\* A commit of a new event that L2 holds from then on.
LEMMA SettlesCounted ==
    ASSUME LedgerInv, NEW w \in Writers, tx[w].step # "idle", tx[w].fresh,
           NEW input, NEW op, NEW state, CommitOutcome(w, input, op, state),
           op \notin {"none", "no_op"}, state # "failed",
           Counted' = Counted \cup {tx[w].in.e}
    PROVE  Settles(w)
<1>1. tx \in [Writers -> Tx] /\ tx[w].in.e \in EventIds /\ DOMAIN audit = EventIds
    BY AtWork
<1>2. audit'[tx[w].in.e] = [input |-> input, op |-> op, state |-> state]
    BY <1>1 DEF CommitOutcome
<1> QED
    BY <1>1, <1>2 DEF Settles, Mutates, CommitOutcome, End

\* A transaction begins: nothing is settled, and of two transactions on one event
\* only the later one may find it fresh once the earlier one is over.
LEMMA BeginLedger ==
    ASSUME LedgerInv, NEW w \in Writers, NEW e \in Issued, Begin(w, e)
    PROVE  LeavesLedger(w)
<1> DEFINE in   == [NoInput EXCEPT !.e = e, !.hist = log \ {e}]
           next == [IdleTx EXCEPT !.step = "recorded", !.fresh = e \notin log, !.in = in]
<1>1. tx \in [Writers -> Tx]
    BY DEF LedgerInv, IInv, TypeInv
<1>2. /\ tx' = [tx EXCEPT ![w] = next] /\ UNCHANGED <<log, rows, audit>>
      /\ \A u \in Writers : ~(tx[u].fresh /\ tx[u].in.e = e)
    BY DEF Begin
<1>3. in.e = e
    BY DEF NoInput
<1>4. next.step = "recorded" /\ next.in = in /\ (next.fresh <=> e \notin log)
    <2> HIDE DEF in
    <2> QED
        BY DEF IdleTx
<1> HIDE DEF in, next
<1>5. tx'[w] = next
    BY <1>1, <1>2
<1>6. Counted' = Counted
    BY <1>2 DEF Counted, Versions
<1> QED
    BY <1>2, <1>3, <1>4, <1>5, <1>6 DEF LeavesLedger

\* A transaction that ends without a trace settles nothing.
LEMMA EndLedger ==
    ASSUME LedgerInv, NEW w \in Writers, End(w), UNCHANGED <<log, rows, audit>>
    PROVE  LeavesLedger(w)
<1>1. tx'[w].step = "idle"
    BY IdleType DEF LedgerInv, IInv, TypeInv, End
<1>2. Counted' = Counted
    BY DEF Counted, Versions
<1> QED
    BY <1>1, <1>2 DEF LeavesLedger

\* A transaction that goes on with its event.
LEMMA GoOnLedger ==
    ASSUME LedgerInv, NEW w \in Writers, tx[w].step # "idle", tx[w].fresh, NEW next,
           tx' = [tx EXCEPT ![w] = next], next.fresh = tx[w].fresh,
           next.in.e = tx[w].in.e, UNCHANGED <<log, rows, audit>>
    PROVE  LeavesLedger(w)
<1>1. tx'[w] = next
    BY DEF LedgerInv, IInv, TypeInv
<1>2. Counted' = Counted
    BY DEF Counted, Versions
<1> QED
    BY <1>1, <1>2 DEF LeavesLedger

\* A first decision settles a NO_OP at once; what it leaves open is fresh.
LEMMA DecideFirstLedger ==
    ASSUME LedgerInv, NEW w \in Writers, DecideFirst(w)
    PROVE  LeavesLedger(w) \/ Settles(w)
<1> DEFINE in == FirstInput(tx[w].in)
           d  == Decide(sent, in)
           next == [tx[w] EXCEPT !.step = "decided", !.in = in, !.first = in, !.d = d]
<1>1. tx[w].step # "idle" /\ tx[w] \in Tx
    BY AtWork DEF DecideFirst
<1>2. in.e = tx[w].in.e
    BY <1>1, AtWork, FirstInputType DEF Tx, LedgerInv, IInv
<1>3. CASE End(w) /\ UNCHANGED <<sent, log, rows, audit>>
    BY <1>3, EndLedger
<1>4. ASSUME DecisionStatus(in) = "created"
      PROVE  tx[w].fresh
    BY <1>1, <1>2, <1>4, AtWork DEF DecisionStatus
<1>5. CASE /\ DecisionStatus(in) = "created"
           /\ CommitOutcome(w, in, "no_op", NoOpState(in)) /\ UNCHANGED rows
    BY <1>1, <1>4, <1>5, SettlesUnchanged
<1>6. CASE /\ DecisionStatus(in) = "created"
           /\ tx' = [tx EXCEPT ![w] = next] /\ UNCHANGED <<sent, log, rows, audit>>
    <2> HIDE DEF in, d
    <2>1. next.fresh = tx[w].fresh /\ next.in = in
        BY <1>1 DEF Tx
    <2> HIDE DEF next
    <2> QED
        BY <1>1, <1>2, <1>4, <1>6, <2>1, GoOnLedger
<1> QED
    BY <1>3, <1>5, <1>6 DEF DecideFirst

\* Reading a version and noticing a stale row settle nothing.
LEMMA ReadVersionLedger ==
    ASSUME LedgerInv, NEW w \in Writers, ReadVersion(w) \/ NoticeStale(w)
    PROVE  LeavesLedger(w)
<1>1. tx[w].step \in Deciding
    BY DEF ReadVersion, NoticeStale, Deciding
<1>2. tx[w] \in Tx /\ tx[w].fresh /\ tx[w].step # "idle"
    BY <1>1, AtWork DEF Deciding
<1>3. CASE ReadVersion(w)
    <2> DEFINE ver  == Len(rows) + 1
               next == [tx[w] EXCEPT !.step = "versioned", !.ver = ver]
    <2> HIDE DEF ver
    <2>1. next.fresh = tx[w].fresh /\ next.in = tx[w].in
        BY <1>2 DEF Tx
    <2>2. tx' = [tx EXCEPT ![w] = next] /\ UNCHANGED <<log, rows, audit>>
        BY <1>3 DEF ReadVersion, ver
    <2> HIDE DEF next
    <2> QED
        BY <1>2, <2>1, <2>2, GoOnLedger
<1>4. CASE NoticeStale(w)
    <2> DEFINE next == [tx[w] EXCEPT !.step = "stale"]
    <2>1. next.fresh = tx[w].fresh /\ next.in = tx[w].in
        BY <1>2 DEF Tx
    <2>2. tx' = [tx EXCEPT ![w] = next] /\ UNCHANGED <<log, rows, audit>>
        BY <1>4 DEF NoticeStale
    <2> HIDE DEF next
    <2> QED
        BY <1>2, <2>1, <2>2, GoOnLedger
<1> QED
    BY <1>3, <1>4

\* A recomputation goes on, or settles an event that L2 will not hold: the NO_OP
\* and the decision that is given up.
LEMMA RecomputeLedger ==
    ASSUME LedgerInv, NEW w \in Writers, Recompute(w) \/ GiveUp(w)
    PROVE  LeavesLedger(w) \/ Settles(w)
<1> DEFINE in == Rebased(tx[w].in)
           d  == Decide(sent, in)
           n  == tx[w].n + 1
           next == [tx[w] EXCEPT !.step = "decided", !.in = in, !.d = d, !.n = n]
<1>1. tx[w].step = "stale"
    BY DEF Recompute, GiveUp
<1>2. tx[w] \in Tx /\ tx[w].fresh
    BY <1>1, AtWork DEF Deciding
<1>3. in.e = tx[w].in.e
    BY <1>2, RebasedType DEF Tx, LedgerInv, IInv
<1>4. CASE CommitOutcome(w, tx[w].first, "no_op", NoOpState(in)) /\ UNCHANGED rows
    BY <1>1, <1>2, <1>4, SettlesUnchanged
<1>5. CASE tx' = [tx EXCEPT ![w] = next] /\ UNCHANGED <<sent, log, rows, audit>>
    <2> HIDE DEF in, d, n
    <2>1. next.fresh = tx[w].fresh /\ next.in = in
        BY <1>2 DEF Tx
    <2> HIDE DEF next
    <2> QED
        BY <1>1, <1>2, <1>3, <1>5, <2>1, GoOnLedger
<1>6. CASE GiveUp(w)
    <2>1. CommitOutcome(w, tx[w].first, tx[w].d.op, "failed") /\ UNCHANGED rows
        BY <1>6 DEF GiveUp
    <2>2. tx[w].d.op # "none"
        BY <1>2 DEF Tx, Dec, Operations
    <2> QED
        BY <1>1, <1>2, <2>1, <2>2, SettlesUnchanged
<1> QED
    BY <1>4, <1>5, <1>6 DEF Recompute

\* When every row of the new chain holds old evidence or the event, and one holds
\* the event, L2 as a whole has gained exactly the event.
LEMMA CountedGrows ==
    ASSUME Len(rows) \in Nat, Len(rows') \in Nat, GrowsTo(rows, rows'), NEW e,
           \A v \in 1..Len(rows') : rows'[v].prov \subseteq Counted \cup {e},
           \E v \in 1..Len(rows') : e \in rows'[v].prov
    PROVE  Counted' = Counted \cup {e}
<1>1. ASSUME NEW v \in Versions
      PROVE  v \in 1..Len(rows') /\ rows[v].prov \subseteq rows'[v].prov
    BY DEF GrowsTo, Versions
<1>2. \A v \in Versions : rows[v].prov \subseteq Counted'
    BY <1>1 DEF Counted, Versions
<1>3. Counted \subseteq Counted'
    BY <1>2 DEF Counted
<1>4. Counted' \subseteq Counted \cup {e} /\ e \in Counted'
    BY DEF Counted, Versions
<1> QED
    BY <1>3, <1>4

\* What a transaction that changes rows knows of the chain and its snapshots.
LEMMA AtCommit ==
    ASSUME LedgerInv, NEW w \in Writers, tx[w].step \in {"decided", "versioned"},
           Preserves(w)
    PROVE  /\ tx[w].fresh /\ tx[w].step # "idle" /\ tx[w].in \in Input
           /\ tx[w].in.e \in EventIds /\ tx[w].in.e \in Issued
           /\ rows \in Seq(Row) /\ rows' \in Seq(Row)
           /\ Len(rows) \in Nat /\ Len(rows') \in Nat /\ GrowsTo(rows, rows')
           /\ SnapshotsOf(tx[w].in, rows) /\ DecisionOK(tx[w].in, tx[w].d)
           /\ \A v \in Versions : rows[v].prov \subseteq Counted
<1>1. tx[w].fresh /\ tx[w] \in Tx /\ tx[w].in.e \in EventIds /\ tx[w].in.e \in Issued
    BY AtWork DEF Deciding
<1>2. tx[w].in \in Input
    BY <1>1 DEF Tx
<1>3. rows \in Seq(Row) /\ rows' \in Seq(Row) /\ GrowsTo(rows, rows')
    BY DEF LedgerInv, IInv, TypeInv, Preserves
<1>4. SnapshotsOf(tx[w].in, rows) /\ DecisionOK(tx[w].in, tx[w].d)
    BY DEF LedgerInv, IInv, DecidedOK, DecidedAt
<1>5. \A v \in Versions : rows[v].prov \subseteq Counted
    BY DEF Counted
<1> QED
    BY <1>1, <1>2, <1>3, <1>4, <1>5

\* The first row of a slot holds the event and nothing else.
LEMMA AddLedger ==
    ASSUME LedgerInv, NEW w \in Writers, Add(w), Preserves(w)
    PROVE  Settles(w)
<1> DEFINE e   == tx[w].in.e
           row == NewRow(e, Proposed(sent, e), "active", 0, {e})
<1>1. tx[w].step = "versioned" /\ rows' = Append(rows, row)
      /\ CommitOutcome(w, tx[w].first, "add", "applied")
    BY DEF Add
<1>2. row.prov = {e}
    BY DEF NewRow
<1> HIDE DEF row
<1>3. /\ Len(rows') = Len(rows) + 1 /\ rows'[Len(rows) + 1] = row
      /\ \A v \in Versions : rows'[v] = rows[v]
    BY <1>1, AtCommit DEF Versions
<1>4. \A v \in 1..Len(rows') : v \in Versions \/ v = Len(rows) + 1
    BY <1>1, <1>3, AtCommit DEF Versions
<1>5. Counted' = Counted \cup {e}
    <2> HIDE DEF e
    <2>1. \A v \in 1..Len(rows') : rows'[v].prov \subseteq Counted \cup {e}
        BY <1>1, <1>2, <1>3, <1>4, AtCommit
    <2>2. Len(rows) + 1 \in 1..Len(rows') /\ e \in rows'[Len(rows) + 1].prov
        BY <1>1, <1>2, <1>3, AtCommit
    <2> QED
        BY <1>1, <2>1, <2>2, AtCommit, CountedGrows
<1> QED
    BY <1>1, <1>5, AtCommit, SettlesCounted

\* What a replacement makes of the chain: the targets, still as they were read, are
\* archived, and one row is added.
ReplacementOf(in, d) ==
    /\ d.op \in Replacing
    /\ d.targets \subseteq Versions /\ d.targets \subseteq DOMAIN in.cand
    /\ Len(rows') = Len(rows) + 1
    /\ rows'[Len(rows) + 1] =
        NewRow(in.e, ReplacementValue(sent, in, d), ReplacementState(in, d),
               ReplacementGroup(in, d), CombinedProvenance(in, d))
    /\ \A v \in Versions \ d.targets : rows'[v] = rows[v]
    /\ \A t \in d.targets :
        /\ in.cand[t] = rows[t] /\ rows[t].state \in CandidateStates
        /\ rows'[t].state = "archived" /\ rows'[t].rv = rows[t].rv + 1
        /\ rows'[t].prov = rows[t].prov /\ rows'[t].val = rows[t].val

\* A replacement replaces what it was decided on.
LEMMA ReplaceRows ==
    ASSUME LedgerInv, NEW w \in Writers, Replace(w), Preserves(w)
    PROVE  /\ tx[w].step = "versioned"
           /\ CommitOutcome(w, tx[w].first, tx[w].d.op, "applied")
           /\ ReplacementOf(tx[w].in, tx[w].d)
<1> DEFINE in     == tx[w].in
           d      == tx[w].d
           ver    == tx[w].ver
           row    == NewRow(in.e, ReplacementValue(sent, in, d),
                            ReplacementState(in, d), ReplacementGroup(in, d),
                            CombinedProvenance(in, d))
           closed == [v \in Versions |->
                        IF v \in d.targets THEN Archived(rows[v], ver) ELSE rows[v]]
<1>1. /\ tx[w].step = "versioned" /\ d.op \in Replacing /\ CannotClose(in, d) = {}
      /\ rows' = Append(closed, row)
      /\ CommitOutcome(w, tx[w].first, d.op, "applied")
    BY DEF Replace
<1>2. ver \in Nat
    BY <1>1, AtWork DEF Tx
<1>3. /\ rows \in Seq(Row) /\ Len(rows) \in Nat
      /\ SnapshotsOf(in, rows) /\ DecisionOK(in, d)
    BY <1>1, AtCommit
<1>4. ASSUME NEW v \in Versions
      PROVE  /\ rows[v] \in Row /\ closed[v] \in Row
             /\ v \in d.targets => closed[v] = Archived(rows[v], ver)
             /\ v \notin d.targets => closed[v] = rows[v]
    <2>1. rows[v] \in Row
        BY <1>3 DEF Versions
    <2> QED
        BY <1>2, <2>1, ArchivedType
<1>5. closed \in Seq(Row) /\ Len(closed) = Len(rows)
    <2>1. closed \in [1..Len(rows) -> Row]
        BY <1>4 DEF Versions
    <2> HIDE DEF closed
    <2> QED
        BY <1>3, <2>1, SeqDef, LenProperties
<1> HIDE DEF row, closed, ver, in, d
<1>6. /\ Len(rows') = Len(rows) + 1 /\ rows'[Len(rows) + 1] = row
      /\ \A v \in Versions : rows'[v] = closed[v]
    BY <1>1, <1>3, <1>5 DEF Versions
<1>7. ASSUME NEW t \in d.targets
      PROVE  /\ t \in DOMAIN in.cand /\ t \in Versions
             /\ in.cand[t] = rows[t] /\ rows[t].state \in CandidateStates
    <2>1. t \in DOMAIN in.cand /\ t \in Versions /\ Matches(in, t)
        BY <1>1, <1>3 DEF SnapshotsOf, DecisionOK, CannotClose, Versions
    <2> QED
        BY <2>1, <1>3 DEF SnapshotsOf, Matches
<1>8. ASSUME NEW t \in d.targets
      PROVE  /\ rows'[t].state = "archived" /\ rows'[t].rv = rows[t].rv + 1
             /\ rows'[t].prov = rows[t].prov /\ rows'[t].val = rows[t].val
    <2>1. t \in Versions /\ rows[t] \in Row /\ rows'[t] = Archived(rows[t], ver)
        BY <1>4, <1>6, <1>7
    <2> QED
        BY <1>2, <2>1, ArchivedType
<1>9. \A v \in Versions \ d.targets : rows'[v] = rows[v]
    BY <1>4, <1>6
<1>10. d.targets \subseteq Versions /\ d.targets \subseteq DOMAIN in.cand
    BY <1>7
<1>11. ReplacementOf(in, d)
    BY <1>1, <1>6, <1>7, <1>8, <1>9, <1>10 DEF ReplacementOf, row
<1> QED
    BY <1>1, <1>11 DEF in, d

\* A replacement holds what the rows it replaces held, and the event.
LEMMA ReplaceLedger ==
    ASSUME LedgerInv, NEW w \in Writers, Replace(w), Preserves(w)
    PROVE  Settles(w)
<1> DEFINE in  == tx[w].in
           d   == tx[w].d
           n   == Len(rows) + 1
           row == NewRow(in.e, ReplacementValue(sent, in, d), ReplacementState(in, d),
                         ReplacementGroup(in, d), CombinedProvenance(in, d))
<1>1. /\ tx[w].step = "versioned" /\ d.op \in Replacing
      /\ CommitOutcome(w, tx[w].first, d.op, "applied")
      /\ d.targets \subseteq Versions
      /\ Len(rows') = n /\ rows'[n] = row
      /\ \A v \in Versions \ d.targets : rows'[v] = rows[v]
      /\ \A t \in d.targets : in.cand[t] = rows[t] /\ rows'[t].prov = rows[t].prov
    BY ReplaceRows DEF ReplacementOf
<1>2. /\ Len(rows) \in Nat /\ \A v \in Versions : rows[v].prov \subseteq Counted
    BY <1>1, AtCommit
<1>3. row.prov = CombinedProvenance(in, d)
    BY DEF NewRow
<1> HIDE DEF row, in, d
<1>4. row.prov \subseteq Counted \cup {in.e} /\ in.e \in row.prov
    <2>1. \A t \in d.targets : in.cand[t].prov \subseteq Counted
        BY <1>1, <1>2
    <2> QED
        BY <1>3, <2>1 DEF CombinedProvenance
<1>5. \A v \in 1..Len(rows') : v \in Versions \/ v = n
    BY <1>1, <1>2 DEF Versions
<1>6. \A v \in 1..Len(rows') : rows'[v].prov \subseteq Counted \cup {in.e}
    <2>1. \A v \in Versions : rows'[v].prov = rows[v].prov
        BY <1>1
    <2> QED
        BY <1>1, <1>2, <1>4, <1>5, <2>1
<1>7. n \in 1..Len(rows') /\ in.e \in rows'[n].prov
    BY <1>1, <1>2, <1>4
<1>8. Counted' = Counted \cup {in.e}
    BY <1>1, <1>6, <1>7, AtCommit, CountedGrows
<1>9. d.op \notin {"none", "no_op"}
    BY <1>1 DEF Replacing
<1> QED
    BY <1>1, <1>8, <1>9, AtCommit, SettlesCounted DEF in, d

\* The invalidated row holds the event as provenance: there is one such row.
LEMMA InvalidateLedger ==
    ASSUME LedgerInv, NEW w \in Writers, Invalidate(w), Preserves(w)
    PROVE  Settles(w)
<1> DEFINE e == tx[w].in.e
           d == tx[w].d
<1>1. /\ tx[w].step = "decided" /\ d.op = "invalidate"
      /\ rows' = [v \in Versions |->
                    IF v \in d.targets THEN Invalidated(rows[v], e) ELSE rows[v]]
      /\ CommitOutcome(w, tx[w].first, "invalidate", "applied")
    BY DEF Invalidate
<1>2. PICK t \in d.targets : d.targets = {t}
    BY <1>1, AtCommit DEF DecisionOK
<1>3. t \in Versions
    BY <1>1, AtCommit DEF DecisionOK, SnapshotsOf, Versions
<1>4. ASSUME NEW v \in Versions
      PROVE  /\ v \in d.targets => rows'[v].prov = rows[v].prov \cup {e}
             /\ v \notin d.targets => rows'[v].prov = rows[v].prov
    <2>1. rows[v] \in Row /\ e \in EventIds
        BY <1>1, AtCommit DEF Versions
    <2> QED
        BY <1>1, <2>1, InvalidatedType
<1>5. DOMAIN rows' = 1..Len(rows')
    BY <1>1, AtCommit
<1>6. 1..Len(rows') = Versions
    BY <1>1, <1>5
<1> HIDE DEF e, d
<1>7. \A v \in 1..Len(rows') : rows'[v].prov \subseteq Counted \cup {e}
    BY <1>1, <1>4, <1>6, AtCommit
<1>8. t \in 1..Len(rows') /\ e \in rows'[t].prov
    BY <1>3, <1>4, <1>6
<1>9. Counted' = Counted \cup {e}
    BY <1>1, <1>7, <1>8, AtCommit, CountedGrows
<1> QED
    BY <1>1, <1>9, AtCommit, SettlesCounted DEF e

\* The group of a dispute: that of the disputed row, or the event's own.
DisputeGroup(in, t) == IF in.cand[t].group # 0 THEN in.cand[t].group ELSE in.e

\* What a dispute makes of the chain: row t, active as it was read, stays active in
\* the dispute, and its branch is added.
DisputeOf(in, t) ==
    /\ t \in Versions /\ in.cand[t] = rows[t] /\ rows[t].state = "active"
    /\ DisputeGroup(in, t) \in 0..MaxEvents
    /\ Len(rows') = Len(rows) + 1
    /\ rows'[Len(rows) + 1] =
        NewRow(in.e, Proposed(sent, in.e), "contested", DisputeGroup(in, t), {in.e})
    /\ \A v \in Versions \ {t} : rows'[v] = rows[v]
    /\ rows'[t].state = "active" /\ rows'[t].rv = rows[t].rv + 1
    /\ rows'[t].prov = rows[t].prov \cup {in.e}
    /\ rows'[t].val = rows[t].val /\ rows'[t].group = DisputeGroup(in, t)

\* Of a dispute there is one target, and it is still as it was read.
LEMMA ContestRows ==
    ASSUME LedgerInv, NEW w \in Writers, Contest(w), Preserves(w)
    PROVE  /\ tx[w].step = "decided" /\ tx[w].d.op = "contested"
           /\ CommitOutcome(w, tx[w].first, "contested", "contested")
           /\ \E t \in DOMAIN tx[w].in.cand : DisputeOf(tx[w].in, t)
<1> DEFINE in     == tx[w].in
           t      == TheOne(tx[w].d.targets)
           branch == NewRow(in.e, Proposed(sent, in.e), "contested", DisputeGroup(in, t), {in.e})
           marked == [rows EXCEPT ![t] = Disputed(rows[t], DisputeGroup(in, t), in.e)]
<1>1. /\ tx[w].step = "decided" /\ tx[w].d.op = "contested" /\ Matches(in, t)
      /\ rows' = Append(marked, branch)
      /\ CommitOutcome(w, tx[w].first, "contested", "contested")
    BY DEF Contest, DisputeGroup
<1>2. /\ rows \in Seq(Row) /\ Len(rows) \in Nat /\ in.e \in EventIds /\ in \in Input
      /\ SnapshotsOf(in, rows) /\ DecisionOK(in, tx[w].d) /\ rows' \in Seq(Row)
      /\ ShapeOK(in, tx[w].d)
    BY <1>1, AtCommit DEF LedgerInv, IInv, DecidedOK, DecidedAt
<1>3. tx[w].d.targets = {t}
    BY <1>1, <1>2 DEF DecisionOK, TheOne
<1>4. t \in DOMAIN in.cand /\ t \in Versions /\ in.cand[t].state = "active"
    BY <1>1, <1>2, <1>3 DEF DecisionOK, SnapshotsOf, ShapeOK, ActiveIn, Versions
<1>5. in.cand[t] = rows[t] /\ rows[t].state = "active"
    BY <1>1, <1>2, <1>4 DEF Matches, SnapshotsOf
<1>6. DisputeGroup(in, t) \in 0..MaxEvents /\ rows[t] \in Row /\ in.e \in EventIds
    <2>1. in.cand[t] \in Row
        BY <1>2, <1>4, CandidateType
    <2>2. in.cand[t].group \in 0..MaxEvents
        BY <2>1 DEF Row
    <2>3. rows[t] \in Row
        BY <1>2, <1>4 DEF Versions
    <2> QED
        BY <1>2, <2>2, <2>3, StoreAssumption DEF EventIds, DisputeGroup
<1> HIDE DEF branch, in, t
<1>7. /\ Disputed(rows[t], DisputeGroup(in, t), in.e) \in Row
      /\ Disputed(rows[t], DisputeGroup(in, t), in.e).state = "active"
      /\ Disputed(rows[t], DisputeGroup(in, t), in.e).rv = rows[t].rv + 1
      /\ Disputed(rows[t], DisputeGroup(in, t), in.e).prov = rows[t].prov \cup {in.e}
      /\ Disputed(rows[t], DisputeGroup(in, t), in.e).val = rows[t].val
      /\ Disputed(rows[t], DisputeGroup(in, t), in.e).group = DisputeGroup(in, t)
    <2> HIDE DEF marked
    <2> QED
        BY <1>6, DisputedType
<1>8. /\ marked \in Seq(Row) /\ Len(marked) = Len(rows)
      /\ marked[t] = Disputed(rows[t], DisputeGroup(in, t), in.e)
      /\ \A v \in Versions \ {t} : marked[v] = rows[v]
    <2> DEFINE disputed == Disputed(rows[t], DisputeGroup(in, t), in.e)
    <2>1. disputed \in Row /\ t \in 1..Len(rows) /\ rows \in Seq(Row)
        BY <1>2, <1>4, <1>7 DEF Versions
    <2> HIDE DEF disputed
    <2>2. /\ [rows EXCEPT ![t] = disputed] \in Seq(Row)
          /\ Len([rows EXCEPT ![t] = disputed]) = Len(rows)
          /\ [rows EXCEPT ![t] = disputed][t] = disputed
          /\ \A v \in 1..Len(rows) \ {t} : [rows EXCEPT ![t] = disputed][v] = rows[v]
        BY <2>1, ExceptSeq
    <2> QED
        BY <2>2 DEF disputed, Versions
<1> HIDE DEF marked
<1>9. /\ Len(rows') = Len(rows) + 1 /\ rows'[Len(rows) + 1] = branch
      /\ \A v \in Versions : rows'[v] = marked[v]
    BY <1>1, <1>2, <1>8 DEF Versions
<1>10. /\ rows'[t].state = "active" /\ rows'[t].rv = rows[t].rv + 1
       /\ rows'[t].prov = rows[t].prov \cup {in.e}
       /\ rows'[t].val = rows[t].val /\ rows'[t].group = DisputeGroup(in, t)
    BY <1>4, <1>7, <1>8, <1>9
<1>11. \A v \in Versions \ {t} : rows'[v] = rows[v]
    BY <1>8, <1>9
<1>12. DisputeOf(in, t)
    BY <1>3, <1>4, <1>5, <1>6, <1>9, <1>10, <1>11 DEF DisputeOf, branch
<1> QED
    BY <1>1, <1>4, <1>12 DEF in

\* A dispute adds the event to the active row and to the branch it opens.
LEMMA ContestLedger ==
    ASSUME LedgerInv, NEW w \in Writers, Contest(w), Preserves(w)
    PROVE  Settles(w)
<1>1. PICK t \in DOMAIN tx[w].in.cand : DisputeOf(tx[w].in, t)
    BY ContestRows
<1>2. tx[w].step = "decided" /\ CommitOutcome(w, tx[w].first, "contested", "contested")
    BY ContestRows
<1> DEFINE in     == tx[w].in
           n      == Len(rows) + 1
           branch == NewRow(in.e, Proposed(sent, in.e), "contested", DisputeGroup(in, t), {in.e})
<1>3. /\ t \in Versions /\ Len(rows') = n /\ rows'[n] = branch
      /\ \A v \in Versions \ {t} : rows'[v] = rows[v]
      /\ rows'[t].prov = rows[t].prov \cup {in.e}
    BY <1>1 DEF DisputeOf
<1>4. /\ Len(rows) \in Nat /\ \A v \in Versions : rows[v].prov \subseteq Counted
    BY <1>2, AtCommit
<1>5. branch.prov = {in.e}
    BY DEF NewRow
<1> HIDE DEF branch
<1>6. \A v \in Versions : rows'[v].prov \subseteq Counted \cup {in.e}
    BY <1>3, <1>4
<1>7. \A v \in 1..Len(rows') : v \in Versions \/ v = n
    BY <1>3, <1>4 DEF Versions
<1>8. \A v \in 1..Len(rows') : rows'[v].prov \subseteq Counted \cup {in.e}
    BY <1>3, <1>5, <1>6, <1>7
<1>9. n \in 1..Len(rows') /\ in.e \in rows'[n].prov
    BY <1>3, <1>4, <1>5
<1>10. Counted' = Counted \cup {in.e}
    BY <1>2, <1>8, <1>9, AtCommit, CountedGrows
<1> QED
    BY <1>2, <1>10, AtCommit, SettlesCounted

\* Whatever a transaction does next, it leaves the ledger alone or settles its
\* own event.
LEMMA LedgerStep ==
    ASSUME LedgerInv, NEW w \in Writers, Step(w)
    PROVE  Preserves(w) /\ (LeavesLedger(w) \/ Settles(w))
<1>1. Preserves(w)
    BY WriterStep DEF LedgerInv
<1>2. CASE \E e \in Issued : Begin(w, e)
    BY <1>1, <1>2, BeginLedger
<1>3. CASE ReplayApplied(w) \/ Abort(w)
    BY <1>1, <1>3, EndLedger DEF ReplayApplied, Abort
<1>4. CASE DecideFirst(w)
    BY <1>1, <1>4, DecideFirstLedger
<1>5. CASE ReadVersion(w) \/ NoticeStale(w)
    BY <1>1, <1>5, ReadVersionLedger
<1>6. CASE Add(w) \/ Replace(w) \/ Invalidate(w) \/ Contest(w)
    BY <1>1, <1>6, AddLedger, ReplaceLedger, InvalidateLedger, ContestLedger
<1>7. CASE Recompute(w) \/ GiveUp(w)
    BY <1>1, <1>7, RecomputeLedger
<1> QED
    BY <1>2, <1>3, <1>4, <1>5, <1>6, <1>7 DEF Step

\* The audit tells the truth after every step of a transaction.
LEMMA AuditStep ==
    ASSUME LedgerInv, NEW w \in Writers, LeavesLedger(w) \/ Settles(w)
    PROVE  AuditMatchesMemory'
<1>1. CASE LeavesLedger(w)
    BY <1>1 DEF LeavesLedger, LedgerInv, AuditMatchesMemory, EventIds, NoAudit, NoInput, NoRows
<1>2. CASE Settles(w)
    <2> DEFINE e == tx[w].in.e
    <2>1. e \in EventIds /\ e \notin log
        BY <1>2, AtWork DEF Settles, LedgerInv, FreshOK
    <2>2. e \notin Counted
        <3>1. audit[e].op = "none"
            BY <1>2, <2>1 DEF LedgerInv, AuditMatchesMemory, NoAudit
        <3> QED
            BY <2>1, <3>1 DEF LedgerInv, AuditMatchesMemory
    <2>3. audit'[e] # NoAudit
        BY <1>2 DEF Settles, NoAudit
    <2> SUFFICES ASSUME NEW x \in EventIds
                 PROVE  /\ x \in log' <=> audit'[x] # NoAudit
                        /\ x \in Counted' <=> Mutates(audit'[x])
        BY DEF AuditMatchesMemory, Mutates, EventIds, NoAudit, NoInput, NoRows
    <2>4. /\ x \in log <=> audit[x] # NoAudit
          /\ x \in Counted <=> Mutates(audit[x])
        BY DEF LedgerInv, AuditMatchesMemory, Mutates
    <2>5. CASE x = e
        BY <1>2, <2>1, <2>2, <2>3, <2>5 DEF Settles
    <2>6. CASE x # e
        BY <1>2, <2>4, <2>6 DEF Settles
    <2> QED
        BY <2>5, <2>6
<1> QED
    BY <1>1, <1>2

\* The inserts in flight stay exclusive after every step of a transaction.
LEMMA FreshStep ==
    ASSUME LedgerInv, NEW w \in Writers, Preserves(w), LeavesLedger(w) \/ Settles(w)
    PROVE  FreshOK'
<1>1. \A u \in Writers \ {w} : tx'[u] = tx[u]
    BY DEF Preserves
<1>2. CASE LeavesLedger(w)
    <2>1. log' = log
        BY <1>2 DEF LeavesLedger
    <2>2. CASE tx'[w].step = "idle"
        BY <1>1, <2>1, <2>2 DEF LedgerInv, FreshOK, Deciding
    <2>3. CASE /\ tx'[w].step = "recorded"
               /\ tx'[w].fresh <=> tx'[w].in.e \notin log
               /\ \A u \in Writers : ~(tx[u].fresh /\ tx[u].in.e = tx'[w].in.e)
        BY <1>1, <2>1, <2>3 DEF LedgerInv, FreshOK, Deciding
    <2>4. CASE /\ tx[w].step # "idle" /\ tx[w].fresh
               /\ tx'[w].fresh = tx[w].fresh /\ tx'[w].in.e = tx[w].in.e
        <3>1. tx'[w].fresh /\ tx'[w].in.e \notin log'
            BY <2>1, <2>4 DEF LedgerInv, FreshOK
        <3>2. ASSUME NEW u \in Writers, tx'[u].step # "idle"
              PROVE  /\ tx'[u].fresh <=> tx'[u].in.e \notin log'
                     /\ tx'[u].step \in Deciding => tx'[u].fresh
            BY <1>1, <2>1, <3>1, <3>2 DEF LedgerInv, FreshOK
        <3>3. ASSUME NEW u \in Writers, NEW x \in Writers,
                     tx'[u].step # "idle", tx'[u].fresh,
                     tx'[x].step # "idle", tx'[x].fresh, tx'[u].in.e = tx'[x].in.e
              PROVE  u = x
            <4>1. /\ tx[u].step # "idle" /\ tx[u].fresh /\ tx[u].in.e = tx'[u].in.e
                  /\ tx[x].step # "idle" /\ tx[x].fresh /\ tx[x].in.e = tx'[x].in.e
                BY <1>1, <2>4, <3>3
            <4> QED
                BY <3>3, <4>1 DEF LedgerInv, FreshOK
        <3> QED
            BY <3>2, <3>3 DEF FreshOK, Deciding
    <2>5. tx[w].step # "idle" /\ (tx[w].step = "recorded" => tx[w].fresh) => tx[w].fresh
        BY AtWork DEF Deciding, Tx
    <2> QED
        BY <1>2, <2>2, <2>3, <2>4, <2>5 DEF LeavesLedger
<1>3. CASE Settles(w)
    <2>1. tx'[w].step = "idle"
        BY <1>3, IdleType DEF Settles
    <2>2. ASSUME NEW u \in Writers \ {w}, tx[u].step # "idle"
          PROVE  tx[u].in.e \in log' <=> tx[u].in.e \in log
        BY <1>3, <2>2 DEF Settles, LedgerInv, FreshOK
    <2> QED
        BY <1>1, <2>1, <2>2 DEF LedgerInv, FreshOK, Deciding
<1> QED
    BY <1>2, <1>3

\* Issuing an event and stuttering leave both layers and every transaction alone.
LEMMA IdleLedger ==
    ASSUME LedgerInv, UNCHANGED <<log, rows, audit, tx>>
    PROVE  FreshOK' /\ AuditMatchesMemory' /\ Counted' = Counted
<1>1. Counted' = Counted
    BY DEF Counted, Versions
<1>2. FreshOK'
    BY DEF LedgerInv, FreshOK, Deciding
<1>3. AuditMatchesMemory'
    BY <1>1 DEF LedgerInv, AuditMatchesMemory, EventIds, NoAudit, NoInput, NoRows
<1> QED
    BY <1>1, <1>2, <1>3

\* The invariant of the ledger is inductive.
LEMMA LedgerNextInv == LedgerInv /\ [Next]_vars => LedgerInv'
<1> SUFFICES ASSUME LedgerInv, [Next]_vars
             PROVE  LedgerInv'
    OBVIOUS
<1>1. IInv'
    BY NextInv DEF LedgerInv
<1>2. CASE \E w \in Writers : Step(w)
    BY <1>1, <1>2, LedgerStep, AuditStep, FreshStep DEF LedgerInv
<1>3. CASE UNCHANGED <<log, rows, audit, tx>>
    BY <1>1, <1>3, IdleLedger DEF LedgerInv
<1> QED
    BY <1>2, <1>3 DEF Next, SubmitAnswer, SubmitCorrection, vars

\* The empty database satisfies it.
LEMMA LedgerInitInv == Init => LedgerInv
<1> SUFFICES ASSUME Init
             PROVE  LedgerInv
    OBVIOUS
<1>1. FreshOK
    BY IdleType DEF Init, FreshOK, Deciding
<1>2. Counted = {}
    <2>1. Versions = {}
        BY DEF Init, Versions
    <2> QED
        BY <2>1 DEF Counted
<1>3. AuditMatchesMemory
    BY <1>2 DEF Init, AuditMatchesMemory, NoAudit
<1> QED
    BY <1>1, <1>3, InitInv DEF LedgerInv

\* It holds in every reachable state.
LEMMA LedgerInvHolds == Spec => []LedgerInv
BY LedgerInitInv, LedgerNextInv, PTL DEF Spec

\* The audit tells the truth about both layers, whatever is retried, recomputed
\* or given up: an event is decided exactly when L1 has it, and L2 holds it
\* exactly when the recorded outcome says so.
THEOREM AuditMatchesMemoryHolds == Spec => []AuditMatchesMemory
<1>1. LedgerInv => AuditMatchesMemory
    BY DEF LedgerInv
<1> QED
    BY <1>1, LedgerInvHolds, PTL

\* Every step maps to one of the ledger or leaves the ledger as it is.
LEMMA LedgerSteps ==
    LedgerInv /\ [Next]_vars => [Ledger!LedgerNext]_(Ledger!LedgerVars)
<1> SUFFICES ASSUME LedgerInv, [Next]_vars
             PROVE  [Ledger!LedgerNext]_(Ledger!LedgerVars)
    OBVIOUS
<1>1. CASE \E w \in Writers : Step(w)
    <2>1. PICK w \in Writers : LeavesLedger(w) \/ Settles(w)
        BY <1>1, LedgerStep
    <2>2. CASE LeavesLedger(w)
        BY <2>2 DEF LeavesLedger, Ledger!LedgerVars
    <2>3. CASE Settles(w)
        <3>1. tx[w].in.e \in EventIds /\ tx[w].in.e \notin log
            BY <2>3, AtWork DEF Settles, LedgerInv, FreshOK
        <3>2. Ledger!Record(tx[w].in.e)
            BY <2>3, <3>1 DEF Settles, Ledger!Record
        <3> QED
            BY <3>1, <3>2 DEF Ledger!LedgerNext
    <2> QED
        BY <2>1, <2>2, <2>3
<1>2. CASE UNCHANGED <<log, rows, audit, tx>>
    BY <1>2, IdleLedger DEF Ledger!LedgerVars
<1> QED
    BY <1>1, <1>2 DEF Next, SubmitAnswer, SubmitCorrection, vars

\* The write path implements the evidence ledger: every step records one event
\* for the first and only time and settles in it whether L2 counts the event, or
\* leaves both layers' evidence as it is.
THEOREM LedgerHolds == Spec => ImplementsLedger
<1>1. Init => Ledger!LedgerInit
    BY DEF Init, Ledger!LedgerInit, Counted, Versions
<1> QED
    BY <1>1, LedgerSteps, LedgerInvHolds, PTL DEF Spec, ImplementsLedger, Ledger!LedgerSpec

(***************************************************************************)
(* Disputes, in a slot into which no correction was written.               *)
(***************************************************************************)
Uncorrected == \A e \in log : IsAnswer(sent, e)

\* A transaction that has decided read a slot of answers, and decided as the policy
\* decides on an answer.
AnswerInFlight(ev, t) ==
    t.step \in Deciding =>
        /\ AnswersWrote(t.in.cand) /\ OnlyOpen(t.in.cand)
        /\ AnswerDecision(ev, t.in, t.d)

\* As long as no correction was written, the rows are those of a slot of answers, and
\* so were those that an answer in flight was decided on.  That the group of the
\* active row tells whether it has a rival is what lets a compare-and-set on the
\* active row alone decide about both.
DisputeInv ==
    /\ LedgerInv
    /\ Uncorrected =>
        /\ AnswersWrote(rows)
        /\ \A w \in Writers :
            IsAnswer(sent, tx[w].in.e) => AnswerInFlight(sent, tx[w])

\* Rows by their state, as versions.
LEMMA RowsByState ==
    ASSUME TypeInv
    PROVE  /\ DOMAIN rows = Versions /\ Len(rows) \in Nat
           /\ \A v : v \in ActiveIn(rows) <=> v \in Versions /\ rows[v].state = "active"
           /\ \A v : v \in ContestedIn(rows) <=> v \in Versions /\ rows[v].state = "contested"
           /\ \A v : v \in ActiveIn(Candidates) <=> v \in ActiveIn(rows)
           /\ \A v : v \in ContestedIn(Candidates) <=> v \in ContestedIn(rows)
           /\ \A v \in DOMAIN Candidates : Candidates[v] = rows[v] /\ v \in Versions
<1>1. DOMAIN rows = Versions /\ Len(rows) \in Nat
    BY DEF TypeInv, Versions
<1>2. \A v : v \in DOMAIN Candidates <=> v \in Versions /\ rows[v].state \in CandidateStates
    BY DEF Candidates
<1>3. \A v \in DOMAIN Candidates : Candidates[v] = rows[v] /\ v \in Versions
    BY <1>2 DEF Candidates
<1> QED
    BY <1>1, <1>2, <1>3 DEF ActiveIn, ContestedIn, CandidateStates

\* The snapshots of a slot of answers are those of a slot of answers.
LEMMA CandidatesWrote ==
    ASSUME TypeInv, AnswersWrote(rows)
    PROVE  AnswersWrote(Candidates) /\ OnlyOpen(Candidates)
<1>1. ActiveIn(Candidates) = ActiveIn(rows) /\ ContestedIn(Candidates) = ContestedIn(rows)
    BY RowsByState
<1>2. ActiveIn(Candidates) \subseteq DOMAIN Candidates
      /\ ContestedIn(Candidates) \subseteq DOMAIN Candidates
    BY DEF ActiveIn, ContestedIn
<1>3. \A v \in DOMAIN Candidates : Candidates[v] = rows[v] /\ v \in DOMAIN rows
    BY RowsByState
<1>4. OnlyOpen(Candidates)
    BY CandidatesOK DEF OnlyOpen, CandidateStates
<1>5. DOMAIN Candidates # {} => DOMAIN rows # {}
    BY <1>3
<1> QED
    BY <1>1, <1>2, <1>3, <1>4, <1>5, ZenonT(30) DEF AnswersWrote

\* An active row without a group has no rival.
LEMMA NoBranch ==
    ASSUME AnswersWrote(rows), NEW a \in ActiveIn(rows), rows[a].group = 0
    PROVE  ContestedIn(rows) = {}
BY DEF AnswersWrote

\* Only an empty slot takes a first row.
LEMMA AddFirst ==
    ASSUME DisputeInv, Uncorrected, NEW w \in Writers, Add(w), Preserves(w)
    PROVE  /\ DOMAIN rows = {} /\ DOMAIN rows' = {1}
           /\ rows'[1] = NewRow(tx[w].in.e, Proposed(sent, tx[w].in.e), "active", 0,
                                {tx[w].in.e})
<1> DEFINE e   == tx[w].in.e
           row == NewRow(e, Proposed(sent, e), "active", 0, {e})
<1>1. tx[w].step = "versioned" /\ rows' = Append(rows, row) /\ RoomFor(row, rows)
    BY DEF Add
<1>2. TypeInv /\ TypeInv'
    BY DEF DisputeInv, LedgerInv, IInv, Preserves
<1>3. row.state = "active"
    BY DEF NewRow
<1> HIDE DEF row, e
<1>4. \A v \in DOMAIN rows : rows[v].state # "active"
    BY <1>1, <1>3 DEF RoomFor
<1>5. DOMAIN rows = {}
    BY <1>2, <1>4, RowsByState DEF DisputeInv, AnswersWrote
<1>6. Len(rows) = 0
    BY <1>2, <1>5, RowsByState DEF Versions
<1>7. DOMAIN rows' = {1} /\ rows'[1] = row
    <2>1. rows \in Seq(Row) /\ rows' \in Seq(Row)
        BY <1>2 DEF TypeInv
    <2>2. Len(rows') = 1 /\ rows'[1] = row
        BY <1>1, <1>6, <2>1
    <2> QED
        BY <2>1, <2>2
<1> QED
    BY <1>5, <1>7 DEF row, e

\* The first row of a slot is alone.
LEMMA AddDispute ==
    ASSUME DisputeInv, Uncorrected, NEW w \in Writers, IsAnswer(sent, tx[w].in.e),
           Add(w), Preserves(w)
    PROVE  AnswersWrote(rows')
<1> DEFINE e   == tx[w].in.e
           row == NewRow(e, Proposed(sent, e), "active", 0, {e})
<1>1. DOMAIN rows' = {1} /\ rows'[1] = row
    BY AddFirst
<1>2. row.state = "active" /\ row.group = 0 /\ row.val \in {High, Low}
    BY AnswerProposes DEF NewRow
<1> HIDE DEF row, e
<1>3. ActiveIn(rows') = {1} /\ ContestedIn(rows') = {}
    BY <1>1, <1>2 DEF ActiveIn, ContestedIn
<1> QED
    BY <1>1, <1>2, <1>3 DEF AnswersWrote

\* What a transaction of a slot of answers knows when it changes rows.
LEMMA AnswerAtCommit ==
    ASSUME DisputeInv, Uncorrected, NEW w \in Writers, IsAnswer(sent, tx[w].in.e),
           tx[w].step \in {"decided", "versioned"}, Preserves(w)
    PROVE  /\ AnswersWrote(tx[w].in.cand) /\ OnlyOpen(tx[w].in.cand)
           /\ AnswerDecision(sent, tx[w].in, tx[w].d) /\ tx[w].in.e # 0
           /\ DOMAIN tx[w].in.cand \subseteq Nat
           /\ DOMAIN rows = Versions /\ Len(rows) \in Nat
           /\ Len(rows) + 1 \notin Versions
           /\ Len(rows') = Len(rows) + 1 =>
                DOMAIN rows' = Versions \cup {Len(rows) + 1}
<1>1. LedgerInv /\ TypeInv
    BY DEF DisputeInv, LedgerInv, IInv
<1>2. /\ tx[w].in.e \in EventIds /\ tx[w].in.e \in Issued /\ tx[w].in \in Input
      /\ rows' \in Seq(Row) /\ SnapshotsOf(tx[w].in, rows)
    BY <1>1, AtCommit
<1>3. tx[w].in.e # 0
    BY <1>2, StoreAssumption DEF EventIds
<1>4. DOMAIN rows = Versions /\ Len(rows) \in Nat
    BY <1>1, RowsByState
<1>5. Len(rows) + 1 \notin Versions
    BY <1>4 DEF Versions
<1>6. Len(rows') = Len(rows) + 1 => DOMAIN rows' = Versions \cup {Len(rows) + 1}
    <2>1. DOMAIN rows' = 1..Len(rows')
        BY <1>2
    <2>2. 1..(Len(rows) + 1) = (1..Len(rows)) \cup {Len(rows) + 1}
        BY <1>4
    <2> QED
        BY <2>1, <2>2 DEF Versions
<1>7. /\ AnswersWrote(tx[w].in.cand) /\ OnlyOpen(tx[w].in.cand)
      /\ AnswerDecision(sent, tx[w].in, tx[w].d)
    BY DEF DisputeInv, AnswerInFlight, Deciding
<1>8. DOMAIN tx[w].in.cand \subseteq Nat
    BY <1>2, CandidateType
<1> QED
    BY <1>3, <1>4, <1>5, <1>6, <1>7, <1>8

\* What was replaced whole was all that was open.
LEMMA AllOpenReplaced ==
    ASSUME TypeInv, AnswersWrote(rows), NEW in, AnswersWrote(in.cand),
           NEW d, ReplacementOf(in, d), d.targets = DOMAIN in.cand, d.targets # {}
    PROVE  d.targets = ActiveIn(rows) \cup ContestedIn(rows)
<1>1. \A t \in d.targets : /\ t \in Versions /\ in.cand[t] = rows[t]
                           /\ rows[t].state \in CandidateStates
    BY DEF ReplacementOf
<1>2. d.targets \subseteq ActiveIn(rows) \cup ContestedIn(rows)
    BY <1>1, RowsByState DEF CandidateStates
<1>3. PICK a : a \in ActiveIn(in.cand)
    BY DEF AnswersWrote
<1>4. a \in d.targets /\ rows[a] = in.cand[a] /\ a \in ActiveIn(rows)
    BY <1>1, <1>3, RowsByState DEF ActiveIn
<1>5. ActiveIn(rows) \subseteq d.targets
    BY <1>4 DEF AnswersWrote, ActiveIn
<1>6. ASSUME NEW b \in ContestedIn(rows)
      PROVE  b \in d.targets
    <2>1. in.cand[a].group # 0
        BY <1>4, <1>6 DEF AnswersWrote
    <2>2. PICK c : c \in ContestedIn(in.cand)
        BY <1>3, <2>1 DEF AnswersWrote
    <2>3. c \in d.targets /\ c \in ContestedIn(rows)
        BY <1>1, <2>2, RowsByState DEF ContestedIn
    <2>4. ContestedIn(rows) = {b}
        BY <1>6 DEF AnswersWrote
    <2> QED
        BY <2>3, <2>4
<1> QED
    BY <1>2, <1>5, <1>6

\* A replacement continues one row or ends what was open.
LEMMA ReplaceDispute ==
    ASSUME DisputeInv, Uncorrected, NEW w \in Writers, IsAnswer(sent, tx[w].in.e),
           Replace(w), Preserves(w)
    PROVE  AnswersWrote(rows')
<1> DEFINE in  == tx[w].in
           d   == tx[w].d
           n   == Len(rows) + 1
           row == NewRow(in.e, ReplacementValue(sent, in, d), ReplacementState(in, d),
                         ReplacementGroup(in, d), CombinedProvenance(in, d))
<1>1. LedgerInv /\ TypeInv /\ AnswersWrote(rows)
    BY DEF DisputeInv, LedgerInv, IInv
<1>2. tx[w].step = "versioned" /\ ReplacementOf(in, d)
    BY <1>1, ReplaceRows
<1>3. /\ AnswersWrote(in.cand) /\ OnlyOpen(in.cand) /\ AnswerDecision(sent, in, d)
      /\ IsAnswer(sent, in.e) /\ DOMAIN in.cand \subseteq Nat
      /\ DOMAIN rows = Versions /\ n \notin Versions
      /\ Len(rows') = n => DOMAIN rows' = Versions \cup {n}
    BY <1>2, AnswerAtCommit
<1>4. /\ d.op \in Replacing /\ d.targets \subseteq Versions /\ DOMAIN rows' = Versions \cup {n}
      /\ rows'[n] = row
      /\ \A v \in Versions \ d.targets : rows'[v] = rows[v]
      /\ \A t \in d.targets :
          /\ in.cand[t] = rows[t] /\ rows[t].state \in CandidateStates
          /\ rows'[t].state = "archived" /\ rows'[t].val = rows[t].val
    BY <1>2, <1>3 DEF ReplacementOf
<1>5. /\ row.val = ReplacementValue(sent, in, d)
      /\ row.state = ReplacementState(in, d)
      /\ row.group = ReplacementGroup(in, d)
    BY DEF NewRow
<1> HIDE DEF row, in, d, n
<1>6. /\ ReplacementValue(sent, in, d) \in {High, Low}
      /\ \/ \E t \in DOMAIN in.cand :
                /\ d.targets = {t}
                /\ ReplacementValue(sent, in, d) = in.cand[t].val
                /\ ReplacementState(in, d) = in.cand[t].state
                /\ ReplacementGroup(in, d) = in.cand[t].group
         \/ /\ d.targets = DOMAIN in.cand /\ d.targets # {}
            /\ ReplacementState(in, d) = "active"
            /\ ReplacementGroup(in, d) = 0
    BY <1>3, <1>4, AnswerReplacement
<1>7. CASE \E t \in DOMAIN in.cand :
                /\ d.targets = {t}
                /\ ReplacementValue(sent, in, d) = in.cand[t].val
                /\ ReplacementState(in, d) = in.cand[t].state
                /\ ReplacementGroup(in, d) = in.cand[t].group
    <2>1. PICK t \in DOMAIN in.cand :
                /\ d.targets = {t} /\ row.val = in.cand[t].val
                /\ row.state = in.cand[t].state /\ row.group = in.cand[t].group
        BY <1>5, <1>7
    <2>2. /\ t \in DOMAIN rows /\ in.cand[t] = rows[t]
          /\ rows[t].state \in {"active", "contested"}
          /\ rows'[t].state = "archived" /\ rows'[t].val = rows[t].val
        BY <1>3, <1>4, <2>1 DEF CandidateStates
    <2>3. \A v \in DOMAIN rows \ {t} : rows'[v] = rows[v]
        BY <1>3, <1>4, <2>1
    <2>4. /\ rows'[n].state = rows[t].state /\ rows'[n].val = rows[t].val
          /\ rows'[n].group = rows[t].group
        BY <1>4, <2>1, <2>2
    <2> QED
        BY <1>1, <1>3, <1>4, <2>2, <2>3, <2>4, Continued
<1>8. CASE /\ d.targets = DOMAIN in.cand /\ d.targets # {}
           /\ ReplacementState(in, d) = "active"
           /\ ReplacementGroup(in, d) = 0
    <2>1. d.targets = ActiveIn(rows) \cup ContestedIn(rows)
        BY <1>1, <1>2, <1>3, <1>8, AllOpenReplaced DEF in, d
    <2>2. /\ rows'[n].state = "active" /\ rows'[n].val \in {High, Low}
          /\ rows'[n].group = 0
        BY <1>4, <1>5, <1>6, <1>8
    <2>3. /\ \A v \in DOMAIN rows \ d.targets : rows'[v] = rows[v]
          /\ \A v \in d.targets : rows'[v].state = "archived" /\ rows'[v].val = rows[v].val
        BY <1>3, <1>4
    <2>4. n \notin DOMAIN rows /\ DOMAIN rows' = DOMAIN rows \cup {n}
        BY <1>3, <1>4
    <2> QED
        BY <1>1, <2>1, <2>2, <2>3, <2>4, Ended
<1> QED
    BY <1>6, <1>7, <1>8

\* A dispute is opened where there is none.
LEMMA ContestDispute ==
    ASSUME DisputeInv, Uncorrected, NEW w \in Writers, IsAnswer(sent, tx[w].in.e),
           Contest(w), Preserves(w)
    PROVE  AnswersWrote(rows')
<1> DEFINE in == tx[w].in
           n  == Len(rows) + 1
<1>1. LedgerInv /\ TypeInv /\ AnswersWrote(rows)
    BY DEF DisputeInv, LedgerInv, IInv
<1>2. tx[w].step = "decided" /\ tx[w].d.op = "contested"
    BY <1>1, ContestRows
<1>3. PICK t \in DOMAIN in.cand : DisputeOf(in, t)
    BY <1>1, ContestRows
<1>4. /\ AnswersWrote(in.cand) /\ AnswerDecision(sent, in, tx[w].d)
      /\ IsAnswer(sent, in.e) /\ in.e # 0
      /\ DOMAIN rows = Versions /\ n \notin Versions
      /\ Len(rows') = n => DOMAIN rows' = Versions \cup {n}
    BY <1>2, AnswerAtCommit
<1> DEFINE branch == NewRow(in.e, Proposed(sent, in.e), "contested", in.e, {in.e})
<1> HIDE DEF in, n
<1>5. t \in ActiveIn(in.cand) /\ in.cand[t] = rows[t] /\ t \in ActiveIn(rows)
    BY <1>1, <1>3, RowsByState DEF DisputeOf, ActiveIn
<1>6. ContestedIn(in.cand) = {} /\ in.cand[t].val # Proposed(sent, in.e)
    BY <1>2, <1>4, <1>5 DEF AnswerDecision
<1>7. in.cand[t].group = 0
    BY <1>4, <1>5, <1>6 DEF AnswersWrote
<1>8. ContestedIn(rows) = {}
    BY <1>1, <1>5, <1>7, NoBranch
<1>9. DisputeGroup(in, t) = in.e
    BY <1>7 DEF DisputeGroup
<1>10. /\ DOMAIN rows' = DOMAIN rows \cup {n} /\ rows'[n] = branch
       /\ \A v \in DOMAIN rows \ {t} : rows'[v] = rows[v]
       /\ rows'[t].state = "active" /\ rows'[t].val = rows[t].val
       /\ rows'[t].group = in.e
    BY <1>3, <1>4, <1>9 DEF DisputeOf, n
<1>11. /\ branch.state = "contested" /\ branch.val = Proposed(sent, in.e)
       /\ branch.group = in.e
    BY DEF NewRow
<1> HIDE DEF branch
<1>12. /\ rows'[n].state = "contested" /\ rows'[n].val \in {High, Low}
       /\ rows'[n].val # rows[t].val /\ rows'[n].group = rows'[t].group
       /\ rows'[t].group # 0
    BY <1>4, <1>5, <1>6, <1>10, <1>11, AnswerProposes
<1> QED
    BY <1>1, <1>4, <1>5, <1>8, <1>10, <1>12, Opened

\* No answer invalidates a row.
LEMMA NoInvalidation ==
    ASSUME DisputeInv, Uncorrected, NEW w \in Writers, IsAnswer(sent, tx[w].in.e)
    PROVE  ~Invalidate(w)
<1> SUFFICES ASSUME Invalidate(w)
             PROVE  FALSE
    OBVIOUS
<1>1. tx[w].step = "decided" /\ tx[w].d.op = "invalidate"
    BY DEF Invalidate
<1>2. AnswerDecision(sent, tx[w].in, tx[w].d)
    BY <1>1 DEF DisputeInv, AnswerInFlight, Deciding
<1> QED
    BY <1>1, <1>2 DEF AnswerDecision

\* A transaction goes on with a decision on what it reads now.
LEMMA DecidesNow ==
    ASSUME DisputeInv, Uncorrected, NEW in, IsAnswer(sent, in.e), in.cand = Candidates,
           Decide(sent, in).op # "raise"
    PROVE  /\ AnswersWrote(in.cand) /\ OnlyOpen(in.cand)
           /\ AnswerDecision(sent, in, Decide(sent, in))
<1>1. TypeInv /\ AnswersWrote(rows)
    BY DEF DisputeInv, LedgerInv, IInv
<1>2. AnswersWrote(in.cand) /\ OnlyOpen(in.cand)
    BY <1>1, CandidatesWrote
<1> QED
    BY <1>1, <1>2, AnswerDecides

\* A writer issues nothing and forgets nothing that was recorded.
LEMMA OnlyRecords ==
    ASSUME LedgerInv, NEW w \in Writers, Step(w)
    PROVE  /\ sent' = sent /\ log \subseteq log'
           /\ Uncorrected' => Uncorrected
<1>1. sent' = sent /\ log \subseteq log'
    BY DEF Step, Begin, ReplayApplied, DecideFirst, ReadVersion, Add, Replace, Invalidate,
           Contest, NoticeStale, Recompute, GiveUp, Abort, CommitOutcome
<1> QED
    BY <1>1 DEF Uncorrected, IsAnswer

\* An answer in flight stays one of a slot of answers, or becomes it.
LEMMA AnswerGoesOn ==
    ASSUME DisputeInv, Uncorrected, NEW w \in Writers, Step(w), Preserves(w),
           IsAnswer(sent, tx'[w].in.e)
    PROVE  AnswerInFlight(sent, tx'[w])
<1>1. LedgerInv /\ TypeInv /\ tx \in [Writers -> Tx]
    BY DEF DisputeInv, LedgerInv, IInv, TypeInv
<1>2. ASSUME tx'[w].step \notin Deciding
      PROVE  AnswerInFlight(sent, tx'[w])
    BY <1>2 DEF AnswerInFlight
<1>3. CASE End(w)
    <2>1. tx'[w].step = "idle"
        BY <1>1, <1>3, IdleType DEF End
    <2> QED
        BY <1>2, <2>1 DEF Deciding
<1>4. CASE \E e \in Issued : Begin(w, e)
    <2>1. tx'[w].step = "recorded"
        BY <1>1, <1>4, IdleType DEF Begin, Tx
    <2> QED
        BY <1>2, <2>1 DEF Deciding
<1>5. CASE DecideFirst(w) /\ ~End(w)
    <2> DEFINE in == FirstInput(tx[w].in)
               d  == Decide(sent, in)
               next == [tx[w] EXCEPT !.step = "decided", !.in = in, !.first = in, !.d = d]
    <2>1. tx[w] \in Tx /\ tx[w].in \in Input /\ tx[w].in.e \in Issued
        BY <1>1, <1>5, AtWork DEF DecideFirst, Tx
    <2>2. in.cand = Candidates
        BY <1>1, <2>1, FirstInputType
    <2>3. d.op # "raise" /\ tx' = [tx EXCEPT ![w] = next]
        BY <1>5 DEF DecideFirst, CommitOutcome
    <2> HIDE DEF in, d
    <2>4. tx'[w].in = in /\ tx'[w].d = d
        BY <1>1, <2>1, <2>3 DEF Tx
    <2>5. /\ AnswersWrote(in.cand) /\ OnlyOpen(in.cand)
          /\ AnswerDecision(sent, in, d)
        BY <2>2, <2>3, <2>4, DecidesNow DEF d
    <2> QED
        BY <2>4, <2>5 DEF AnswerInFlight
<1>6. CASE Recompute(w) /\ ~End(w)
    <2> DEFINE in == Rebased(tx[w].in)
               d  == Decide(sent, in)
               n  == tx[w].n + 1
               next == [tx[w] EXCEPT !.step = "decided", !.in = in, !.d = d, !.n = n]
    <2>1. tx[w] \in Tx /\ tx[w].in \in Input /\ tx[w].in.e \in Issued
        BY <1>1, <1>6, AtWork DEF Recompute, Tx
    <2>2. in.cand = Candidates
        BY <1>1, <2>1, RebasedType
    <2>3. d.op # "raise" /\ tx' = [tx EXCEPT ![w] = next]
        BY <1>6 DEF Recompute, CommitOutcome
    <2> HIDE DEF in, d, n
    <2>4. tx'[w].in = in /\ tx'[w].d = d
        BY <1>1, <2>1, <2>3 DEF Tx
    <2>5. /\ AnswersWrote(in.cand) /\ OnlyOpen(in.cand)
          /\ AnswerDecision(sent, in, d)
        BY <2>2, <2>3, <2>4, DecidesNow DEF d
    <2> QED
        BY <2>4, <2>5 DEF AnswerInFlight
<1>7. CASE ReadVersion(w) \/ NoticeStale(w)
    <2>1. tx[w].step \in Deciding /\ tx[w] \in Tx
        BY <1>1, <1>7 DEF ReadVersion, NoticeStale, Deciding
    <2>2. tx'[w].in = tx[w].in /\ tx'[w].d = tx[w].d
        BY <1>1, <1>7, <2>1 DEF ReadVersion, NoticeStale, Tx
    <2>3. AnswerInFlight(sent, tx[w])
        BY <2>2 DEF DisputeInv
    <2> QED
        BY <2>1, <2>2, <2>3 DEF AnswerInFlight
<1>8. CASE \/ ReplayApplied(w) \/ Add(w) \/ Replace(w) \/ Invalidate(w) \/ Contest(w)
           \/ GiveUp(w) \/ Abort(w)
    BY <1>3, <1>8
    DEF ReplayApplied, Add, Replace, Invalidate, Contest, GiveUp, Abort, CommitOutcome
<1> QED
    BY <1>3, <1>4, <1>5, <1>6, <1>7, <1>8 DEF Step

\* The event of a writer that changes rows is recorded.
LEMMA ChangeRecorded ==
    ASSUME NEW w \in Writers, Add(w) \/ Replace(w) \/ Invalidate(w) \/ Contest(w)
    PROVE  tx[w].in.e \in log'
BY DEF Add, Replace, Invalidate, Contest, CommitOutcome

\* Nothing else changes rows.
LEMMA ChangesRows ==
    ASSUME NEW w \in Writers, Step(w)
    PROVE  Add(w) \/ Replace(w) \/ Invalidate(w) \/ Contest(w) \/ rows' = rows
BY DEF Step, Begin, ReplayApplied, DecideFirst, ReadVersion, NoticeStale, Recompute, GiveUp,
       Abort

\* The invariant survives a writer's step.
LEMMA DisputeStep ==
    ASSUME DisputeInv, NEW w \in Writers, Step(w)
    PROVE  DisputeInv'
<1>1. LedgerInv /\ LedgerInv' /\ Preserves(w)
    BY LedgerStep, LedgerNextInv DEF DisputeInv, Next
<1>2. sent' = sent /\ log \subseteq log' /\ (Uncorrected' => Uncorrected)
    BY <1>1, OnlyRecords
<1> SUFFICES ASSUME Uncorrected'
             PROVE  /\ AnswersWrote(rows')
                    /\ \A u \in Writers :
                        IsAnswer(sent', tx'[u].in.e) => AnswerInFlight(sent', tx'[u])
    BY <1>1 DEF DisputeInv
<1>3. Uncorrected /\ \A e \in log' : IsAnswer(sent, e)
    BY <1>2 DEF Uncorrected
<1>4. AnswersWrote(rows')
    <2>1. ASSUME Add(w) \/ Replace(w) \/ Invalidate(w) \/ Contest(w)
          PROVE  IsAnswer(sent, tx[w].in.e)
        BY <1>3, <2>1, ChangeRecorded
    <2>2. CASE Add(w)
        BY <1>1, <1>3, <2>1, <2>2, AddDispute
    <2>3. CASE Replace(w)
        BY <1>1, <1>3, <2>1, <2>3, ReplaceDispute
    <2>4. CASE Contest(w)
        BY <1>1, <1>3, <2>1, <2>4, ContestDispute
    <2>5. CASE rows' = rows
        BY <1>3, <2>5 DEF DisputeInv
    <2>6. ~Invalidate(w)
        BY <1>3, <2>1, NoInvalidation
    <2> QED
        BY <2>2, <2>3, <2>4, <2>5, <2>6, ChangesRows
<1>5. ASSUME NEW u \in Writers, IsAnswer(sent', tx'[u].in.e)
      PROVE  AnswerInFlight(sent', tx'[u])
    <2>1. CASE u = w
        BY <1>1, <1>2, <1>3, <1>5, <2>1, AnswerGoesOn
    <2>2. CASE u # w
        BY <1>1, <1>2, <1>3, <1>5, <2>2 DEF DisputeInv, Preserves
    <2> QED
        BY <2>1, <2>2
<1> QED
    BY <1>4, <1>5

\* What a new event leaves as it is.
LEMMA Submitted ==
    ASSUME TypeInv, NEW ev, sent' = Append(sent, ev)
    PROVE  \A e \in Issued : sent'[e] = sent[e]
BY DEF TypeInv, Issued

\* Every new event is appended to those issued before.
LEMMA SubmitAppends ==
    ASSUME \/ \E k \in AnswerKinds : SubmitAnswer(k)
           \/ \E k \in CorrectionKinds, t \in Versions, r \in Replacements :
                SubmitCorrection(k, t, r)
    PROVE  (\E ev : sent' = Append(sent, ev)) /\ UNCHANGED <<log, rows, audit, tx>>
BY DEF SubmitAnswer, SubmitCorrection

\* A new event changes nothing of what was written or decided.
LEMMA SubmitDispute ==
    ASSUME DisputeInv, NEW ev, sent' = Append(sent, ev),
           UNCHANGED <<log, rows, audit, tx>>, LedgerInv'
    PROVE  DisputeInv'
<1>1. TypeInv /\ log \subseteq Issued /\ rows' = rows /\ tx' = tx /\ log' = log
    BY DEF DisputeInv, LedgerInv, IInv, TypeInv
<1>2. \A e \in Issued : sent'[e] = sent[e]
    BY <1>1, Submitted
<1> SUFFICES ASSUME Uncorrected'
             PROVE  /\ AnswersWrote(rows)
                    /\ \A w \in Writers :
                        IsAnswer(sent', tx[w].in.e) => AnswerInFlight(sent', tx[w])
    BY <1>1 DEF DisputeInv
<1>3. Uncorrected
    BY <1>1, <1>2 DEF Uncorrected, IsAnswer
<1>4. ASSUME NEW w \in Writers, IsAnswer(sent', tx[w].in.e), tx[w].step \in Deciding
      PROVE  AnswerInFlight(sent', tx[w])
    <2>1. tx[w].in.e \in Issued
        BY <1>1, <1>4 DEF TypeInv, Deciding
    <2>2. /\ Proposed(sent', tx[w].in.e) = Proposed(sent, tx[w].in.e)
          /\ IsAnswer(sent, tx[w].in.e)
        BY <1>2, <1>4, <2>1 DEF Proposed, IsAnswer
    <2>3. AnswerInFlight(sent, tx[w])
        BY <1>3, <2>2 DEF DisputeInv
    <2> QED
        BY <2>2, <2>3 DEF AnswerInFlight, AnswerDecision
<1>5. ASSUME NEW w \in Writers, IsAnswer(sent', tx[w].in.e)
      PROVE  AnswerInFlight(sent', tx[w])
    BY <1>4, <1>5 DEF AnswerInFlight
<1> QED
    BY <1>3, <1>5 DEF DisputeInv

\* The invariant of disputes is inductive.
LEMMA DisputeNextInv == DisputeInv /\ [Next]_vars => DisputeInv'
<1> SUFFICES ASSUME DisputeInv, [Next]_vars
             PROVE  DisputeInv'
    OBVIOUS
<1>1. LedgerInv'
    BY LedgerNextInv DEF DisputeInv
<1>2. CASE \/ \E k \in AnswerKinds : SubmitAnswer(k)
           \/ \E k \in CorrectionKinds, t \in Versions, r \in Replacements :
                SubmitCorrection(k, t, r)
    BY <1>1, <1>2, SubmitAppends, SubmitDispute
<1>3. CASE \E w \in Writers : Step(w)
    BY <1>3, DisputeStep
<1>4. CASE UNCHANGED vars
    BY <1>1, <1>4 DEF vars, DisputeInv, Uncorrected, IsAnswer
<1> QED
    BY <1>2, <1>3, <1>4 DEF Next

\* The empty slot satisfies it.
LEMMA DisputeInitInv == Init => DisputeInv
<1> SUFFICES ASSUME Init
             PROVE  DisputeInv
    OBVIOUS
<1>1. AnswersWrote(rows)
    BY DEF Init, AnswersWrote, ActiveIn, ContestedIn
<1>2. \A w \in Writers : AnswerInFlight(sent, tx[w])
    BY IdleType DEF Init, AnswerInFlight, Deciding
<1> QED
    BY <1>1, <1>2, LedgerInitInv DEF DisputeInv

\* It holds in every reachable state.
LEMMA DisputeInvHolds == Spec => []DisputeInv
BY DisputeInitInv, DisputeNextInv, PTL DEF Spec

\* A dispute that answers have opened is one the policy can go on with.
LEMMA DisputesSound == DisputeInv /\ Uncorrected => DisputeWellFormed
<1> SUFFICES ASSUME DisputeInv, Uncorrected, NEW b \in ContestedIn(rows)
             PROVE  /\ ContestedIn(rows) = {b}
                    /\ \E a \in Versions :
                        /\ ActiveIn(rows) = {a}
                        /\ rows[a].group = rows[b].group
                        /\ rows[a].val.score # rows[b].val.score
    BY DEF DisputeWellFormed
<1>1. TypeInv /\ AnswersWrote(rows)
    BY DEF DisputeInv, LedgerInv, IInv
<1>2. b \in DOMAIN rows
    BY DEF ContestedIn
<1>3. PICK a : ActiveIn(rows) = {a}
    BY <1>1, <1>2 DEF AnswersWrote
<1>4. a \in Versions /\ a \in DOMAIN rows
    BY <1>1, <1>3, RowsByState
<1>5. /\ ContestedIn(rows) = {b} /\ rows[a].group = rows[b].group
      /\ rows[a].val # rows[b].val
      /\ rows[a].val \in {High, Low} /\ rows[b].val \in {High, Low}
    BY <1>1, <1>2, <1>3, <1>4 DEF AnswersWrote
<1>6. rows[a].val.score # rows[b].val.score
    BY <1>5, AnswerValues
<1> QED
    BY <1>3, <1>4, <1>5, <1>6

\* The evidence of a row is in L1.
LEMMA EvidenceRecorded ==
    ASSUME LedgerInv, NEW v \in Versions
    PROVE  rows[v].prov \subseteq log
<1>1. rows[v] \in Row
    BY DEF LedgerInv, IInv, TypeInv, Versions
<1> SUFFICES ASSUME NEW x \in rows[v].prov
             PROVE  x \in log
    OBVIOUS
<1>2. x \in EventIds /\ x \in Counted
    BY <1>1 DEF Row, Counted
<1>3. audit[x].op # "none"
    BY <1>2 DEF LedgerInv, AuditMatchesMemory
<1> QED
    BY <1>2, <1>3 DEF LedgerInv, AuditMatchesMemory, NoAudit

\* What is put to the policy for the next answer is fit for a decision.
LEMMA NextDecidable == DisputeInv /\ Uncorrected => NextAnswerDecidable
<1> SUFFICES ASSUME DisputeInv, Uncorrected, NEW e \in Issued \ log, IsAnswer(sent, e),
                    \A x \in log : x < e
             PROVE  Decidable(e)
    BY DEF NextAnswerDecidable
<1> DEFINE begun == [NoInput EXCEPT !.e = e, !.hist = log \ {e}]
           in == FirstInput(begun)
<1>1. LedgerInv /\ TypeInv /\ AnswersWrote(rows)
    BY DEF DisputeInv, LedgerInv, IInv
<1>2. begun.e = e /\ begun.hist = log
    BY DEF NoInput
<1>3. /\ in.e = e /\ in.hist = log /\ in.cand = Candidates
      /\ in.rel = Relation(sent, e, Candidates)
    <2>1. DOMAIN begun = {"e", "cand", "hist", "rel"}
        BY DEF NoInput
    <2> HIDE DEF begun
    <2> QED
        BY <1>2, <2>1 DEF FirstInput
<1>4. AnswersWrote(Candidates) /\ OnlyOpen(Candidates)
    BY <1>1, CandidatesWrote
<1>5. \A v \in DOMAIN Candidates : Candidates[v].prov \subseteq log
    BY <1>1, RowsByState, EvidenceRecorded
<1>6. \A x \in log : IsAnswer(sent, x) /\ ~(x > e)
    <2>1. log \subseteq Issued /\ Len(sent) \in Nat
        BY <1>1 DEF TypeInv
    <2>2. \A x \in log : x \in Nat /\ IsAnswer(sent, x)
        BY <2>1 DEF Uncorrected, Issued
    <2>3. e \in Nat
        BY <2>1 DEF Issued
    <2> QED
        BY <2>2, <2>3
<1> HIDE DEF in
<1>7. AnswerInput(sent, in)
    BY <1>3, <1>4, <1>5, <1>6 DEF AnswerInput
<1>8. Decide(sent, in).op # "raise" /\ ShapeOK(in, Decide(sent, in))
    BY <1>7, AnswerDecidable
<1> QED
    BY <1>8 DEF Decidable, in

\* As long as no correction was written into the slot, a dispute has exactly one
\* branch and one active rival, in one group and of different scores, whichever
\* writers raced to open, to continue or to end it.
THEOREM DisputeWellFormedHolds == Spec => [](Uncorrected => DisputeWellFormed)
BY DisputeInvHolds, DisputesSound, PTL

\* In such a slot the next answer in order is always decided: no earlier history
\* leaves the rows in a state on which the policy or the shape check raises.
THEOREM NextAnswerDecidableHolds == Spec => [](Uncorrected => NextAnswerDecidable)
BY DisputeInvHolds, NextDecidable, PTL

\* What L1 holds was issued.
LEMMA RecordedIssued == LedgerInv => log \subseteq Issued
BY DEF LedgerInv, IInv, TypeInv

\* A slot for which no correction is ever issued.
OnlyAnswers == LedgerInv /\ \A e \in Issued : IsAnswer(sent, e)

\* It stays one.
LEMMA OnlyAnswersHolds ==
    ASSUME CorrectionKinds = {}
    PROVE  Spec => []OnlyAnswers
<1>1. Init => OnlyAnswers
    BY LedgerInitInv DEF Init, OnlyAnswers, Issued
<1>2. ASSUME OnlyAnswers, [Next]_vars
      PROVE  OnlyAnswers'
    <2>1. LedgerInv /\ LedgerInv' /\ TypeInv
        BY <1>2, LedgerNextInv DEF OnlyAnswers, LedgerInv, IInv
    <2>2. CASE sent' = sent
        BY <1>2, <2>1, <2>2 DEF OnlyAnswers, Issued, IsAnswer
    <2>3. CASE \E k \in AnswerKinds : SubmitAnswer(k)
        <3>1. PICK ev : sent' = Append(sent, ev) /\ ev.kind = "answer"
            BY <2>3 DEF SubmitAnswer
        <3>2. /\ sent'[Len(sent) + 1] = ev
              /\ \A e \in 1..Len(sent') : e \in Issued \/ e = Len(sent) + 1
            BY <2>1, <3>1 DEF TypeInv, Issued
        <3> QED
            BY <1>2, <2>1, <3>1, <3>2, Submitted DEF OnlyAnswers, IsAnswer, Issued
    <2> QED
        BY <1>2, <2>1, <2>2, <2>3, OnlyRecords DEF Next, vars
<1> QED
    BY <1>1, <1>2, PTL DEF Spec

\* Where no correction is issued, disputes are well formed without a condition.
COROLLARY AnswersDisputeWell ==
    ASSUME CorrectionKinds = {}
    PROVE  Spec => []DisputeWellFormed
<1>1. OnlyAnswers => Uncorrected
    BY RecordedIssued DEF OnlyAnswers, Uncorrected
<1> QED
    BY <1>1, OnlyAnswersHolds, DisputeWellFormedHolds, PTL

\* The same of the decision on the next answer.
COROLLARY AnswersDecidable ==
    ASSUME CorrectionKinds = {}
    PROVE  Spec => []NextAnswerDecidable
<1>1. OnlyAnswers => Uncorrected
    BY RecordedIssued DEF OnlyAnswers, Uncorrected
<1> QED
    BY <1>1, OnlyAnswersHolds, NextAnswerDecidableHolds, PTL

(***************************************************************************)
(* The value left standing, where answers are written one after the other. *)
(***************************************************************************)
SoleWriter == \A u, w \in Writers : u = w

\* What the only transaction read is what is there.
UpToDate(t, recorded, open) ==
    t.step # "idle" =>
        /\ t.step # "stale"
        /\ t.in.hist = recorded \ {t.in.e}
        /\ t.step \in Deciding => t.in.cand = open

AloneInv ==
    /\ DisputeInv
    /\ \A w \in Writers : UpToDate(tx[w], log, Candidates)

\* A sole writer never finds a row changed since it was read.
LEMMA NeverStale ==
    ASSUME AloneInv, NEW w \in Writers
    PROVE  ~NoticeStale(w)
<1> SUFFICES ASSUME NoticeStale(w)
             PROVE  FALSE
    OBVIOUS
<1> DEFINE in == tx[w].in
           d  == tx[w].d
<1>1. tx[w].step \in Deciding /\ IsStale(in, d)
    BY DEF NoticeStale, Deciding
<1>2. in.cand = Candidates /\ DecisionOK(in, d) /\ TypeInv
    BY <1>1 DEF AloneInv, UpToDate, Deciding, DisputeInv, LedgerInv, IInv, DecidedOK, DecidedAt
<1>3. \A t \in d.targets : t \in Versions /\ Matches(in, t)
    <2>1. \A t \in DOMAIN Candidates : Candidates[t] = rows[t] /\ t \in Versions
        BY <1>2, RowsByState
    <2>2. \A t \in DOMAIN Candidates : rows[t].state \in CandidateStates
        BY DEF Candidates
    <2> QED
        BY <1>2, <2>1, <2>2 DEF DecisionOK, Matches
<1>4. PICK S : S = CannotClose(in, d)
    OBVIOUS
<1>5. S \subseteq d.targets /\ S \subseteq Nat
    BY <1>3, <1>4 DEF CannotClose, Versions
<1>6. S # {} /\ ~Matches(in, Min(S))
    BY <1>1, <1>3, <1>4 DEF IsStale
<1>7. Min(S) \in S
    BY <1>5, <1>6, MinIsOne
<1> QED
    BY <1>3, <1>5, <1>6, <1>7

\* It goes on with what it reads now.
LEMMA AloneGoesOn ==
    ASSUME AloneInv, NEW w \in Writers, Step(w)
    PROVE  UpToDate(tx'[w], log', Candidates')
<1>1. LedgerInv /\ TypeInv /\ tx \in [Writers -> Tx] /\ UpToDate(tx[w], log, Candidates)
    BY DEF AloneInv, DisputeInv, LedgerInv, IInv, TypeInv
<1>2. CASE End(w)
    <2>1. tx'[w].step = "idle"
        BY <1>1, <1>2, IdleType DEF End
    <2> QED
        BY <2>1 DEF UpToDate
<1>3. CASE \E e \in Issued : Begin(w, e)
    <2>1. PICK e \in Issued : Begin(w, e)
        BY <1>3
    <2> DEFINE in   == [NoInput EXCEPT !.e = e, !.hist = log \ {e}]
               next == [IdleTx EXCEPT !.step = "recorded", !.fresh = e \notin log, !.in = in]
    <2>2. tx' = [tx EXCEPT ![w] = next] /\ log' = log
        BY <2>1 DEF Begin
    <2>3. in.e = e /\ in.hist = log \ {e}
        BY DEF NoInput
    <2>4. next.step = "recorded" /\ next.in = in
        <3> HIDE DEF in
        <3> QED
            BY DEF IdleTx
    <2> HIDE DEF in, next
    <2>5. tx'[w] = next
        BY <1>1, <2>2
    <2> QED
        BY <2>2, <2>3, <2>4, <2>5 DEF UpToDate, Deciding
<1>4. CASE DecideFirst(w) /\ ~End(w)
    <2> DEFINE in == FirstInput(tx[w].in)
               d  == Decide(sent, in)
               next == [tx[w] EXCEPT !.step = "decided", !.in = in, !.first = in, !.d = d]
    <2>1. tx[w] \in Tx /\ tx[w].in \in Input /\ tx[w].in.e \in Issued /\ tx[w].step # "idle"
        BY <1>1, <1>4, AtWork DEF DecideFirst, Tx
    <2>2. in.cand = Candidates /\ in.e = tx[w].in.e
        BY <1>1, <2>1, FirstInputType
    <2>3. in.hist = tx[w].in.hist
        BY <2>1 DEF FirstInput, Input
    <2>4. tx' = [tx EXCEPT ![w] = next] /\ UNCHANGED <<log, rows>>
        BY <1>4 DEF DecideFirst, CommitOutcome
    <2> HIDE DEF in, d
    <2>5. tx'[w].in = in /\ tx'[w].step = "decided"
        BY <1>1, <2>1, <2>4 DEF Tx
    <2>6. Candidates' = Candidates
        BY <2>4 DEF Candidates, Versions
    <2> QED
        BY <1>1, <2>1, <2>2, <2>3, <2>4, <2>5, <2>6 DEF UpToDate
<1>5. CASE ReadVersion(w)
    <2>1. tx[w].step \in Deciding /\ tx[w].step # "idle" /\ tx[w] \in Tx /\ UNCHANGED <<log, rows>>
        BY <1>1, <1>5 DEF ReadVersion, Deciding
    <2>2. tx'[w].in = tx[w].in /\ tx'[w].step = "versioned"
        BY <1>1, <1>5, <2>1 DEF ReadVersion, Tx
    <2>3. Candidates' = Candidates
        BY <2>1 DEF Candidates, Versions
    <2> QED
        BY <1>1, <2>1, <2>2, <2>3 DEF UpToDate
<1>6. ~(Recompute(w) \/ GiveUp(w) \/ NoticeStale(w))
    BY <1>1, NeverStale DEF UpToDate, Recompute, GiveUp
<1>7. CASE \/ ReplayApplied(w) \/ Add(w) \/ Replace(w) \/ Invalidate(w) \/ Contest(w)
           \/ Abort(w)
    BY <1>2, <1>7
    DEF ReplayApplied, Add, Replace, Invalidate, Contest, Abort, CommitOutcome
<1> QED
    BY <1>2, <1>3, <1>4, <1>5, <1>6, <1>7 DEF Step

\* What the only transaction read stays what is there.
LEMMA AloneNextInv ==
    ASSUME SoleWriter
    PROVE  AloneInv /\ [Next]_vars => AloneInv'
<1> SUFFICES ASSUME AloneInv, [Next]_vars
             PROVE  AloneInv'
    OBVIOUS
<1>1. DisputeInv'
    BY DisputeNextInv DEF AloneInv
<1>2. CASE UNCHANGED <<log, rows, tx>>
    <2>1. Candidates' = Candidates
        BY <1>2 DEF Candidates, Versions
    <2> QED
        BY <1>1, <1>2, <2>1 DEF AloneInv
<1>3. ASSUME NEW w \in Writers, Step(w)
      PROVE  AloneInv'
    BY <1>1, <1>3, AloneGoesOn DEF AloneInv, SoleWriter
<1> QED
    BY <1>2, <1>3, SubmitAppends DEF Next, vars

\* Every recorded event is an answer that its decision was made on.
AllMutating == \A e \in log : Mutating(sent, e)

\* Nothing that stands is overdue, nor will what the answer in flight leaves standing.
Standing(ev, recorded, chain) ==
    /\ DOMAIN chain = {} => recorded = {}
    /\ \A v \in ActiveIn(chain) : ~Overdue(ev, recorded, chain[v].val)

InFlightStands(ev, t) ==
    t.step \in Deciding /\ Mutating(ev, t.in.e) => Stands(ev, t.in, t.d)

StandingInv ==
    /\ AloneInv
    /\ AllMutating =>
        /\ Standing(sent, log, rows)
        /\ \A w \in Writers : InFlightStands(sent, tx[w])

\* Such a log is one of answers, and can be weighed with any answer issued.
LEMMA MutatingWeighed ==
    ASSUME LedgerInv, AllMutating
    PROVE  /\ Uncorrected /\ log \subseteq Issued /\ IsFiniteSet(log)
           /\ \A e \in Issued : Mutating(sent, e) => MutatingHistory(sent, log \cup {e})
<1>1. sent \in Seq(Event) /\ Len(sent) \in Nat /\ log \subseteq Issued
    BY DEF LedgerInv, IInv, TypeInv
<1>2. IsFiniteSet(Issued)
    BY <1>1, FS_Interval DEF Issued
<1>3. IsFiniteSet(log)
    BY <1>1, <1>2, FS_Subset
<1>4. Uncorrected
    BY DEF AllMutating, Uncorrected, Mutating
<1>5. ASSUME NEW e \in Issued
      PROVE  sent[e].correct \in BOOLEAN /\ sent[e].conf \in Nat /\ sent[e].weight \in Nat
    <2>1. sent[e] \in Event
        BY <1>1 DEF Issued
    <2> QED
        BY <2>1 DEF Event
<1>6. ASSUME NEW e \in Issued, Mutating(sent, e)
      PROVE  MutatingHistory(sent, log \cup {e})
    <2>1. IsFiniteSet(log \cup {e})
        BY <1>1, <1>2, <1>6, FS_Subset
    <2>2. \A x \in log \cup {e} : x \in Issued /\ Mutating(sent, x)
        BY <1>1, <1>6 DEF AllMutating
    <2> QED
        BY <1>5, <2>1, <2>2 DEF MutatingHistory
<1> QED
    BY <1>1, <1>3, <1>4, <1>6

\* A first decision on such an answer leaves nothing overdue standing.
LEMMA DecidesStanding ==
    ASSUME StandingInv, AllMutating, MinMargin > 0, NEW w \in Writers,
           tx[w].step = "recorded", tx[w].fresh, Mutating(sent, tx[w].in.e),
           Decide(sent, FirstInput(tx[w].in)).op # "raise"
    PROVE  Stands(sent, FirstInput(tx[w].in), Decide(sent, FirstInput(tx[w].in)))
<1> DEFINE in == FirstInput(tx[w].in)
           e  == tx[w].in.e
<1>1. LedgerInv /\ TypeInv /\ DisputeInv /\ UpToDate(tx[w], log, Candidates)
    BY DEF StandingInv, AloneInv, DisputeInv, LedgerInv, IInv
<1>2. tx[w] \in Tx /\ tx[w].in \in Input /\ e \in Issued /\ e \notin log
    BY <1>1, AtWork DEF Tx, LedgerInv, FreshOK
<1>3. in.cand = Candidates /\ in.e = e
    BY <1>1, <1>2, FirstInputType
<1>4. in.hist = log
    <2>1. in.hist = tx[w].in.hist
        BY <1>2 DEF FirstInput, Input
    <2>2. tx[w].in.hist = log \ {e}
        BY <1>1 DEF UpToDate
    <2> QED
        BY <1>2, <2>1, <2>2
<1>5. AnswersWrote(in.cand) /\ DOMAIN in.cand \subseteq Nat
    <2>1. AnswersWrote(rows)
        BY <1>1, MutatingWeighed DEF DisputeInv
    <2>2. \A v \in DOMAIN Candidates : v \in Versions
        BY <1>1, RowsByState
    <2> QED
        BY <1>1, <1>3, <2>1, <2>2, CandidatesWrote DEF Versions
<1>6. MutatingHistory(sent, in.hist \cup {in.e})
    BY <1>1, <1>2, <1>3, <1>4, MutatingWeighed
<1>7. \A v \in DOMAIN in.cand : in.e \notin in.cand[v].prov
    BY <1>1, <1>2, <1>3, RowsByState, EvidenceRecorded
<1>8. \A a \in ActiveIn(in.cand) : ~Overdue(sent, in.hist, in.cand[a].val)
    <2>1. \A a \in ActiveIn(Candidates) : a \in ActiveIn(rows) /\ Candidates[a] = rows[a]
        BY <1>1, RowsByState DEF ActiveIn
    <2> QED
        BY <1>3, <1>4, <2>1 DEF StandingInv, Standing
<1>9. in.e \notin in.hist /\ Decide(sent, in).op # "raise"
    BY <1>2, <1>3, <1>4
<1> HIDE DEF in
<1>10. Stands(sent, in, Decide(sent, in))
    BY <1>5, <1>6, <1>7, <1>8, <1>9, AnswerStands
<1> QED
    BY <1>10 DEF in

\* What a writer knows when it changes rows: it read what is there, and its event is
\* the one that joins the log.
LEMMA StandingAtCommit ==
    ASSUME StandingInv, AllMutating, NEW w \in Writers, Mutating(sent, tx[w].in.e),
           tx[w].step \in {"decided", "versioned"}, log' = log \cup {tx[w].in.e}
    PROVE  /\ LedgerInv /\ TypeInv /\ DisputeInv /\ Uncorrected
           /\ IsAnswer(sent, tx[w].in.e)
           /\ tx[w].in.cand = Candidates /\ log' = tx[w].in.hist \cup {tx[w].in.e}
           /\ Stands(sent, tx[w].in, tx[w].d)
<1>1. LedgerInv /\ TypeInv /\ DisputeInv /\ UpToDate(tx[w], log, Candidates)
    BY DEF StandingInv, AloneInv, DisputeInv, LedgerInv, IInv
<1>2. Uncorrected
    BY <1>1, MutatingWeighed
<1>3. tx[w].in.cand = Candidates /\ tx[w].in.hist = log \ {tx[w].in.e}
    BY <1>1 DEF UpToDate, Deciding
<1>4. Stands(sent, tx[w].in, tx[w].d)
    BY DEF StandingInv, InFlightStands, Deciding
<1> QED
    BY <1>1, <1>2, <1>3, <1>4 DEF Mutating

\* The first answer of a slot stands.
LEMMA AddStanding ==
    ASSUME StandingInv, AllMutating, NEW w \in Writers, Mutating(sent, tx[w].in.e),
           Add(w), Preserves(w)
    PROVE  Standing(sent, log', rows')
<1> DEFINE e   == tx[w].in.e
           row == NewRow(e, Proposed(sent, e), "active", 0, {e})
<1>1. tx[w].step = "versioned" /\ log' = log \cup {e}
    BY DEF Add, CommitOutcome
<1>2. LedgerInv /\ TypeInv /\ DisputeInv /\ Uncorrected /\ IsAnswer(sent, e)
    BY <1>1, StandingAtCommit
<1>3. DOMAIN rows = {} /\ DOMAIN rows' = {1} /\ rows'[1] = row
    BY <1>2, AddFirst
<1>4. log' = {e}
    BY <1>1, <1>3 DEF StandingInv, Standing
<1>5. row.val = Proposed(sent, e)
    BY DEF NewRow
<1>6. sent[e].correct \in BOOLEAN
    BY <1>1, <1>2, AtWork, MutatingWeighed DEF MutatingHistory
<1>7. ~Overdue(sent, {e}, Proposed(sent, e))
    BY <1>2, <1>6, FirstStands
<1> HIDE DEF row
<1>8. \A v \in ActiveIn(rows') : v = 1
    BY <1>3 DEF ActiveIn
<1> QED
    BY <1>3, <1>4, <1>5, <1>7, <1>8 DEF Standing

\* A replacement leaves standing what its decision does.
LEMMA ReplaceStanding ==
    ASSUME StandingInv, AllMutating, NEW w \in Writers, Mutating(sent, tx[w].in.e),
           Replace(w), Preserves(w)
    PROVE  Standing(sent, log', rows')
<1> DEFINE in  == tx[w].in
           d   == tx[w].d
           n   == Len(rows) + 1
           row == NewRow(in.e, ReplacementValue(sent, in, d), ReplacementState(in, d),
                         ReplacementGroup(in, d), CombinedProvenance(in, d))
<1>1. tx[w].step = "versioned" /\ log' = log \cup {in.e}
    BY DEF Replace, CommitOutcome
<1>2. /\ LedgerInv /\ TypeInv /\ DisputeInv /\ Uncorrected /\ IsAnswer(sent, in.e)
      /\ in.cand = Candidates /\ log' = in.hist \cup {in.e} /\ Stands(sent, in, d)
    BY <1>1, StandingAtCommit
<1>3. /\ AnswersWrote(in.cand) /\ OnlyOpen(in.cand) /\ AnswerDecision(sent, in, d)
      /\ DOMAIN rows = Versions /\ n \notin Versions
      /\ Len(rows') = n => DOMAIN rows' = Versions \cup {n}
    BY <1>1, <1>2, AnswerAtCommit
<1>4. ReplacementOf(in, d)
    BY <1>2, ReplaceRows
<1>5. /\ d.op \in Replacing /\ DOMAIN rows' = Versions \cup {n}
      /\ rows'[n] = row
      /\ \A v \in Versions \ d.targets : rows'[v] = rows[v]
      /\ \A t \in d.targets : rows'[t].state = "archived"
    BY <1>3, <1>4 DEF ReplacementOf
<1>6. row.val = ReplacementValue(sent, in, d) /\ row.state = ReplacementState(in, d)
    BY DEF NewRow
<1>7. /\ ActiveIn(in.cand) = ActiveIn(rows) /\ ActiveIn(in.cand) \subseteq DOMAIN in.cand
      /\ \A v \in DOMAIN in.cand : in.cand[v] = rows[v]
    BY <1>2, RowsByState DEF ActiveIn
<1> HIDE DEF row, in, d, n
<1>8. ASSUME NEW v \in ActiveIn(rows')
      PROVE  \/ v \in ActiveIn(in.cand) \ d.targets /\ rows'[v].val = in.cand[v].val
             \/ v = n /\ rows'[v] = row /\ row.state = "active"
    <2>1. v \in DOMAIN rows' /\ rows'[v].state = "active"
        BY DEF ActiveIn
    <2>2. CASE v = n
        BY <1>5, <2>1, <2>2
    <2>3. CASE v \in Versions
        <3>1. v \notin d.targets /\ rows'[v] = rows[v]
            BY <1>5, <2>1, <2>3
        <3>2. v \in ActiveIn(rows)
            BY <1>3, <2>1, <2>3, <3>1 DEF ActiveIn
        <3> QED
            BY <1>7, <3>1, <3>2
    <2> QED
        BY <1>5, <2>1, <2>2, <2>3
<1>9. CASE d.op = "supersede"
    <2>1. ~Overdue(sent, log', row.val)
        BY <1>2, <1>6, <1>9 DEF Stands
    <2>2. ActiveIn(in.cand) \subseteq d.targets
        BY <1>3, <1>9 DEF AnswerDecision
    <2>3. \A v \in ActiveIn(rows') : rows'[v] = row
        BY <1>8, <2>2
    <2> QED
        BY <1>5, <2>1, <2>3 DEF Standing
<1>10. CASE d.op = "merge"
    <2>1. \A a \in ActiveIn(in.cand) : ~Overdue(sent, log', in.cand[a].val)
        BY <1>2, <1>10 DEF Stands
    <2>2. ASSUME row.state = "active"
          PROVE  \E a \in ActiveIn(in.cand) : row.val = in.cand[a].val
        <3>1. ReplacementState(in, d) = "active"
            BY <1>6, <2>2
        <3>2. \E a \in ActiveIn(in.cand) :
                ReplacementValue(sent, in, d) = in.cand[a].val
            BY <1>3, <1>10, <3>1, MergedActive
        <3> QED
            BY <1>6, <3>2
    <2> QED
        BY <1>5, <1>8, <2>1, <2>2 DEF Standing
<1> QED
    BY <1>5, <1>9, <1>10 DEF Replacing

\* Opening a dispute leaves the active row standing.
LEMMA ContestStanding ==
    ASSUME StandingInv, AllMutating, NEW w \in Writers, Mutating(sent, tx[w].in.e),
           Contest(w), Preserves(w)
    PROVE  Standing(sent, log', rows')
<1> DEFINE in == tx[w].in
           d  == tx[w].d
           n  == Len(rows) + 1
<1>1. tx[w].step = "decided" /\ d.op = "contested" /\ log' = log \cup {in.e}
    BY DEF Contest, CommitOutcome
<1>2. /\ LedgerInv /\ TypeInv /\ DisputeInv /\ Uncorrected /\ IsAnswer(sent, in.e)
      /\ in.cand = Candidates /\ log' = in.hist \cup {in.e} /\ Stands(sent, in, d)
    BY <1>1, StandingAtCommit
<1>3. /\ DOMAIN rows = Versions /\ n \notin Versions
      /\ Len(rows') = n => DOMAIN rows' = Versions \cup {n}
    BY <1>1, <1>2, AnswerAtCommit
<1>4. PICK t \in DOMAIN in.cand : DisputeOf(in, t)
    BY <1>2, ContestRows
<1> DEFINE branch == NewRow(in.e, Proposed(sent, in.e), "contested", DisputeGroup(in, t),
                            {in.e})
<1>5. branch.state = "contested"
    BY DEF NewRow
<1>6. /\ ActiveIn(in.cand) = ActiveIn(rows) /\ ActiveIn(in.cand) \subseteq DOMAIN in.cand
      /\ \A v \in DOMAIN in.cand : in.cand[v] = rows[v]
    BY <1>2, RowsByState DEF ActiveIn
<1> HIDE DEF in, d, n
<1>7. /\ DOMAIN rows' = Versions \cup {n} /\ rows'[n] = branch
      /\ \A v \in Versions \ {t} : rows'[v] = rows[v]
      /\ rows'[t].val = rows[t].val /\ rows[t].state = "active" /\ t \in Versions
    BY <1>3, <1>4 DEF DisputeOf, n
<1> HIDE DEF branch
<1>8. ASSUME NEW v \in ActiveIn(rows')
      PROVE  v \in ActiveIn(in.cand) /\ rows'[v].val = in.cand[v].val
    <2>1. v \in DOMAIN rows' /\ rows'[v].state = "active"
        BY DEF ActiveIn
    <2>2. v \in Versions /\ rows[v].state = "active" /\ rows'[v].val = rows[v].val
        BY <1>5, <1>7, <2>1
    <2> QED
        BY <1>3, <1>6, <2>2 DEF ActiveIn
<1>9. \A a \in ActiveIn(in.cand) : ~Overdue(sent, log', in.cand[a].val)
    BY <1>1, <1>2 DEF Stands, d
<1> QED
    BY <1>7, <1>8, <1>9 DEF Standing

\* The value left standing survives a writer's step.
LEMMA StandingStep ==
    ASSUME SoleWriter, MinMargin > 0, StandingInv, NEW w \in Writers, Step(w)
    PROVE  StandingInv'
<1>1. /\ AloneInv' /\ LedgerInv /\ TypeInv /\ DisputeInv
      /\ UpToDate(tx[w], log, Candidates) /\ tx \in [Writers -> Tx]
    BY AloneNextInv DEF StandingInv, AloneInv, DisputeInv, LedgerInv, IInv, TypeInv, Next
<1>2. sent' = sent /\ log \subseteq log' /\ Preserves(w)
    BY <1>1, OnlyRecords, LedgerStep
<1> SUFFICES ASSUME AllMutating'
             PROVE  Standing(sent, log', rows') /\ InFlightStands(sent, tx'[w])
    BY <1>1, <1>2 DEF StandingInv, SoleWriter
<1>3. AllMutating /\ \A e \in log' : Mutating(sent, e)
    BY <1>2 DEF AllMutating, Mutating, IsAnswer, NonMutating
<1>4. Standing(sent, log, rows) /\ InFlightStands(sent, tx[w])
    BY <1>3 DEF StandingInv
<1>5. ASSUME End(w)
      PROVE  InFlightStands(sent, tx'[w])
    <2>1. tx'[w].step = "idle"
        BY <1>1, <1>5, IdleType DEF End
    <2> QED
        BY <2>1 DEF InFlightStands, Deciding
<1>6. CASE \E e \in Issued : Begin(w, e)
    <2>1. tx'[w].step = "recorded" /\ UNCHANGED <<log, rows>>
        BY <1>1, <1>6, IdleType DEF Begin, Tx
    <2> QED
        BY <1>4, <2>1 DEF InFlightStands, Deciding
<1>7. CASE DecideFirst(w)
    <2> DEFINE in == FirstInput(tx[w].in)
               d  == Decide(sent, in)
               next == [tx[w] EXCEPT !.step = "decided", !.in = in, !.first = in, !.d = d]
    <2>1. tx[w].step = "recorded" /\ d.op # "raise"
        BY <1>7 DEF DecideFirst
    <2>2. tx[w] \in Tx /\ tx[w].in \in Input /\ tx[w].in.e \in Issued
        BY <1>1, <2>1, AtWork DEF Tx
    <2>3. in.e = tx[w].in.e
        BY <1>1, <2>2, FirstInputType
    <2>4. ASSUME DecisionStatus(in) = "created", Mutating(sent, tx[w].in.e)
          PROVE  Stands(sent, in, d)
        <3>1. tx[w].fresh
            BY <1>1, <2>1, <2>3, <2>4, AtWork DEF DecisionStatus
        <3> QED
            BY <1>3, <2>1, <2>4, <3>1, DecidesStanding
    <2> HIDE DEF in, d
    <2>5. CASE End(w) /\ UNCHANGED <<sent, log, rows, audit>>
        BY <1>4, <1>5, <2>5
    <2>6. CASE /\ DecisionStatus(in) = "created" /\ d.op = "no_op"
               /\ CommitOutcome(w, in, "no_op", NoOpState(in))
        <3>1. Mutating(sent, tx[w].in.e)
            BY <1>3, <2>6 DEF CommitOutcome
        <3> QED
            BY <2>4, <2>6, <3>1 DEF Stands
    <2>7. CASE /\ DecisionStatus(in) = "created"
               /\ tx' = [tx EXCEPT ![w] = next] /\ UNCHANGED <<sent, log, rows, audit>>
        <3>1. tx'[w].in = in /\ tx'[w].d = d
            BY <1>1, <2>2, <2>7 DEF Tx
        <3> QED
            BY <1>4, <2>3, <2>4, <2>7, <3>1 DEF InFlightStands
    <2> QED
        BY <1>7, <2>5, <2>6, <2>7 DEF DecideFirst, in, d
<1>8. CASE ReadVersion(w)
    <2>1. tx[w].step \in Deciding /\ tx[w] \in Tx /\ UNCHANGED <<log, rows>>
        BY <1>1, <1>8 DEF ReadVersion, Deciding
    <2>2. tx'[w].in = tx[w].in /\ tx'[w].d = tx[w].d
        BY <1>1, <1>8, <2>1 DEF ReadVersion, Tx
    <2> QED
        BY <1>4, <2>1, <2>2 DEF InFlightStands
<1>9. ~(Recompute(w) \/ GiveUp(w) \/ NoticeStale(w))
    BY <1>1, NeverStale DEF UpToDate, Recompute, GiveUp, StandingInv
<1>10. CASE ReplayApplied(w) \/ Abort(w)
    BY <1>4, <1>5, <1>10 DEF ReplayApplied, Abort
<1>11. ASSUME Add(w) \/ Replace(w) \/ Invalidate(w) \/ Contest(w)
       PROVE  Mutating(sent, tx[w].in.e) /\ End(w)
    BY <1>3, <1>11, ChangeRecorded DEF Add, Replace, Invalidate, Contest, CommitOutcome
<1>12. CASE Add(w)
    BY <1>2, <1>3, <1>5, <1>11, <1>12, AddStanding
<1>13. CASE Replace(w)
    BY <1>2, <1>3, <1>5, <1>11, <1>13, ReplaceStanding
<1>14. CASE Contest(w)
    BY <1>2, <1>3, <1>5, <1>11, <1>14, ContestStanding
<1>15. ~Invalidate(w)
    <2>1. Uncorrected
        BY <1>1, <1>3, MutatingWeighed
    <2> QED
        BY <1>1, <1>11, <2>1, NoInvalidation DEF Mutating
<1> QED
    BY <1>6, <1>7, <1>8, <1>9, <1>10, <1>12, <1>13, <1>14, <1>15 DEF Step

\* A new event weighs nothing before it is recorded.
LEMMA SubmitStanding ==
    ASSUME StandingInv, AloneInv', NEW ev, sent' = Append(sent, ev),
           UNCHANGED <<log, rows, audit, tx>>
    PROVE  StandingInv'
<1>1. /\ LedgerInv /\ TypeInv /\ log' = log /\ rows' = rows /\ tx' = tx
      /\ \A w \in Writers : UpToDate(tx[w], log, Candidates)
    BY DEF StandingInv, AloneInv, DisputeInv, LedgerInv, IInv
<1>2. \A e \in Issued : sent'[e] = sent[e]
    BY <1>1, Submitted
<1>3. \A e \in Issued : Mutating(sent', e) <=> Mutating(sent, e)
    BY <1>2 DEF Mutating, IsAnswer, NonMutating
<1> SUFFICES ASSUME AllMutating'
             PROVE  /\ Standing(sent', log, rows)
                    /\ \A w \in Writers : InFlightStands(sent', tx[w])
    BY <1>1 DEF StandingInv
<1>4. log \subseteq Issued
    BY <1>1, RecordedIssued
<1>5. AllMutating
    BY <1>1, <1>3, <1>4 DEF AllMutating
<1>6. IsFiniteSet(log) /\ \A x \in log : sent[x] = sent'[x]
    BY <1>1, <1>2, <1>4, <1>5, MutatingWeighed
<1>7. Standing(sent, log, rows) /\ \A w \in Writers : InFlightStands(sent, tx[w])
    BY <1>5 DEF StandingInv
<1>8. Standing(sent', log, rows)
    BY <1>6, <1>7, OverdueLocal DEF Standing
<1>9. ASSUME NEW w \in Writers, tx[w].step \in Deciding, Mutating(sent', tx[w].in.e)
      PROVE  Stands(sent', tx[w].in, tx[w].d)
    <2>1. tx[w].in.e \in Issued /\ tx[w].in.hist \subseteq log
        BY <1>1, <1>9 DEF TypeInv, Deciding, UpToDate
    <2>2. Stands(sent, tx[w].in, tx[w].d)
        BY <1>3, <1>7, <1>9, <2>1 DEF InFlightStands
    <2>3. PICK H : H = tx[w].in.hist \cup {tx[w].in.e}
        OBVIOUS
    <2>4. IsFiniteSet(H)
        <3>1. IsFiniteSet(log \cup {tx[w].in.e})
            BY <1>6, FS_AddElement
        <3> QED
            BY <2>1, <2>3, <3>1, FS_Subset
    <2>5. \A x \in H : sent[x] = sent'[x]
        BY <1>2, <1>4, <2>1, <2>3
    <2> QED
        BY <2>2, <2>3, <2>4, <2>5, StandsLocal
<1> QED
    BY <1>8, <1>9 DEF InFlightStands

\* Nothing is overdue in an empty slot.
LEMMA StandingInitInv == Init => StandingInv
<1> SUFFICES ASSUME Init
             PROVE  StandingInv
    OBVIOUS
<1>1. AloneInv
    BY DisputeInitInv, IdleType DEF Init, AloneInv, UpToDate
<1>2. Standing(sent, log, rows)
    BY DEF Init, Standing, ActiveIn
<1>3. \A w \in Writers : InFlightStands(sent, tx[w])
    BY IdleType DEF Init, InFlightStands, Deciding
<1> QED
    BY <1>1, <1>2, <1>3 DEF StandingInv

\* The invariant of what stands is inductive, for a sole writer.
LEMMA StandingNextInv ==
    ASSUME SoleWriter, MinMargin > 0
    PROVE  StandingInv /\ [Next]_vars => StandingInv'
<1> SUFFICES ASSUME StandingInv, [Next]_vars
             PROVE  StandingInv'
    OBVIOUS
<1>1. AloneInv'
    BY AloneNextInv DEF StandingInv
<1>2. CASE \/ \E k \in AnswerKinds : SubmitAnswer(k)
           \/ \E k \in CorrectionKinds, t \in Versions, r \in Replacements :
                SubmitCorrection(k, t, r)
    BY <1>1, <1>2, SubmitAppends, SubmitStanding
<1>3. CASE \E w \in Writers : Step(w)
    BY <1>3, StandingStep
<1>4. CASE UNCHANGED vars
    BY <1>1, <1>4
    DEF vars, StandingInv, AllMutating, Mutating, IsAnswer, NonMutating, Standing,
        InFlightStands
<1> QED
    BY <1>2, <1>3, <1>4 DEF Next

\* When answers are written one after the other and each of them is decided on, no
\* opposite direction that passes the stability gate is left standing against the
\* active row, whatever thresholds, weights and sessions the gate compares.  The
\* margin of the gate keeps both sides from being stable at once.
THEOREM StandingJustifiedHolds ==
    ASSUME SoleWriter, MinMargin > 0
    PROVE  Spec => [](AllMutating => StandingJustified)
<1>1. StandingInv /\ AllMutating => StandingJustified
    <2> SUFFICES ASSUME StandingInv, AllMutating, NEW v \in ActiveIn(rows)
                 PROVE  LET against == {e \in log : Opposes(e, v)}
                        IN  ~IsStableWinner(sent, against, log \ against)
        BY DEF StandingJustified
    <2>1. ~Overdue(sent, log, rows[v].val)
        BY DEF StandingInv, Standing
    <2> QED
        BY <2>1 DEF Overdue, Against, Opposes
<1>2. Spec => []StandingInv
    BY StandingInitInv, StandingNextInv, PTL DEF Spec
<1> QED
    BY <1>1, <1>2, PTL

\* No answer is issued that would stay L1-only by itself.
KindsMutate ==
    \A k \in AnswerKinds : ~k.temporary /\ ~k.careless /\ ~(k.conf < MinConfidence)

OnlyMutating ==
    LedgerInv /\ \A e \in Issued : IsAnswer(sent, e) => Mutating(sent, e)

\* Then every answer is decided on.
LEMMA OnlyMutatingHolds ==
    ASSUME KindsMutate
    PROVE  Spec => []OnlyMutating
<1>1. Init => OnlyMutating
    BY LedgerInitInv DEF Init, OnlyMutating, Issued
<1>2. ASSUME OnlyMutating, NEW ev, sent' = Append(sent, ev), LedgerInv',
             ev.kind = "answer" =>
                ~ev.temporary /\ ~ev.careless /\ ~(ev.conf < MinConfidence)
      PROVE  OnlyMutating'
    <2>1. TypeInv
        BY <1>2 DEF OnlyMutating, LedgerInv, IInv
    <2>2. /\ sent'[Len(sent) + 1] = ev
          /\ \A e \in 1..Len(sent') : e \in Issued \/ e = Len(sent) + 1
          /\ \A e \in Issued : sent'[e] = sent[e]
        BY <1>2, <2>1, Submitted DEF TypeInv, Issued
    <2> QED
        BY <1>2, <2>2 DEF OnlyMutating, Mutating, NonMutating, IsAnswer, Issued
<1>3. ASSUME OnlyMutating, [Next]_vars
      PROVE  OnlyMutating'
    <2>1. LedgerInv /\ LedgerInv'
        BY <1>3, LedgerNextInv DEF OnlyMutating
    <2>2. CASE sent' = sent
        BY <1>3, <2>1, <2>2 DEF OnlyMutating, Issued, IsAnswer, Mutating, NonMutating
    <2>3. CASE \E k \in AnswerKinds : SubmitAnswer(k)
        <3>1. PICK k \in AnswerKinds : SubmitAnswer(k)
            BY <2>3
        <3> DEFINE ev ==
                [kind |-> "answer", correct |-> k.correct, session |-> k.session,
                 conf |-> k.conf, weight |-> k.weight, temporary |-> k.temporary,
                 careless |-> k.careless, target |-> 0, proposes |-> Low]
        <3>2. sent' = Append(sent, ev)
            BY <3>1 DEF SubmitAnswer
        <3>3. ~ev.temporary /\ ~ev.careless /\ ~(ev.conf < MinConfidence)
            BY DEF KindsMutate
        <3> HIDE DEF ev
        <3> QED
            BY <1>2, <1>3, <2>1, <3>2, <3>3
    <2>4. CASE \E k \in CorrectionKinds, t \in Versions, r \in Replacements :
                    SubmitCorrection(k, t, r)
        <3>1. PICK ev : sent' = Append(sent, ev) /\ ev.kind = "correction"
            BY <2>4 DEF SubmitCorrection
        <3>2. ev.kind # "answer"
            BY <3>1
        <3> QED
            BY <1>2, <1>3, <2>1, <3>1, <3>2
    <2> QED
        BY <1>3, <2>1, <2>2, <2>3, <2>4, OnlyRecords DEF Next, vars
<1> QED
    BY <1>1, <1>3, PTL DEF Spec

\* Where no answer stays L1-only, what stands is justified as long as nothing but
\* answers was written.
COROLLARY AnswersJustified ==
    ASSUME SoleWriter, MinMargin > 0, KindsMutate
    PROVE  Spec => []StandingJustified
<1>1. OnlyMutating /\ Uncorrected => AllMutating
    BY RecordedIssued DEF OnlyMutating, Uncorrected, AllMutating
<1>2. ~Uncorrected => StandingJustified
    BY DEF Uncorrected, StandingJustified
<1> QED
    BY <1>1, <1>2, OnlyMutatingHolds, StandingJustifiedHolds, PTL
=============================================================================
