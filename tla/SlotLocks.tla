----------------------------- MODULE SlotLocks -----------------------------
(* The row locks of the write transactions of one learner, over several slots:
   exam_mem/backends/lifecycle.py over storage/memory_repository.py.

   LifecycleStore takes a change of one slot as one step, from its first row lock
   to COMMIT.  Here the locks are taken one by one and held to COMMIT, over all
   the slots an answer touches; what the change writes is left to that module,
   and a slot is no more than the number of changes it has seen.

   The slots of an event come in the order of its diagnosis, and an operation
   locks the rows of a slot in an order of its own, so two transactions can wait
   for each other.  PostgreSQL then refuses one of them. *)
EXTENDS Naturals, Sequences, FiniteSets, SequencesExt

CONSTANTS
    Writers,      \* one event each
    Slots,
    Filled,       \* the slots that hold an archived and a current row already
    MaxRecompute, \* maximum_cas_recomputations
    Nobody        \* who holds a free row

ASSUME SlotLocksAssumption ==
    /\ IsFiniteSet(Writers) /\ Nobody \notin Writers
    /\ IsFiniteSet(Slots) /\ Slots # {} /\ Filled \subseteq Slots
    /\ MaxRecompute \in Nat

\* The rows of a slot: those that are archived, the current one and the key of
\* the next version, which the unique index makes a lock of its own.
Rows == Slots \X {"archived", "current", "next"}

VARIABLES
    order,    \* the slots of each event: stored with its diagnosis
    changes,  \* how many committed changes each slot has seen
    holder,   \* the transaction that holds a row
    tx        \* the transaction of each writer

vars == <<order, changes, holder, tx>>

\* "at": the place in the order; "read": what was read of the slot; "plan": the
\* rows still to lock and the compare-and-set; "pending": the slots changed and
\* not committed.
Idle == [pc |-> "idle", at |-> 1, read |-> 0, plan |-> <<>>, recomputed |-> 0,
         pending |-> {}]

Before(s) == IF s \in Filled THEN 2 ELSE 0

Init ==
    /\ order \in [Writers -> SetToSeqs(Slots)]
    /\ changes = [s \in Slots |-> Before(s)]
    /\ holder = [r \in Rows |-> Nobody]
    /\ tx = [w \in Writers |-> Idle]

Slot(w)     == order[w][tx[w].at]
HeldBy(w)   == {r \in Rows : holder[r] = w}
InSlot(w)   == {r \in HeldBy(w) : r[1] = Slot(w)}

Applying(w) == tx[w].pc = "apply" /\ tx[w].plan # <<>>
Target(w)   == <<Slot(w), Head(tx[w].plan)>>

Freed(rows) == [r \in Rows |-> IF r \in rows THEN Nobody ELSE holder[r]]

\* Faulty variant: the end of the order is noticed one slot too late.
GoOnPast(w, t) ==
    IF t.at > Len(order[w]) THEN [t EXCEPT !.pc = "commit"]
    ELSE [t EXCEPT !.pc = "decide", !.at = @ + 1, !.recomputed = 0]

\* The next slot, or COMMIT.
GoOn(w, t) ==
    IF t.at = Len(order[w]) THEN [t EXCEPT !.pc = "commit"]
    ELSE [t EXCEPT !.pc = "decide", !.at = @ + 1, !.recomputed = 0]

(***************************************************************************)
(* One slot.                                                               *)
(***************************************************************************)
\* next_version: SELECT .. FOR UPDATE of the rows of the slot, which nothing orders.
Scans(s) == IF changes[s] = 1 THEN {<<"current">>}
            ELSE {<<"archived", "current">>, <<"current", "archived">>}

\* Faulty variant: the row version is compared before the row is locked.
PlansCheckingFirst(s) ==
    IF changes[s] = 0 THEN {<<"check", "next">>}
    ELSE {<<"check">> \o scan \o <<"next">> : scan \in Scans(s)}

\* The steps of an operation: ADD inserts; MERGE and SUPERSEDE scan the slot,
\* compare and set, and insert; CONTESTED compares and sets before it scans.
Plans(s) ==
    IF changes[s] = 0 THEN {<<"next", "check">>}
    ELSE {scan \o <<"check", "next">> : scan \in Scans(s)}
         \cup {<<"current", "check">> \o scan \o <<"next">> : scan \in Scans(s)}

\* The first attempt of a write, or the repetition of one that failed.
Begin(w) ==
    /\ tx[w].pc \in {"idle", "refused"}
    /\ tx' = [tx EXCEPT ![w].pc = "decide"]
    /\ UNCHANGED <<order, changes, holder>>

\* The snapshots are read before any of their rows is locked.
Decide(w) ==
    /\ tx[w].pc = "decide"
    /\ \E plan \in Plans(Slot(w)) :
        tx' = [tx EXCEPT ![w].pc = "apply", ![w].read = changes[Slot(w)], ![w].plan = plan]
    /\ UNCHANGED <<order, changes, holder>>

\* NO_OP.
DecideNothing(w) ==
    /\ tx[w].pc = "decide"
    /\ tx' = [tx EXCEPT ![w] = GoOn(w, @)]
    /\ UNCHANGED <<order, changes, holder>>

Lock(w) ==
    /\ Applying(w) /\ Head(tx[w].plan) # "check"
    /\ holder[Target(w)] \in {w, Nobody}
    /\ holder' = [holder EXCEPT ![Target(w)] = w]
    /\ tx' = [tx EXCEPT ![w].plan = Tail(@)]
    /\ UNCHANGED <<order, changes>>

Comparing(w) == Applying(w) /\ Head(tx[w].plan) = "check"
Fresh(w)     == changes[Slot(w)] = tx[w].read

CompareAndSet(w) ==
    /\ Comparing(w) /\ Fresh(w)
    /\ tx' = [tx EXCEPT ![w].plan = Tail(@)]
    /\ UNCHANGED <<order, changes, holder>>

\* A stale row: the savepoint is rolled back with the locks taken in it, and the
\* decision is taken again ..
Recompute(w) ==
    /\ Comparing(w) /\ ~Fresh(w) /\ tx[w].read > 0
    /\ tx[w].recomputed < MaxRecompute
    /\ holder' = Freed(InSlot(w))
    /\ tx' = [tx EXCEPT ![w].pc = "decide", ![w].plan = <<>>, ![w].recomputed = @ + 1]
    /\ UNCHANGED <<order, changes>>

\* .. unless the relation's target is gone or the attempts are used up: a failed
\* change is recorded and the transaction goes on.
GiveUp(w) ==
    /\ Comparing(w) /\ ~Fresh(w) /\ tx[w].read > 0
    /\ holder' = Freed(InSlot(w))
    /\ tx' = [tx EXCEPT ![w] = GoOn(w, [tx[w] EXCEPT !.plan = <<>>])]
    /\ UNCHANGED <<order, changes>>

Applied(w) ==
    /\ tx[w].pc = "apply" /\ tx[w].plan = <<>>
    /\ tx' = [tx EXCEPT ![w] = GoOn(w, [tx[w] EXCEPT !.pending = @ \cup {Slot(w)}])]
    /\ UNCHANGED <<order, changes, holder>>

(***************************************************************************)
(* The transaction.                                                        *)
(***************************************************************************)
Counted(slots) == [s \in Slots |-> changes[s] + (IF s \in slots THEN 1 ELSE 0)]

Commit(w) ==
    /\ tx[w].pc = "commit"
    /\ changes' = Counted(tx[w].pending)
    /\ holder' = Freed(HeldBy(w))
    /\ tx' = [tx EXCEPT ![w] = [Idle EXCEPT !.pc = "done"]]
    /\ UNCHANGED order

\* Faulty variant: a failed write is not sent again.
AfterRollbackOver == [Idle EXCEPT !.pc = "lost"]

\* The request is refused as retryable, and its client sends it again.
AfterRollback == [Idle EXCEPT !.pc = "refused"]

Rollback(w) ==
    /\ holder' = Freed(HeldBy(w))
    /\ tx' = [tx EXCEPT ![w] = AfterRollback]
    /\ UNCHANGED <<order, changes>>

\* MemoryVersionConflict: another transaction has filled the slot.
Conflict(w) == Comparing(w) /\ ~Fresh(w) /\ tx[w].read = 0 /\ Rollback(w)

Blockers(w) ==
    IF Applying(w) /\ Head(tx[w].plan) # "check" THEN {holder[Target(w)]} \ {w, Nobody}
    ELSE {}

\* Writers that wait for each other in a ring.
InCycle(w) ==
    \E ring \in SUBSET Writers :
        /\ w \in ring
        /\ \A x \in ring : /\ \E y \in ring : y \in Blockers(x)
                           /\ \E y \in ring : x \in Blockers(y)

\* PostgreSQL picks a victim among transactions that wait for each other.
Deadlocked(w) == InCycle(w) /\ Rollback(w)

Work(w) ==
    \/ Begin(w) \/ Decide(w) \/ DecideNothing(w) \/ CompareAndSet(w) \/ Recompute(w)
    \/ GiveUp(w) \/ Applied(w) \/ Commit(w) \/ Conflict(w)

Next == \E w \in Writers : Work(w) \/ Lock(w) \/ Deadlocked(w)

Spec == Init /\ [][Next]_vars

\* A transaction goes on, a row is given to those who wait for it in turn, and a
\* deadlock is detected after deadlock_timeout.
FairSpec ==
    /\ Spec
    /\ \A w \in Writers : WF_vars(Work(w)) /\ SF_vars(Lock(w))
    /\ WF_vars(\E w \in Writers : Deadlocked(w))

(***************************************************************************)
(* Properties.                                                             *)
(***************************************************************************)
TypeOK ==
    /\ changes \in [Slots -> Nat]
    /\ holder \in [Rows -> Writers \cup {Nobody}]
    /\ \A w \in Writers :
        /\ tx[w].pc \in {"idle", "decide", "apply", "commit", "refused", "done"}
        /\ tx[w].at \in 1..Len(order[w])
        /\ tx[w].recomputed <= MaxRecompute
        /\ tx[w].pending \subseteq Slots
        /\ HeldBy(w) # {} => tx[w].pc \in {"decide", "apply", "commit"}

\* The steps that are left in the current slot.
Left(w) == {tx[w].plan[i] : i \in DOMAIN tx[w].plan}

\* The slots w has compared and set.
Changing(w) ==
    {s \in Slots : \/ s \in tx[w].pending
                   \/ tx[w].pc = "apply" /\ "check" \notin Left(w) /\ s = Slot(w)}

\* No other transaction changes a slot between a compare-and-set of it and the
\* end of the transaction: a change is one step, as LifecycleStore has it.
ChangeIsOneStep ==
    [][\A w \in Writers : \A s \in Changing(w) :
        changes'[s] # changes[s] => tx'[w].pc = "done"]_vars

\* However transactions block each other, every event is committed in the end,
\* unless they refuse each other for ever: a client that sends a refused event at
\* once can meet the same transaction again.
WritesSettle ==
    \/ []<>(\E w \in Writers : tx[w].pc = "refused")
    \/ \A w \in Writers : <>(tx[w].pc = "done")
=============================================================================
