---------------------------- MODULE Compensation ----------------------------
(* Compensation of chain tails (exam_mem/lifecycle/compensation.py) beside
   the ordinary writers of LifecycleStore: an operator takes back the last
   decision of a slot by superseding what it left open with the value that
   was active before it.  plan and apply run in one transaction of the caller,
   which applies under the token of that very plan; the apply step is the
   applier's own (ReadVersion, Replace, NoticeStale, GiveUp).

   Every compensation has an operator and a reason of its own, so its event
   and its decision are new; the event counts as a correction for the policy
   of later answers, and is never issued again by itself. *)
EXTENDS LifecycleStore

VARIABLE
    trail   \* lifecycle_changes: the rows an event changed, before and after

compensationVars == <<vars, trail>>

NoChange == [was |-> NoRows, is |-> NoRows]

CompensationInit == Init /\ trail = [e \in EventIds |-> NoChange]

\* The rows the commit of this step changed or added.
Changed == {v \in DOMAIN rows' : v \notin Versions \/ rows'[v] # rows[v]}

ChangesOfStep ==
    [was |-> [v \in Changed \cap Versions |-> rows[v]],
     is  |-> [v \in Changed |-> rows'[v]]]

\* append_changes: a decision's changes are stored with its outcome.
AppendChanges ==
    trail' = [e \in EventIds |->
                IF e \in log' \ log THEN ChangesOfStep ELSE trail[e]]

OpenOf(changed) ==
    [v \in {u \in DOMAIN changed : changed[u].state \in CandidateStates} |-> changed[v]]

Restorable == {"merge", "supersede", "contested"}

\* _unique_prior_active
PriorActive(s) == ActiveIn(trail[s].was)

\* Faulty variant: the plan does not look at what was written since.
TailUnchangedUnseen(s) == Candidates # NoRows

\* _validate_unchanged_chain_tail: what the source left open is all that is
\* open now, and its newest row ends the version chain.
TailUnchanged(s) ==
    LET left == OpenOf(trail[s].is)
    IN  /\ Candidates # NoRows
        /\ Candidates = left
        /\ Max(DOMAIN left) = Len(rows)

\* The supersede of everything open, decided without the policy; with
\* maximum_cas_recomputations = 0 a stale plan is given up at once.
Compensate(w, s) ==
    LET e  == Len(sent) + 1
        in == [NoInput EXCEPT !.e = e, !.cand = Candidates]
    IN  /\ tx[w].step = "idle"
        /\ e <= MaxEvents
        /\ audit[s].op \in Restorable
        /\ Cardinality(PriorActive(s)) = 1
        /\ TailUnchanged(s)
        /\ sent' = Append(sent,
            [kind |-> "compensation", correct |-> FALSE, session |-> 0,
             conf |-> 0, weight |-> 1, temporary |-> FALSE, careless |-> FALSE,
             target |-> s,
             proposes |-> trail[s].was[TheOne(PriorActive(s))].val])
        /\ tx' = [tx EXCEPT ![w] = [IdleTx EXCEPT
                    !.step = "decided", !.fresh = TRUE, !.in = in, !.first = in,
                    !.d = Decision("supersede", DOMAIN Candidates),
                    !.n = MaxRecompute]]
        /\ UNCHANGED <<log, rows, audit, trail>>

IsCompensation(e) == sent[e].kind = "compensation"

\* A step of the ordinary writers, or of the applier for a compensation.
OrdinaryStep ==
    /\ Next
    /\ \A w \in Writers :
        tx'[w].step = "recorded" => ~IsCompensation(tx'[w].in.e)
    /\ AppendChanges

CompensationNext ==
    \/ OrdinaryStep
    \/ \E w \in Writers, s \in log : Compensate(w, s)

CompensationSpec == CompensationInit /\ [][CompensationNext]_compensationVars

(***************************************************************************)
(* Properties.                                                             *)
(***************************************************************************)
Compensations ==
    {e \in log : IsCompensation(e) /\ audit[e].state = "applied"}

\* What racing writers may not break: an applied compensation closed exactly
\* the rows its source had left open, as the source left them, so it takes
\* back nothing that was written later and no source is taken back twice; and
\* unless the source opened a dispute, the slot holds the earlier value again.
TakesBackItsSource ==
    \A c \in Compensations :
        LET s == sent[c].target
            v == TheOne(ActiveIn(trail[c].is))
        IN  /\ trail[c].was = OpenOf(trail[s].is)
            /\ \A d \in Compensations : sent[d].target = s => d = c
            /\ audit[s].op # "contested" =>
                trail[c].is[v].val = trail[s].was[TheOne(PriorActive(s))].val
=============================================================================
