------------------------- MODULE ProjectionRebuild -------------------------
(* The rebuilds of one learner's student model, L3 (exam_mem/storage/
   rebuild.py), that run after the transactions which changed L2.  Every
   rebuild is a transaction of its own, at the database's default isolation:
   it reads L1 page by page, then L2, clears the stored snapshots and saves the
   new one.  Rebuilds of different answers, and the transactions that record
   further answers, interleave between those statements.

   An event is known by its rank in created_at, the start of the transaction
   that recorded it; transactions commit in any order.  L2 is the set of events
   it counts: each of its changes adds the provenance of the event behind it. *)
EXTENDS Naturals, FiniteSets

CONSTANTS
    MaxEvents,    \* bound on the answers
    PageSize,     \* DEFAULT_EVENT_PAGE_SIZE
    MaxRunning,   \* rebuilds in progress at a time
    MaxFailures   \* bound on the rebuilds that fail for outside reasons

ASSUME RebuildAssumption ==
    /\ MaxEvents \in Nat /\ MaxRunning \in Nat /\ MaxFailures \in Nat
    /\ PageSize \in Nat \ {0}

Events  == 1..MaxEvents
Changes == {"APPLIED", "CONTESTED", "NO_OP"}

VARIABLES
    recorded,    \* L1
    counted,     \* L2
    snapshots,   \* L3: committed rows of student_model_snapshots
    job,         \* per event, the rebuild its handler runs
    overlapped,  \* whether two rebuilds were ever in progress at a time
    failures

vars == <<recorded, counted, snapshots, job, overlapped, failures>>

\* A job that holds nothing.
AtRest(e, pc) == [pc |-> pc, started |-> 0, events |-> {}, memories |-> {},
                  doomed |-> {}, cleared |-> {}]

\* Faulty variant: the rows a rebuild cleared stay locked after it ended.
AtRestLocking(e, pc) == [job[e] EXCEPT !.pc = pc]

Rest(e, pc) == AtRest(e, pc)

Init ==
    /\ recorded = {} /\ counted = {} /\ snapshots = {}
    /\ job = [e \in Events |-> AtRest(e, "none")]
    /\ overlapped = FALSE
    /\ failures = 0

\* Faulty variant: a contested change is taken for no change of L2.
RequestsWhenApplied(change) == change = "APPLIED"

\* build_projection_refresh_request
RequestsRefresh(change) == change \in {"APPLIED", "CONTESTED"}

\* The transaction of TransactionalPracticeMemoryWriter.write commits.
Commit(e, change) ==
    /\ e \notin recorded
    /\ recorded' = recorded \cup {e}
    /\ counted' = IF change = "NO_OP" THEN counted ELSE counted \cup {e}
    /\ job' = [job EXCEPT ![e].pc = IF RequestsRefresh(change) THEN "owed" ELSE "none"]
    /\ UNCHANGED <<snapshots, overlapped, failures>>

Running == {e \in Events : job[e].pc \in {"events", "memories", "clear", "clearing", "save"}}

\* now() at the start of a transaction: later than all that is remembered.
Now == LET past == {0} \cup {job[d].started : d \in Events}
                       \cup {s.created : s \in snapshots}
       IN  1 + CHOOSE t \in past : \A u \in past : u <= t

Begin(e) ==
    /\ job[e].pc = "owed"
    /\ Cardinality(Running) < MaxRunning
    /\ job' = [job EXCEPT ![e].pc = "events", ![e].started = Now]
    /\ overlapped' = (overlapped \/ Running # {})
    /\ UNCHANGED <<recorded, counted, snapshots, failures>>

\* list_after: the next events in the order of created_at.
Watermark(events) == CHOOSE w \in events \cup {0} : \A e \in events : e <= w

\* Faulty variant: a page holds the newest of the events after the watermark.
NewestPage(events) ==
    LET later == {e \in recorded : e > Watermark(events)}
    IN  {e \in later : Cardinality({d \in later : d > e}) < PageSize}

NextPage(events) ==
    LET later == {e \in recorded : e > Watermark(events)}
    IN  {e \in later : Cardinality({d \in later : d < e}) < PageSize}

\* One page; a short one is the last.
ReadPage(e) ==
    LET page == NextPage(job[e].events)
    IN  /\ job[e].pc = "events"
        /\ job' = [job EXCEPT
                    ![e].events = @ \cup page,
                    ![e].pc = IF Cardinality(page) < PageSize THEN "memories" ELSE @]
        /\ UNCHANGED <<recorded, counted, snapshots, overlapped, failures>>

\* project_student_model rejects a memory whose provenance was not read.
Traceable(events, memories) == memories \subseteq events

ReadMemories(e) ==
    /\ job[e].pc = "memories"
    /\ job' = [job EXCEPT ![e] =
                IF Traceable(job[e].events, counted)
                THEN [job[e] EXCEPT !.pc = "clear", !.memories = counted]
                ELSE Rest(e, "owed")]
    /\ UNCHANGED <<recorded, counted, snapshots, overlapped, failures>>

\* The DELETE sees the rows committed when it starts, ..
BeginClear(e) ==
    /\ job[e].pc = "clear"
    /\ job' = [job EXCEPT ![e].pc = "clearing", ![e].doomed = snapshots]
    /\ UNCHANGED <<recorded, counted, snapshots, overlapped, failures>>

\* The rows other rebuilds have deleted and not yet committed.
LockedToOthers(e) == UNION {job[d].cleared : d \in Events \ {e}}

\* Faulty variant: the clear commits by itself.
ClearAtOnce(e) ==
    /\ job[e].pc = "clearing"
    /\ snapshots' = snapshots \ job[e].doomed
    /\ job' = [job EXCEPT ![e].pc = "save"]
    /\ UNCHANGED <<recorded, counted, overlapped, failures>>

\* .. waits for the transactions that have deleted any of them, and passes
\* over those that are gone by then.
FinishClear(e) ==
    /\ job[e].pc = "clearing"
    /\ job[e].doomed \cap LockedToOthers(e) = {}
    /\ job' = [job EXCEPT ![e].pc = "save", ![e].cleared = job[e].doomed \cap snapshots]
    /\ UNCHANGED <<recorded, counted, snapshots, overlapped, failures>>

\* The snapshot_id is derived from both watermarks.
Id(s) == <<Watermark(s.events), s.memories>>

Built(e) == [events |-> job[e].events, memories |-> job[e].memories,
             created |-> job[e].started]

\* Faulty variant: a row deleted in this transaction still counts.
SameIdInTable(e) == {s \in snapshots : Id(s) = Id(Built(e))}

\* The rows the new one collides with.
SameId(e) == {s \in snapshots \ job[e].cleared : Id(s) = Id(Built(e))}

\* INSERT .. ON CONFLICT DO NOTHING and the commit, or ProjectionConflict and
\* the rollback.  A colliding row another rebuild is deleting is waited for.
Save(e) ==
    /\ job[e].pc = "save"
    /\ SameId(e) \cap LockedToOthers(e) = {}
    /\ IF SameId(e) = {}
       THEN /\ snapshots' = (snapshots \ job[e].cleared) \cup {Built(e)}
            /\ job' = [job EXCEPT ![e] = Rest(e, "done")]
       ELSE /\ job' = [job EXCEPT ![e] = Rest(e, "owed")]
            /\ UNCHANGED snapshots
    /\ UNCHANGED <<recorded, counted, overlapped, failures>>

\* A lost connection, a crash: the transaction rolls back.
Fail(e) ==
    /\ e \in Running
    /\ failures < MaxFailures
    /\ failures' = failures + 1
    /\ job' = [job EXCEPT ![e] = Rest(e, "owed")]
    /\ UNCHANGED <<recorded, counted, snapshots, overlapped>>

Rebuild(e) ==
    \/ Begin(e)
    \/ ReadPage(e)
    \/ ReadMemories(e)
    \/ BeginClear(e)
    \/ FinishClear(e)
    \/ Save(e)

Next ==
    \E e \in Events :
        \/ \E change \in Changes : Commit(e, change)
        \/ Rebuild(e)
        \/ Fail(e)

Spec == Init /\ [][Next]_vars

\* The handler goes on, and a refresh that failed is retried.
FairSpec == Spec /\ \A e \in Events : WF_vars(Rebuild(e))

(***************************************************************************)
(* Properties.                                                             *)
(***************************************************************************)
Row == [events : SUBSET Events, memories : SUBSET Events, created : Nat]

\* The values have their types; only an unfinished rebuild holds row locks.
TypeOK ==
    /\ counted \subseteq recorded /\ recorded \subseteq Events
    /\ snapshots \subseteq Row
    /\ job \in [Events ->
            [pc : {"none", "owed", "events", "memories", "clear", "clearing", "save", "done"},
             started : Nat, events : SUBSET Events, memories : SUBSET Events,
             doomed : SUBSET Row, cleared : SUBSET Row]]
    /\ \A e \in Events : job[e].cleared # {} => job[e].pc = "save"

\* Readers never find the student model gone: no rebuild, failed or not, takes
\* away the last snapshot without leaving another.
StaysReadable == [][snapshots # {} => snapshots' # {}]_vars

\* get_latest: the snapshot of the transaction that started last.
Latest == CHOOSE s \in snapshots : \A t \in snapshots : t.created <= s.created

\* What readers find in the student model of L1 and of L2 is in it ever after,
\* as long as rebuilds do not overlap: each starts from nothing, reads pages that
\* answers committed late may shift, and replaces all that was stored.
ModelKeepsEvidence ==
    [][~overlapped /\ snapshots # {} =>
            /\ Latest.events \subseteq Latest'.events
            /\ Latest.memories \subseteq Latest'.memories]_vars

\* When every requested refresh is done, readers see what L2 counts.
DrainedIsCurrent ==
    (\A e \in Events : job[e].pc \in {"none", "done"})
        => IF snapshots = {} THEN counted = {} ELSE Latest.memories = counted

\* .. as long as rebuilds do not overlap, however late their answers commit and
\* whichever of them failed and was done again.
SerialIsCurrent == ~overlapped => DrainedIsCurrent

\* Every requested refresh gets done: neither the reads of a moving L1 and L2,
\* nor identical snapshots, nor locks hold it up for ever.
RefreshesDrain == \A e \in Events : job[e].pc = "owed" ~> job[e].pc = "done"
=============================================================================
