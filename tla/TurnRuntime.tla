---------------------------- MODULE TurnRuntime ----------------------------
(* The turns of one chat session: deeptutor/services/session/turn_runtime.py
   over sqlite_store.py, behind api/routers/unified_ws.py.

   A turn is three things that move separately: its row in the store, the
   runner (TurnRuntimeManager._run_turn, one asyncio task) and the capability,
   a second task (runtime/orchestrator.py) whose events reach the runner
   through a StreamBus.  The runner numbers the events, hands them to the
   viewers' queues and writes the store when the stream is over.

   All of it is one event loop, and the manager's lock is never held across an
   await, so a step here is what runs between two awaits: an operation of the
   store, which the store's own lock makes atomic, and the code that follows it.
   A cancellation strikes at an await: the operation awaited has then taken
   effect or not. *)
EXTENDS Naturals, Sequences, FiniteSets

CONSTANTS
    MaxTurns,     \* bound on the turns of the session
    Handlers,     \* connections that send requests, one at a time each
    Viewers,      \* connections that follow a turn
    MaxWork,      \* bound on the events a capability produces
    MaxQuestions, \* bound on the questions a capability asks its user
    MaxReplies,   \* bound on the replies sent to a turn
    MaxCancels,   \* bound on the cancellations of a turn
    MaxDeletions, \* bound on the messages deleted by the user
    MaxRestarts   \* bound on the restarts of the server

ASSUME TurnAssumption ==
    {MaxTurns, MaxWork, MaxQuestions, MaxReplies, MaxCancels, MaxDeletions,
     MaxRestarts} \subseteq Nat

Turns == 1..MaxTurns

VARIABLES
    exists,     \* the session is in the store
    row,        \* turns.status; "interrupted": failed as a restart orphan
    stored,     \* turn_events: how many of the published events are persisted
    kept,       \* history: how many assistant messages each turn has stored
    thread,     \* messages; their ids tell their order
    lastId,     \* the last message id given out
    runner,     \* _run_turn of each turn; until "ended" it is in _executions
    published,  \* the events of each turn; an event's seq is its place here
    cap,        \* the capability of each turn
    bus,        \* what the capability emitted and the runner has not read
    replies,    \* _reply_queues; a reply is known by the question it answers
    answered,   \* the replies the capability has taken, in order
    op,         \* the request each handler is working on
    view,       \* the subscription of each viewer
    deletions, restarts

store   == <<exists, row, stored, kept, thread, lastId>>
process == <<runner, published, cap, bus, replies, answered>>
bounds  == <<deletions, restarts>>
vars    == <<store, process, op, view, bounds>>

Final == {"completed", "failed", "cancelled", "interrupted"}
NoTurn == 0
End    == 0    \* the sentinel that closes a viewer's queue

NoRunner == [pc |-> "none", regenerate |-> FALSE, doneSent |-> FALSE,
             flushed |-> FALSE, snapshot |-> 0, cancels |-> 0]
NoCap    == [pc |-> "none", work |-> 0, asked |-> 0]
OverCap  == [NoCap EXCEPT !.pc = "over"]
NoOp     == [pc |-> "idle", turn |-> NoTurn, regenerate |-> FALSE, message |-> 0]
NoView   == [pc |-> "idle", turn |-> NoTurn, got |-> <<>>, done |-> FALSE, queue |-> <<>>]

Init ==
    /\ exists = TRUE
    /\ row = [t \in Turns |-> "none"]
    /\ stored = [t \in Turns |-> 0]
    /\ kept = [t \in Turns |-> 0]
    /\ thread = {} /\ lastId = 0
    /\ runner = [t \in Turns |-> NoRunner]
    /\ published = [t \in Turns |-> <<>>]
    /\ cap = [t \in Turns |-> NoCap]
    /\ bus = [t \in Turns |-> <<>>]
    /\ replies = [t \in Turns |-> <<>>]
    /\ answered = [t \in Turns |-> <<>>]
    /\ op = [h \in Handlers |-> NoOp]
    /\ view = [v \in Viewers |-> NoView]
    /\ deletions = 0 /\ restarts = 0

(***************************************************************************)
(* The store.                                                              *)
(***************************************************************************)
HasRow(t)  == row[t] \notin {"none", "gone"}
RunningRows == {t \in Turns : row[t] = "running"}

\* update_turn_status: whatever the status was; no row, no change.
SetStatus(t, status) == row' = IF HasRow(t) THEN [row EXCEPT ![t] = status] ELSE row

\* add_message; a message is placed among the turns by its created_at.
Created == Cardinality({t \in Turns : row[t] # "none"})
Post(t, role) ==
    /\ thread' = thread \cup {[id |-> lastId + 1, role |-> role, turn |-> t,
                               after |-> Created]}
    /\ lastId' = lastId + 1

Live(t) == runner[t].pc \notin {"none", "ended"}

(***************************************************************************)
(* Publishing.                                                             *)
(***************************************************************************)
\* A runner that has returned; its locals are gone.
Ended(t, cancels) ==
    [NoRunner EXCEPT !.pc = "ended", !.regenerate = runner[t].regenerate, !.cancels = cancels]

Published(t, type) == \E i \in DOMAIN published[t] : published[t][i] = type
Seqs(from, to) == [i \in 1..(to - from) |-> from + i]

\* Into the queue of every registered subscriber of the turn.
Offer(t, seqs) ==
    view' = [v \in Viewers |-> IF view[v].pc = "live" /\ view[v].turn = t
                               THEN [view[v] EXCEPT !.queue = @ \o seqs] ELSE view[v]]

\* _publish_live_event, of several events in a row.
Publish(t, types) ==
    /\ published' = [published EXCEPT ![t] = @ \o types]
    /\ Offer(t, Seqs(Len(published[t]), Len(published'[t])))

\* Faulty variant: the queues are left without the sentinel.
PublishAndLeave(t, types) ==
    /\ published' = [published EXCEPT ![t] = @ \o types]
    /\ Offer(t, Seqs(Len(published[t]), Len(published'[t])))
    /\ runner' = [runner EXCEPT ![t] = Ended(t, @.cancels)]
    /\ replies' = [replies EXCEPT ![t] = <<>>]

\* .. followed by the finally block: the queues are closed, the turn is no
\* longer registered and takes no replies.
PublishAndEnd(t, types) ==
    /\ published' = [published EXCEPT ![t] = @ \o types]
    /\ Offer(t, Append(Seqs(Len(published[t]), Len(published'[t])), End))
    /\ runner' = [runner EXCEPT ![t] = Ended(t, @.cancels)]
    /\ replies' = [replies EXCEPT ![t] = <<>>]

(***************************************************************************)
(* The capability.                                                         *)
(***************************************************************************)
\* The bus has a subscriber while the runner is reading; the rest is lost.
Emit(t, types) ==
    bus' = IF runner[t].pc = "stream" THEN [bus EXCEPT ![t] = @ \o types] ELSE bus

CapabilityWorks(t) ==
    /\ cap[t].pc = "working" /\ cap[t].work < MaxWork
    /\ cap' = [cap EXCEPT ![t].work = @ + 1]
    /\ Emit(t, <<"content">>)
    /\ UNCHANGED <<replies, answered>>

\* ask_user: the loop pauses until wait_for_user_reply returns.
CapabilityAsks(t) ==
    /\ cap[t].pc = "working" /\ cap[t].asked < MaxQuestions
    /\ cap' = [cap EXCEPT ![t].pc = "asking", ![t].asked = @ + 1]
    /\ Emit(t, <<"question">>)
    /\ UNCHANGED <<replies, answered>>

CapabilityTakesReply(t) ==
    /\ cap[t].pc = "asking" /\ replies[t] # <<>>
    /\ replies' = [replies EXCEPT ![t] = Tail(@)]
    /\ answered' = [answered EXCEPT ![t] = Append(@, Head(replies[t]))]
    /\ cap' = [cap EXCEPT ![t].pc = "working"]
    /\ Emit(t, <<"reply">>)

\* The orchestrator turns an exception into a terminal error, and closes the bus.
CapabilityEnds(t) ==
    /\ cap[t].pc = "working"
    /\ cap' = [cap EXCEPT ![t] = OverCap]
    /\ Emit(t, <<"done">>) \/ Emit(t, <<"error", "done">>)
    /\ UNCHANGED <<replies, answered>>

Capability(t) ==
    /\ \/ CapabilityWorks(t)
       \/ CapabilityAsks(t)
       \/ CapabilityTakesReply(t)
       \/ CapabilityEnds(t)
    /\ UNCHANGED <<store, runner, published, op, view, bounds>>

(***************************************************************************)
(* The runner.                                                             *)
(***************************************************************************)
\* The messages and statuses that the store operation it awaits writes.
Questions(t) == runner[t].pc = "prepare" /\ ~runner[t].regenerate
Answers(t)   == runner[t].pc \in {"save", "keep"}
Flushes(t)   == runner[t].pc \in {"flush", "cancelFlush", "failFlush"}
Settles(t)   == runner[t].pc \in {"settle", "cancelSettle", "failSettle"}

\* _resolve_turn_outcome: a terminal error outweighs the DONE event.
Outcome(t) == IF Published(t, "error") THEN "failed" ELSE "completed"

Verdict(t) == CASE runner[t].pc = "settle"       -> Outcome(t)
                [] runner[t].pc = "cancelSettle" -> "cancelled"
                [] runner[t].pc = "failSettle"   -> "failed"

\* The awaited operation takes effect.
Lands(t) ==
    /\ IF exists /\ (Questions(t) \/ Answers(t))
       THEN Post(t, IF Questions(t) THEN "user" ELSE "assistant")
       ELSE UNCHANGED <<thread, lastId>>
    /\ kept' = IF exists /\ Answers(t) THEN [kept EXCEPT ![t] = @ + 1] ELSE kept
    /\ IF Flushes(t) /\ HasRow(t)
       THEN stored' = [stored EXCEPT ![t] = runner[t].snapshot]
       ELSE UNCHANGED stored
    /\ IF Settles(t) THEN SetStatus(t, Verdict(t)) ELSE UNCHANGED row
    /\ UNCHANGED exists

Goto(t, pc) == runner' = [runner EXCEPT ![t].pc = pc]

\* Faulty variant: the next seq is taken for the number of events.
BufferPast(t, pc) ==
    runner' = [runner EXCEPT ![t].pc = pc, ![t].flushed = TRUE,
                             ![t].snapshot = Len(published'[t]) + 1]

\* The first half of _flush_buffered_events: taken once, before the append.
Buffer(t, pc) ==
    runner' = [runner EXCEPT ![t].pc = pc, ![t].flushed = TRUE,
                             ![t].snapshot = Len(published'[t])]

\* The question is stored, or already there; the capability starts.
Prepared(t) ==
    /\ runner[t].pc = "prepare" /\ (exists \/ runner[t].regenerate)
    /\ Lands(t)
    /\ Goto(t, "stream")
    /\ cap' = [cap EXCEPT ![t].pc = "working"]
    /\ UNCHANGED <<published, bus, replies, view>>

\* One event of the bus; DONE is held back until the answer is stored.
Relay(t) ==
    /\ runner[t].pc = "stream" /\ bus[t] # <<>>
    /\ bus' = [bus EXCEPT ![t] = Tail(@)]
    /\ IF Head(bus[t]) = "done"
       THEN Goto(t, "save") /\ UNCHANGED <<published, view>>
       ELSE Publish(t, <<Head(bus[t])>>) /\ UNCHANGED runner
    /\ UNCHANGED <<store, cap, replies>>

SaveAnswer(t) ==
    /\ runner[t].pc = "save" /\ exists
    /\ Lands(t)
    /\ UNCHANGED published
    /\ Buffer(t, "flush")
    /\ UNCHANGED <<cap, bus, replies, view>>

\* What the runner has taken from the capability.
Produced(t) == \E type \in {"content", "question", "error"} : Published(t, type)

\* Faulty variant: a cancelled turn goes straight to its status.
AfterFlushDropping(t) == "cancelSettle"

\* It is kept when a cancelled turn's events are flushed.
AfterFlush(t) == IF Produced(t) THEN "keep" ELSE "cancelSettle"

\* A turn that is gone has nowhere to put its events; that is no error.
Flush(t) ==
    /\ Flushes(t)
    /\ Lands(t)
    /\ Goto(t, CASE runner[t].pc = "flush"       -> "settle"
                 [] runner[t].pc = "failFlush"   -> "failSettle"
                 [] runner[t].pc = "cancelFlush" -> AfterFlush(t))
    /\ UNCHANGED <<published, cap, bus, replies, view>>

\* The status, then DONE; a new conversation that completed gets a title.
Settle(t) ==
    /\ runner[t].pc = "settle"
    /\ Lands(t)
    /\ IF Outcome(t) = "completed" /\ ~runner[t].regenerate
       THEN /\ Publish(t, <<"done">>)
            /\ runner' = [runner EXCEPT ![t].pc = "title", ![t].doneSent = TRUE]
            /\ UNCHANGED replies
       ELSE PublishAndEnd(t, <<"done">>)
    /\ UNCHANGED <<cap, bus>>

\* The session has no title yet, and both sides have said something.
NeedsTitle ==
    /\ \A t \in Turns : ~Published(t, "title")
    /\ \E m \in thread : m.role = "user"
    /\ \E m \in thread : m.role = "assistant" /\ Published(m.turn, "content")

Title(t) ==
    /\ runner[t].pc = "title"
    /\ PublishAndEnd(t, IF NeedsTitle THEN <<"title">> ELSE <<>>)
    /\ UNCHANGED <<store, cap, bus>>

\* The partial answer of a cancelled turn.
KeepPartial(t) ==
    /\ runner[t].pc = "keep"
    /\ Lands(t)
    /\ Goto(t, "cancelSettle")
    /\ UNCHANGED <<published, cap, bus, replies, view>>

\* Faulty variant: the status update is skipped with the steps before it.
SettleFaultSkipped(t) ==
    /\ runner[t].pc \in {"cancelSettle", "failSettle"}
    /\ PublishAndEnd(t, <<>>)
    /\ UNCHANGED <<store, cap, bus>>

SettleFault(t) ==
    /\ runner[t].pc \in {"cancelSettle", "failSettle"}
    /\ Lands(t)
    /\ PublishAndEnd(t, <<>>)
    /\ UNCHANGED <<cap, bus>>

\* except Exception: while the turn is prepared, or the session has gone.
Fault(t) ==
    /\ \/ runner[t].pc = "prepare"
       \/ runner[t].pc = "save" /\ ~exists
    /\ Publish(t, <<"failure", "done">>)
    /\ Buffer(t, "failFlush")
    /\ UNCHANGED <<store, cap, bus, replies>>

RunnerStep(t) ==
    \/ Prepared(t) \/ Relay(t) \/ SaveAnswer(t) \/ Flush(t) \/ Settle(t)
    \/ Title(t) \/ KeepPartial(t) \/ SettleFault(t)

\* except CancelledError: the ending is published at once if DONE was not, and
\* the events are flushed unless a flush was begun before.
Interrupted(t) ==
    /\ IF runner[t].doneSent
       THEN UNCHANGED <<published, view>>
       ELSE Publish(t, <<"cancellation", "done">>)
    /\ runner' = [runner EXCEPT
                    ![t].pc = IF runner[t].flushed THEN AfterFlush(t) ELSE "cancelFlush",
                    ![t].snapshot = IF runner[t].flushed THEN @ ELSE Len(published'[t]),
                    ![t].flushed = TRUE, ![t].cancels = @ + 1]
    /\ UNCHANGED replies

\* A further cancellation leaves the handler for good; only the shielded
\* add_message goes on.
Unwound(t) ==
    /\ published' = published
    /\ Offer(t, <<End>>)
    /\ runner' = [runner EXCEPT ![t] = Ended(t, @.cancels + 1)]
    /\ replies' = [replies EXCEPT ![t] = <<>>]

Handling(t) ==
    runner[t].pc \in {"cancelFlush", "keep", "cancelSettle", "failFlush", "failSettle"}

\* task.cancel(), delivered where the runner waits.
Interrupt(t) ==
    /\ Live(t) /\ runner[t].cancels < MaxCancels
    /\ Lands(t) \/ (runner[t].pc # "keep" /\ UNCHANGED store)
    /\ IF Handling(t) THEN Unwound(t) ELSE Interrupted(t)
    /\ bus' = [bus EXCEPT ![t] = <<>>]
    /\ UNCHANGED cap

(***************************************************************************)
(* Requests.  A handler is busy with one until it is answered.             *)
(***************************************************************************)
Doing(h, pc) == op[h].pc = pc
Answer(h)    == op' = [op EXCEPT ![h] = NoOp]

\* Faulty variant: the runner of the turn is not looked for.
StaleAnyway(t) == row[t] = "running"

\* _has_live_execution, in the step that read the row.
Stale(t) == row[t] = "running" /\ ~Live(t)

\* _recover_orphan_running_turns_for_session; a session that is gone is
\* replaced by a new one, which is not this model's.
StartTurn(h) ==
    /\ \/ Doing(h, "idle") /\ exists
       \/ Doing(h, "replay")
    /\ \/ \E t \in Turns : Stale(t) /\ op' = [op EXCEPT ![h].pc = "recover", ![h].turn = t]
       \/ (\A t \in Turns : ~Stale(t)) /\ op' = [op EXCEPT ![h].pc = "create"]
    /\ UNCHANGED <<store, process, view, bounds>>

RecoverOrphan(h) ==
    /\ Doing(h, "recover")
    /\ SetStatus(op[h].turn, "interrupted")
    /\ op' = [op EXCEPT ![h].pc = "create", ![h].turn = NoTurn]
    /\ UNCHANGED <<exists, stored, kept, thread, lastId, process, view, bounds>>

\* Faulty variant: the check for a running turn and the insert are two steps.
MayCreateUnchecked == exists

MayCreate == exists /\ RunningRows = {}

\* create_turn, the SESSION event, the registration and the task.
CreateTurn(h) ==
    LET t == Created + 1
    IN  /\ Doing(h, "create") /\ MayCreate /\ t \in Turns
        /\ row' = [row EXCEPT ![t] = "running"]
        /\ published' = [published EXCEPT ![t] = <<"session">>]
        /\ runner' = [runner EXCEPT ![t].pc = "prepare", ![t].regenerate = op[h].regenerate]
        /\ Answer(h)
        /\ UNCHANGED <<exists, stored, kept, thread, lastId, cap, bus, replies, answered,
                       view, bounds>>

\* The request is refused: a turn is running, the session has gone, or its
\* surface, configuration or model is not allowed.
RefuseTurn(h) ==
    /\ \/ Doing(h, "create") /\ ~MayCreate
       \/ Doing(h, "replay")
    /\ Answer(h)
    /\ UNCHANGED <<store, process, view, bounds>>

\* regenerate_last_turn: refused while a turn is running, ..
Regenerate(h) ==
    /\ Doing(h, "idle") /\ exists /\ RunningRows = {}
    /\ op' = [op EXCEPT ![h].pc = "lastUser", ![h].regenerate = TRUE]
    /\ UNCHANGED <<store, process, view, bounds>>

\* .. or when there is no question to answer again.
LastUser(h) ==
    /\ Doing(h, "lastUser")
    /\ IF \E m \in thread : m.role = "user"
       THEN op' = [op EXCEPT ![h].pc = "lastMessage"]
       ELSE Answer(h)
    /\ UNCHANGED <<store, process, view, bounds>>

Oldest(messages) == {m \in messages : \A n \in messages : m.id <= n.id}
Newest(messages) == {m \in messages : \A n \in messages : n.id <= m.id}

LastMessage(h) ==
    /\ Doing(h, "lastMessage")
    /\ \/ \E m \in Newest(thread) :
            /\ m.role = "assistant"
            /\ op' = [op EXCEPT ![h].pc = "delete", ![h].message = m.id]
       \/ /\ \A m \in Newest(thread) : m.role # "assistant"
          /\ op' = [op EXCEPT ![h].pc = "replay"]
    /\ UNCHANGED <<store, process, view, bounds>>

Without(ids) == {m \in thread : m.id \notin ids}

DeleteAnswer(h) ==
    /\ Doing(h, "delete")
    /\ thread' = Without({op[h].message})
    /\ op' = [op EXCEPT ![h].pc = "replay", ![h].message = 0]
    /\ UNCHANGED <<exists, row, stored, kept, lastId, process, view, bounds>>

\* cancel_turn: the handler waits for the runner to end, ..
CancelTurn(h) ==
    /\ Doing(h, "idle")
    /\ \E t \in Turns : Interrupt(t) /\ op' = [op EXCEPT ![h].pc = "await", ![h].turn = t]
    /\ UNCHANGED <<answered, bounds>>

TurnCancelled(h) ==
    /\ Doing(h, "await") /\ ~Live(op[h].turn)
    /\ Answer(h)
    /\ UNCHANGED <<store, process, view, bounds>>

\* .. or, like check_active_turn, it finds a row that nobody works on.
FindStale(h) ==
    /\ Doing(h, "idle")
    /\ \E t \in Turns : Stale(t) /\ op' = [op EXCEPT ![h].pc = "settle", ![h].turn = t]
    /\ UNCHANGED <<store, process, view, bounds>>

CancelStale(h) ==
    /\ Doing(h, "settle")
    /\ SetStatus(op[h].turn, "cancelled")
    /\ Answer(h)
    /\ UNCHANGED <<exists, stored, kept, thread, lastId, process, view, bounds>>

Handle(h) ==
    \/ StartTurn(h) \/ RecoverOrphan(h) \/ CreateTurn(h) \/ RefuseTurn(h)
    \/ Regenerate(h) \/ LastUser(h) \/ LastMessage(h) \/ DeleteAnswer(h)
    \/ CancelTurn(h) \/ TurnCancelled(h) \/ FindStale(h) \/ CancelStale(h)

Shown(t) == Cardinality({i \in DOMAIN published[t] : published[t][i] = "question"})

\* submit_user_reply to the question that was shown last: put on the queue of
\* any turn that has one.
Reply(t) ==
    /\ Live(t) /\ Shown(t) > 0
    /\ Len(answered[t]) + Len(replies[t]) < MaxReplies
    /\ replies' = [replies EXCEPT ![t] = Append(@, Shown(t))]
    /\ UNCHANGED <<store, runner, published, cap, bus, answered, op, view, bounds>>

\* DELETE /sessions/{id}: the rows go with it.
DeleteSession ==
    /\ exists /\ deletions < MaxDeletions
    /\ exists' = FALSE
    /\ thread' = {}
    /\ row' = [t \in Turns |-> IF HasRow(t) THEN "gone" ELSE row[t]]
    /\ stored' = [t \in Turns |-> 0]
    /\ deletions' = deletions + 1
    /\ UNCHANGED <<kept, lastId, process, op, view, restarts>>

\* The message of the other side.
Pair(m) ==
    IF m.role = "user" THEN Oldest({n \in thread : n.role = "assistant" /\ n.id > m.id})
                       ELSE Newest({n \in thread : n.role = "user" /\ n.id < m.id})

\* The first turn created since the question was stored.
TurnsFrom(m) ==
    LET user == {n \in {m} \cup Pair(m) : n.role = "user"}
        from == {t \in Turns : HasRow(t) /\ \E n \in user : t > n.after}
    IN  {t \in from : \A u \in from : t <= u}

\* DELETE /sessions/{id}/messages/{id}, refused while that turn is running.
DeleteByMessage(m) ==
    /\ deletions < MaxDeletions
    /\ \A t \in TurnsFrom(m) : row[t] # "running"
    /\ thread' = Without({n.id : n \in {m} \cup Pair(m)})
    /\ row' = [t \in Turns |-> IF t \in TurnsFrom(m) THEN "gone" ELSE row[t]]
    /\ stored' = [t \in Turns |-> IF t \in TurnsFrom(m) THEN 0 ELSE stored[t]]
    /\ deletions' = deletions + 1
    /\ UNCHANGED <<exists, kept, lastId, process, op, view, restarts>>

(***************************************************************************)
(* Viewers: subscribe_turn, and again after a lost connection.             *)
(***************************************************************************)
Last(v) == IF view[v].got = <<>> THEN 0 ELSE view[v].got[Len(view[v].got)]

IsDone(t, seq) == published[t][seq] = "done"

\* A viewer that has received the further events.
Receives(v, seqs) ==
    [view[v] EXCEPT !.got = @ \o seqs,
                    !.done = @ \/ \E i \in DOMAIN seqs : IsDone(view[v].turn, seqs[i])]

\* The events that the store, or the process, has after the last one seen.
StoredAfter(v)    == Seqs(Last(v), stored[view[v].turn])
PublishedAfter(v) == Seqs(Last(v), Len(published[view[v].turn]))

Becomes(v, w) ==
    /\ view' = [view EXCEPT ![v] = w]
    /\ UNCHANGED <<store, process, op, bounds>>

\* A first subscription starts from nothing, a resumed one from what was seen.
Subscribe(v, t) ==
    /\ view[v].pc = "idle" /\ HasRow(t)
    /\ Becomes(v, [NoView EXCEPT !.pc = "backlog", !.turn = t])

Resume(v) ==
    /\ view[v].pc = "left"
    /\ Becomes(v, [view[v] EXCEPT !.pc = "backlog", !.done = FALSE])

ReadBacklog(v) ==
    /\ view[v].pc = "backlog"
    /\ Becomes(v, [Receives(v, StoredAfter(v)) EXCEPT !.pc = "register"])

\* Faulty variant: the subscriber starts from an empty queue.
RegisterLate(v) ==
    /\ view[v].pc = "register"
    /\ Becomes(v, IF Live(view[v].turn)
                  THEN [view[v] EXCEPT !.pc = "live", !.queue = <<>>]
                  ELSE [view[v] EXCEPT !.pc = "catchUp"])

\* What the process still holds, and from here on the queue.
Register(v) ==
    /\ view[v].pc = "register"
    /\ Becomes(v, IF Live(view[v].turn)
                  THEN [Receives(v, PublishedAfter(v)) EXCEPT !.pc = "live", !.queue = <<>>]
                  ELSE [view[v] EXCEPT !.pc = "catchUp"])

CatchUp(v) ==
    /\ view[v].pc = "catchUp"
    /\ Becomes(v, [Receives(v, StoredAfter(v)) EXCEPT !.pc = "status"])

Closed(w) == [w EXCEPT !.pc = "closed", !.queue = <<>>]

\* Faulty variant: the end of the queue is the end of the turn.
CloseSilently(v) == Becomes(v, Closed(view[v]))

\* Unless DONE was seen, one is made up from the row of a turn that is over.
Close(v) == Becomes(v, [Closed(view[v]) EXCEPT !.done = TRUE])

Status(v) ==
    /\ view[v].pc = "status"
    /\ IF Stale(view[v].turn)
       THEN Becomes(v, [view[v] EXCEPT !.pc = "recover"])
       ELSE Close(v)

RecoverViewed(v) ==
    /\ view[v].pc = "recover"
    /\ SetStatus(view[v].turn, "interrupted")
    /\ view' = [view EXCEPT ![v].pc = "status"]
    /\ UNCHANGED <<exists, stored, kept, thread, lastId, process, op, bounds>>

IsNew(v, seq) == seq > Last(v)

Take(v) ==
    LET item == Head(view[v].queue)
        rest == [view[v] EXCEPT !.queue = Tail(@)]
    IN  /\ view[v].pc = "live" /\ view[v].queue # <<>>
        /\ Becomes(v, IF item = End THEN [rest EXCEPT !.pc = "drained"]
                      ELSE IF IsNew(v, item)
                           THEN [Receives(v, <<item>>) EXCEPT !.queue = Tail(@)]
                           ELSE rest)

\* The safety net behind the sentinel: not for a row that still says running.
Drained(v) ==
    /\ view[v].pc = "drained"
    /\ IF row[view[v].turn] = "running" THEN Becomes(v, Closed(view[v])) ELSE Close(v)

ViewerStep(v) ==
    \/ ReadBacklog(v) \/ Register(v) \/ CatchUp(v) \/ Status(v)
    \/ RecoverViewed(v) \/ Take(v) \/ Drained(v)

\* The socket is gone; stop_subscription.
Leave(v) ==
    /\ view[v].pc \notin {"idle", "left", "closed"}
    /\ Becomes(v, [view[v] EXCEPT !.pc = "left", !.queue = <<>>])

(***************************************************************************)
(* The server stops and starts again: the store is all that is left.       *)
(***************************************************************************)
Restart ==
    /\ restarts < MaxRestarts
    /\ restarts' = restarts + 1
    /\ runner' = [t \in Turns |-> IF Live(t) THEN Ended(t, runner[t].cancels) ELSE runner[t]]
    /\ cap' = [t \in Turns |-> IF cap[t].pc = "none" THEN cap[t] ELSE OverCap]
    /\ bus' = [t \in Turns |-> <<>>]
    /\ replies' = [t \in Turns |-> <<>>]
    /\ op' = [h \in Handlers |-> NoOp]
    /\ view' = [v \in Viewers |-> IF view[v].pc \in {"idle", "closed"} THEN view[v]
                                  ELSE [view[v] EXCEPT !.pc = "left", !.queue = <<>>]]
    /\ UNCHANGED <<store, published, answered, deletions>>

Run(t) == RunnerStep(t) \/ Fault(t)

Next ==
    \/ \E t \in Turns : Run(t) /\ UNCHANGED <<answered, op, bounds>>
    \/ \E t \in Turns : Capability(t) \/ Reply(t)
    \/ \E h \in Handlers : Handle(h)
    \/ \E v \in Viewers : ViewerStep(v) \/ Leave(v) \/ Resume(v)
    \/ \E v \in Viewers, t \in Turns : Subscribe(v, t)
    \/ DeleteSession
    \/ \E m \in thread : DeleteByMessage(m)
    \/ Restart

Spec == Init /\ [][Next]_vars

\* The event loop runs what is ready; a capability that waits for nobody goes on
\* (every call it makes has a timeout).
FairSpec ==
    /\ Spec
    /\ \A t \in Turns : /\ WF_vars(Run(t) /\ UNCHANGED <<answered, op, bounds>>)
                        /\ WF_vars(Capability(t))
    /\ \A v \in Viewers : WF_vars(ViewerStep(v))

(***************************************************************************)
(* Properties.                                                             *)
(***************************************************************************)
TypeOK ==
    /\ exists \in BOOLEAN
    /\ row \in [Turns -> {"none", "running", "gone"} \cup Final]
    /\ stored \in [Turns -> Nat]
    /\ thread \subseteq [id : 1..lastId, role : {"user", "assistant"}, turn : Turns,
                          after : Turns]
    /\ \A t \in Turns :
        /\ runner[t].pc \in {"none", "prepare", "stream", "save", "flush", "settle",
                             "title", "cancelFlush", "keep", "cancelSettle",
                             "failFlush", "failSettle", "ended"}
        /\ cap[t].pc \in {"none", "working", "asking", "over"}
        /\ stored[t] <= Len(published[t])
    /\ \A v \in Viewers :
        view[v].pc \in {"idle", "backlog", "register", "catchUp", "status", "recover",
                        "live", "drained", "closed", "left"}

\* A session has one running turn at most, whatever handlers race to start,
\* regenerate, cancel or recover turns.
OneRunning == Cardinality(RunningRows) <= 1

\* No recovery and no other request settles a turn under its runner: it is never
\* labelled an orphan or cancelled meanwhile, and says running until the runner
\* has written the outcome.
LiveIsRunning ==
    \A t \in Turns : Live(t) =>
        /\ row[t] \notin {"interrupted", "cancelled"}
        /\ runner[t].pc # "title" /\ runner[t].cancels = 0 => row[t] \in {"running", "gone"}

\* How often a turn was cancelled or failed.
Upsets(t) == runner[t].cancels + (IF Published(t, "failure") THEN 1 ELSE 0)

\* A turn that ended, cancelled once or failed but not both, leaves a settled
\* row: otherwise only a restart makes an orphan.
EndedIsSettled ==
    \A t \in Turns : runner[t].pc = "ended" /\ Upsets(t) <= 1 /\ restarts = 0
                     => row[t] # "running"

\* The work a viewer has seen survives a turn that finishes or is cancelled once:
\* it does not end before an assistant message holds it.
WorkKept ==
    [][\A t \in Turns : /\ Live(t) /\ ~Live(t)' /\ Produced(t)
                        /\ exists /\ runner'[t].cancels <= 1 /\ restarts' = restarts
                        => kept'[t] > 0]_vars

\* Across the backlog, the queue and reconnections, a viewer receives the events
\* of its turn in order, none twice and none left out before the last it has.
InOrder == \A v \in Viewers : view[v].got = Seqs(0, Len(view[v].got))

\* No subscription ends before its viewer has had a DONE, and a turn has one.
DoneOnce ==
    /\ \A v \in Viewers : view[v].pc = "closed" =>
        view[v].done \/ \E i \in DOMAIN view[v].got : IsDone(view[v].turn, view[v].got[i])
    /\ \A t \in Turns : \A i, j \in DOMAIN published[t] :
        published[t][i] = "done" /\ published[t][j] = "done" => i = j

\* A subscription to a turn that waits for nobody comes to its end.
ViewersFinish ==
    \A v \in Viewers :
        view[v].pc = "register"
            ~> \/ view[v].pc \in {"closed", "left"}
               \/ \E t \in Turns : t = view[v].turn /\ cap[t].pc = "asking"

(***************************************************************************)
(* What the code's comments claim and its steps do not keep.               *)
(***************************************************************************)
\* A session has one turn at work at most: cancel_turn lets its caller proceed
\* when the runner has ended, and create_turn admits one running turn.
OneAtWork == Cardinality({t \in Turns : cap[t].pc \in {"working", "asking"}}) <= 1
=============================================================================
