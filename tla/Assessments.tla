---------------------------- MODULE Assessments ----------------------------
(* The versions and the attempts of one assessment: the requests that        *)
(* generate a version, repeat one, answer a question, resume a practice,      *)
(* archive and restore. A request handler runs transactions of its own and,   *)
(* between them, a practice turn of the host; it may stop anywhere.           *)
(*                                                                            *)
(* The practice itself is abstracted to the checkpoints it saves: number 0 is *)
(* that of the opening request, number q that of the answer to question q     *)
(* (module PracticeWorkflow has what happens in between). Versions other      *)
(* than their author, titles, taxonomies and source snapshots are left out.   *)
EXTENDS Integers, Sequences

CONSTANTS Handlers,     \* concurrent requests
          Sessions,     \* practice_session_ids, one per attempt
          Persistent,   \* those whose learner resumes them again and again
          Questions,    \* number of questions of every catalogue
          MaxVersions   \* bound: versions of the assessment

ASSUME AssessmentsAssumption ==
    /\ Persistent \subseteq Sessions
    /\ Questions \in Nat \ {0}
    /\ MaxVersions \in Nat

VARIABLES versions,     \* assessment_versions: who generated each, in order
          archived,     \* assessments.archived_at is set
          attempt,      \* assessment_attempts: the attempt of each practice session
          practice,     \* practice_workflow_checkpoints: last begun, last finished
          job           \* what each handler is doing

vars == <<versions, archived, attempt, practice, job>>

Idle == [step |-> "idle"]
NoAttempt == [status |-> "none", version |-> 0]

\* latest_version, 0 while there is no row of the assessment
Latest == Len(versions)

\* What a handler does: it generates a version, or repeats one; it waits for a
\* turn; it is about to fail or to complete the attempt of its session
Job == {Idle}
       \union [step : {"generate"}, session : Sessions, sees : 0..(MaxVersions - 1)]
       \union [step : {"repeat"}, session : Sessions, version : 1..MaxVersions]
       \union [step : {"turn"}, session : Sessions, number : 0..Questions, starts : BOOLEAN]
       \union [step : {"withdraw", "close"}, session : Sessions]

Attempt == [status : {"none", "in_progress", "completed", "failed"}, version : 0..MaxVersions]

TypeOK ==
    /\ versions \in Seq(Sessions) /\ Latest <= MaxVersions
    /\ archived \in BOOLEAN
    /\ attempt \in [Sessions -> Attempt]
    /\ \A s \in Sessions : (attempt[s].status = "none") <=> (attempt[s] = NoAttempt)
    /\ practice \in [Sessions -> [begun : -1..Questions, finished : -1..Questions]]
    /\ \A s \in Sessions : practice[s].begun - practice[s].finished \in {0, 1}
    /\ job \in [Handlers -> Job]

Init ==
    /\ versions = <<>> /\ archived = FALSE
    /\ attempt = [s \in Sessions |-> NoAttempt]
    /\ practice = [s \in Sessions |-> [begun |-> -1, finished |-> -1]]
    /\ job = [h \in Handlers |-> Idle]

At(h, step) == job[h].step = step
GoOn(h, next) == job' = [job EXCEPT ![h] = next]
Turn(s, q, starts) == [step |-> "turn", session |-> s, number |-> q, starts |-> starts]

-----------------------------------------------------------------------------
(* Versions and attempts *)

\* create_version reads the row FOR UPDATE; it holds the lock until it commits
NeverLocked == FALSE    \* Faulty variant: read without FOR UPDATE
RowLocked == \E h \in Handlers : At(h, "generate") /\ job[h].sees > 0

\* A request for a new version that the assessment, if it exists, may receive
ReadAssessment(h, s) ==
    /\ At(h, "idle") /\ Latest < MaxVersions
    /\ ~ archived /\ ~ RowLocked
    /\ GoOn(h, [step |-> "generate", session |-> s, sees |-> Latest])
    /\ UNCHANGED <<versions, archived, attempt, practice>>

\* The primary key of assessments and versions, and the one attempt of a session
MayInsert(h) ==
    /\ job[h].sees = Latest
    /\ attempt[job[h].session].status = "none"

Started(s, v) ==
    attempt' = [attempt EXCEPT ![s] = [status |-> "in_progress", version |-> v]]

\* create_version and start_attempt of one transaction
InsertVersion(h) ==
    /\ At(h, "generate") /\ MayInsert(h)
    /\ versions' = Append(versions, job[h].session)
    /\ Started(job[h].session, Latest + 1)
    /\ GoOn(h, Turn(job[h].session, 0, TRUE))
    /\ UNCHANGED <<archived, practice>>

\* A unique violation rolls the request back
RefuseVersion(h) ==
    /\ At(h, "generate") /\ ~ MayInsert(h)
    /\ GoOn(h, Idle)
    /\ UNCHANGED <<versions, archived, attempt, practice>>

\* get_version of a repetition: no lock
ReadVersion(h, s, v) ==
    /\ At(h, "idle") /\ ~ archived
    /\ GoOn(h, [step |-> "repeat", session |-> s, version |-> v])
    /\ UNCHANGED <<versions, archived, attempt, practice>>

InsertAttempt(h) ==
    /\ At(h, "repeat") /\ attempt[job[h].session].status = "none"
    /\ Started(job[h].session, job[h].version)
    /\ GoOn(h, Turn(job[h].session, 0, TRUE))
    /\ UNCHANGED <<versions, archived, practice>>

RefuseAttempt(h) ==
    /\ At(h, "repeat") /\ attempt[job[h].session].status # "none"
    /\ GoOn(h, Idle)
    /\ UNCHANGED <<versions, archived, attempt, practice>>

\* The attempts that an update WHERE status = 'in_progress' reaches
Exists(s) == attempt[s].status # "none"    \* Faulty variant: whatever its status
InProgress(s) == attempt[s].status = "in_progress"

EndAttempts(S, status) ==
    attempt' = [s \in Sessions |->
        IF s \in S /\ InProgress(s) THEN [attempt[s] EXCEPT !.status = status] ELSE attempt[s]]

\* Archiving again fails again what is in progress
Archive ==
    /\ Latest > 0 /\ ~ RowLocked
    /\ archived' = TRUE
    /\ EndAttempts(Sessions, "failed")
    /\ UNCHANGED <<versions, practice, job>>

Restore ==
    /\ archived /\ ~ RowLocked
    /\ archived' = FALSE
    /\ UNCHANGED <<versions, attempt, practice, job>>

-----------------------------------------------------------------------------
(* Practice turns *)

\* The answer to question q: a repeated one is let through without looking at
\* the archive, a new one needs its question to be the last one issued
IsReplay(s, q) == practice[s].begun >= q
Issued(s, q) == practice[s].begun = q - 1 /\ practice[s].finished = q - 1

Answer(h, s, q) ==
    /\ At(h, "idle")
    /\ IsReplay(s, q) \/ (Issued(s, q) /\ ~ archived)
    /\ GoOn(h, Turn(s, q, FALSE))
    /\ UNCHANGED <<versions, archived, attempt, practice>>

\* Resuming runs the request of the latest checkpoint once more
Resume(h, s) ==
    /\ At(h, "idle") /\ ~ archived
    /\ practice[s].begun >= 0
    /\ GoOn(h, Turn(s, practice[s].begun, FALSE))
    /\ UNCHANGED <<versions, archived, attempt, practice>>

\* The workflow creates the checkpoint of its request
SaveCheckpoint(h) ==
    /\ At(h, "turn") /\ ~ IsReplay(job[h].session, job[h].number)
    /\ practice' = [practice EXCEPT ![job[h].session].begun = job[h].number]
    /\ UNCHANGED <<versions, archived, attempt, job>>

\* catalog_completed of the answered checkpoint
AnyResult(j) == TRUE    \* Faulty variant: every result completes
CompletedUnlessReplayed(j) ==    \* Faulty variant: only the first time
    j.number = Questions /\ practice[j.session].finished < Questions
Completed(j) == j.number = Questions

\* The turn brings its checkpoint to the end and returns a result
EndTurn(h) ==
    LET j == job[h] IN
    /\ At(h, "turn") /\ IsReplay(j.session, j.number)
    /\ practice' = [practice EXCEPT ![j.session].finished =
                        IF @ < j.number THEN j.number ELSE @]
    /\ GoOn(h, IF ~ j.starts /\ Completed(j) THEN [step |-> "close", session |-> j.session]
               ELSE Idle)
    /\ UNCHANGED <<versions, archived, attempt>>

\* The turn is refused, fails or has no result
FailTurn(h) ==
    LET j == job[h] IN
    /\ At(h, "turn")
    /\ GoOn(h, IF j.starts THEN [step |-> "withdraw", session |-> j.session] ELSE Idle)
    /\ UNCHANGED <<versions, archived, attempt, practice>>

\* fail_attempt after a first turn that failed
WithdrawAttempt(h) ==
    /\ At(h, "withdraw")
    /\ EndAttempts({job[h].session}, "failed")
    /\ GoOn(h, Idle)
    /\ UNCHANGED <<versions, archived, practice>>

\* complete_attempt after a turn whose result says completed
CloseAttempt(h) ==
    /\ At(h, "close")
    /\ EndAttempts({job[h].session}, "completed")
    /\ GoOn(h, Idle)
    /\ UNCHANGED <<versions, archived, practice>>

\* The handler stops; what it has not committed is rolled back
Crash(h) ==
    /\ ~ At(h, "idle")
    /\ GoOn(h, Idle)
    /\ UNCHANGED <<versions, archived, attempt, practice>>

-----------------------------------------------------------------------------
Ends(h) == RefuseVersion(h) \/ RefuseAttempt(h) \/ EndTurn(h)
           \/ WithdrawAttempt(h) \/ CloseAttempt(h)
Work(h) == InsertVersion(h) \/ InsertAttempt(h) \/ SaveCheckpoint(h) \/ FailTurn(h) \/ Ends(h)

Requests(h) ==
    \E s \in Sessions :
        \/ ReadAssessment(h, s)
        \/ \E v \in 1..Latest : ReadVersion(h, s, v)
        \/ \E q \in 1..Questions : Answer(h, s, q)
        \/ Resume(h, s)

Next ==
    \/ \E h \in Handlers : Requests(h) \/ Work(h) \/ Crash(h)
    \/ Archive
    \/ Restore

Spec == Init /\ [][Next]_vars

\* A handler that does not stop goes on; a persistent practice that may be resumed
\* time and again is resumed, by a handler that does not stop or fail every time
EndsResumed(h, s) == job[h] = Turn(s, practice[s].begun, FALSE) /\ EndTurn(h)
Closes(h, s) == job[h] = [step |-> "close", session |-> s] /\ CloseAttempt(h)

Fairness ==
    /\ \A h \in Handlers : WF_vars(Work(h))
    /\ \A s \in Persistent :
        /\ SF_vars(\E h \in Handlers : Resume(h, s))
        /\ SF_vars(\E h \in Handlers : EndsResumed(h, s))
        /\ SF_vars(\E h \in Handlers : Closes(h, s))

FairSpec == Spec /\ Fairness

-----------------------------------------------------------------------------
(* Properties *)

Finished(s) == practice[s].finished = Questions

\* An attempt is completed only when the catalogue of its practice is answered,
\* whichever request completed it
CompletedIsFinished ==
    \A s \in Sessions : attempt[s].status = "completed" => Finished(s)

\* In an archived assessment the attempt of every generated version has ended:
\* the row lock keeps a version from slipping past the archival that fails its
\* attempts (a repetition takes no lock, and its attempt does slip past)
ArchivalEndsGenerated == archived => \A v \in 1..Latest : ~ InProgress(versions[v])

\* An attempt ends once: archiving, failing and completing race for it, and the
\* first one stands
AttemptsEndOnce ==
    [][\A s \in Sessions :
        attempt[s].status \in {"completed", "failed"} => attempt'[s] = attempt[s]]_vars

\* A practice that is finished does not leave its attempt in progress for ever:
\* the result that would have completed it may be lost with its handler, and is
\* got again by resuming or by repeating the last answer
FinishedIsSettled ==
    \A s \in Persistent : (Finished(s) /\ InProgress(s)) ~> ~ InProgress(s)

=============================================================================
