------------------------- MODULE AssessmentsProofs -------------------------
(* Proofs about Assessments, for any number of handlers, practice sessions,   *)
(* questions and versions, and about GradeReviews, for any keys and any       *)
(* number of review requests: these leave the assessments alone.              *)
EXTENDS GradeReviews, TLAPS

\* The version a session generated is the one of its attempt
AuthorsAttempt ==
    \A v \in 1..Latest :
        attempt[versions[v]].status # "none" /\ attempt[versions[v]].version = v

VersionsExist ==
    /\ \A s \in Sessions : attempt[s].version <= Latest
    /\ \A h \in Handlers : At(h, "repeat") => job[h].version <= Latest

\* While a request holds the row lock, nothing is archived; without a row neither
LockKeepsOpen ==
    /\ archived => Latest > 0
    /\ \A h \in Handlers : At(h, "generate") /\ job[h].sees > 0 => ~ archived

ClosesFinished == \A h \in Handlers : At(h, "close") => Finished(job[h].session)

\* A turn is about an answer that was given, or about the next one
TurnsInOrder ==
    \A h \in Handlers : At(h, "turn") => job[h].number <= practice[job[h].session].finished + 1

IInv ==
    /\ TypeOK
    /\ TurnsInOrder
    /\ AuthorsAttempt
    /\ VersionsExist
    /\ LockKeepsOpen
    /\ ClosesFinished
    /\ CompletedIsFinished
    /\ ArchivalEndsGenerated

\* The fields of what a handler is doing
LEMMA JobFields ==
    ASSUME TypeOK, NEW h \in Handlers
    PROVE  /\ At(h, "generate") => job[h].session \in Sessions /\ job[h].sees \in 0..(MaxVersions - 1)
           /\ At(h, "repeat") => job[h].session \in Sessions /\ job[h].version \in 1..MaxVersions
           /\ At(h, "turn") => /\ job[h].session \in Sessions /\ job[h].number \in 0..Questions
                               /\ job[h].starts \in BOOLEAN
           /\ At(h, "withdraw") => job[h].session \in Sessions
           /\ At(h, "close") => job[h].session \in Sessions
  BY DEF TypeOK, Job, At, Idle

\* The numbers of a practice
LEMMA PracticeFields ==
    ASSUME TypeOK, NEW s \in Sessions
    PROVE  /\ practice[s].begun \in Int /\ practice[s].finished \in Int
           /\ practice[s].begun - practice[s].finished \in {0, 1}
<1>1. practice[s] \in [begun : -1..Questions, finished : -1..Questions]
  BY DEF TypeOK
<1>2. \A n \in -1..Questions : n \in Int
  BY AssessmentsAssumption
<1> QED  BY <1>1, <1>2 DEF TypeOK

LEMMA InitInv == Init => IInv
<1> SUFFICES ASSUME Init PROVE IInv
  OBVIOUS
<1> USE DEF Init, Latest
<1>1. versions \in Seq(Sessions) /\ Latest = 0 /\ Latest <= MaxVersions
  BY AssessmentsAssumption
<1>2. attempt \in [Sessions -> Attempt]
  BY AssessmentsAssumption DEF NoAttempt, Attempt
<1>3. /\ practice \in [Sessions -> [begun : -1..Questions, finished : -1..Questions]]
      /\ \A s \in Sessions : practice[s].begun - practice[s].finished \in {0, 1}
  BY AssessmentsAssumption
<1>4. \A h \in Handlers : job[h] = Idle
  OBVIOUS
<1>5. TypeOK
  BY <1>1, <1>2, <1>3, <1>4 DEF TypeOK, NoAttempt, Job
<1>6. AuthorsAttempt /\ VersionsExist /\ LockKeepsOpen /\ TurnsInOrder
  BY <1>1, <1>4 DEF TurnsInOrder, AuthorsAttempt, VersionsExist, LockKeepsOpen, At, Idle, NoAttempt
<1>7. ClosesFinished /\ CompletedIsFinished /\ ArchivalEndsGenerated
  BY <1>4 DEF ClosesFinished, CompletedIsFinished, ArchivalEndsGenerated, At, Idle, NoAttempt
<1> QED  BY <1>5, <1>6, <1>7 DEF IInv

-----------------------------------------------------------------------------
(* Each action preserves the invariant *)

\* A handler that goes on with something of its type
LEMMA GoOnType ==
    ASSUME TypeOK, NEW h \in Handlers, NEW next \in Job, GoOn(h, next)
    PROVE  /\ job' \in [Handlers -> Job] /\ job'[h] = next
           /\ \A g \in Handlers : g # h => job'[g] = job[g]
  BY DEF TypeOK, GoOn

LEMMA RequestStep ==
    ASSUME IInv, NEW h \in Handlers, Requests(h)
    PROVE  IInv'
<1>1. /\ At(h, "idle")
      /\ UNCHANGED <<versions, archived, attempt, practice>>
  BY DEF Requests, ReadAssessment, ReadVersion, Answer, Resume
<1>2. PICK next \in Job :
        /\ GoOn(h, next)
        /\ next.step \in {"generate", "repeat", "turn"}
        /\ next.step = "generate" => ~ archived
        /\ next.step = "repeat" => next.version <= Latest
        /\ next.step = "turn" => next.number <= practice[next.session].finished + 1
  <2>0. Latest \in 0..MaxVersions
    BY AssessmentsAssumption DEF IInv, TypeOK, Latest
  <2>1. CASE \E s \in Sessions : ReadAssessment(h, s)
    <3>1. PICK s \in Sessions : ReadAssessment(h, s)
      BY <2>1
    <3> DEFINE next == [step |-> "generate", session |-> s, sees |-> Latest]
    <3>2. Latest \in 0..(MaxVersions - 1)
      BY <2>0, <3>1, AssessmentsAssumption DEF ReadAssessment
    <3>3. next \in Job
      BY <3>2 DEF Job
    <3> QED  BY <3>1, <3>3 DEF ReadAssessment
  <2>2. CASE \E s \in Sessions, v \in 1..Latest : ReadVersion(h, s, v)
    <3>1. PICK s \in Sessions, v \in 1..Latest : ReadVersion(h, s, v)
      BY <2>2
    <3> DEFINE next == [step |-> "repeat", session |-> s, version |-> v]
    <3>2. v \in 1..MaxVersions /\ v <= Latest
      BY <2>0, <3>1, AssessmentsAssumption
    <3>3. next \in Job
      BY <3>2 DEF Job
    <3> QED  BY <3>1, <3>2, <3>3 DEF ReadVersion
  <2>3. CASE \E s \in Sessions, q \in 1..Questions : Answer(h, s, q)
    <3>1. PICK s \in Sessions, q \in 1..Questions : Answer(h, s, q)
      BY <2>3
    <3>2. Turn(s, q, FALSE) \in Job
      BY AssessmentsAssumption DEF Turn, Job
    <3>3. /\ practice[s].begun \in Int /\ practice[s].finished \in Int /\ q \in Int
          /\ practice[s].begun - practice[s].finished \in {0, 1}
      BY PracticeFields, <3>1, AssessmentsAssumption DEF IInv
    <3>4. practice[s].begun >= q \/ practice[s].finished = q - 1
      BY <3>1 DEF Answer, IsReplay, Issued
    <3>5. q <= practice[s].finished + 1
      <4> DEFINE b == practice[s].begun
                 f == practice[s].finished
      <4> HIDE DEF b, f
      <4>1. b \in Int /\ f \in Int /\ q \in Int /\ b - f \in {0, 1} /\ (b >= q \/ f = q - 1)
        BY <3>3, <3>4 DEF b, f
      <4>2. q <= f + 1
        BY <4>1
      <4> QED  BY <4>2 DEF f
    <3> QED  BY <3>1, <3>2, <3>5 DEF Answer, Turn
  <2>4. CASE \E s \in Sessions : Resume(h, s)
    <3>1. PICK s \in Sessions : Resume(h, s)
      BY <2>4
    <3>2. practice[s].begun \in 0..Questions
      BY <3>1, AssessmentsAssumption DEF Resume, IInv, TypeOK
    <3>3. Turn(s, practice[s].begun, FALSE) \in Job
      BY <3>2 DEF Turn, Job
    <3>4. practice[s].begun <= practice[s].finished + 1
      <4> DEFINE b == practice[s].begun
                 f == practice[s].finished
      <4> HIDE DEF b, f
      <4>1. b \in Int /\ f \in Int /\ b - f \in {0, 1}
        BY PracticeFields, <3>1 DEF IInv, b, f
      <4>2. b <= f + 1
        BY <4>1
      <4> QED  BY <4>2 DEF b, f
    <3> QED  BY <3>1, <3>3, <3>4 DEF Resume, Turn
  <2> QED  BY <2>1, <2>2, <2>3, <2>4 DEF Requests
<1>3. /\ job' \in [Handlers -> Job] /\ job'[h] = next
      /\ \A g \in Handlers : g # h => job'[g] = job[g]
  BY <1>2, GoOnType DEF IInv
<1>4. TypeOK'
  BY <1>1, <1>3 DEF IInv, TypeOK, Latest
<1>5. AuthorsAttempt' /\ CompletedIsFinished' /\ ArchivalEndsGenerated'
  BY <1>1 DEF IInv, AuthorsAttempt, CompletedIsFinished, ArchivalEndsGenerated, Latest,
              InProgress, Finished
<1>6. VersionsExist' /\ LockKeepsOpen' /\ ClosesFinished' /\ TurnsInOrder'
  BY <1>1, <1>2, <1>3
     DEF TurnsInOrder, IInv, VersionsExist, LockKeepsOpen, ClosesFinished, At, Latest, Finished
<1> QED  BY <1>4, <1>5, <1>6 DEF IInv

\* What the two inserts have in common: an attempt where there was none
LEMMA StartedType ==
    ASSUME IInv, NEW h \in Handlers, NEW s \in Sessions, NEW v \in 1..MaxVersions,
           Started(s, v), GoOn(h, Turn(s, 0, TRUE))
    PROVE  /\ attempt' \in [Sessions -> Attempt]
           /\ attempt'[s].status = "in_progress" /\ attempt'[s].version = v
           /\ \A r \in Sessions : r # s => attempt'[r] = attempt[r]
           /\ \A r \in Sessions : (attempt'[r].status = "none") <=> (attempt'[r] = NoAttempt)
           /\ job' \in [Handlers -> Job]
           /\ \A g \in Handlers : ~ At(g, "turn")' => g # h /\ job'[g] = job[g]
           /\ \A g \in Handlers : job'[g] = job[g] \/ job'[g] = Turn(s, 0, TRUE)
<1>1. Turn(s, 0, TRUE) \in Job
  BY AssessmentsAssumption DEF Turn, Job
<1>2. /\ job' \in [Handlers -> Job] /\ job'[h] = Turn(s, 0, TRUE)
      /\ \A g \in Handlers : g # h => job'[g] = job[g]
  BY <1>1, GoOnType DEF IInv
<1>3. attempt \in [Sessions -> Attempt]
  BY DEF IInv, TypeOK
<1>4. [status |-> "in_progress", version |-> v] \in Attempt
  BY DEF Attempt
<1>5. /\ attempt' \in [Sessions -> Attempt]
      /\ attempt'[s] = [status |-> "in_progress", version |-> v]
      /\ \A r \in Sessions : r # s => attempt'[r] = attempt[r]
  BY <1>3, <1>4 DEF Started
<1>6. ASSUME NEW r \in Sessions
      PROVE  (attempt'[r].status = "none") <=> (attempt'[r] = NoAttempt)
  <2>1. CASE r = s
    <3>1. attempt'[r].status = "in_progress"
      BY <2>1, <1>5
    <3>2. NoAttempt.status = "none"
      BY DEF NoAttempt
    <3> QED  BY <3>1, <3>2
  <2>2. CASE r # s
    <3>1. attempt'[r] = attempt[r]
      BY <2>2, <1>5
    <3>2. (attempt[r].status = "none") <=> (attempt[r] = NoAttempt)
      BY DEF IInv, TypeOK
    <3> QED  BY <3>1, <3>2
  <2> QED  BY <2>1, <2>2
<1> QED  BY <1>2, <1>5, <1>6 DEF At, Turn

\* The first turn of a session is in order
LEMMA StartsInOrder ==
    ASSUME IInv, NEW s \in Sessions, UNCHANGED practice,
           \A g \in Handlers : job'[g] = job[g] \/ job'[g] = Turn(s, 0, TRUE)
    PROVE  TurnsInOrder'
<1> SUFFICES ASSUME NEW g \in Handlers, At(g, "turn")'
             PROVE  (job[g].number <= practice[job[g].session].finished + 1)'
  BY DEF TurnsInOrder
<1>1. CASE job'[g] = job[g]
  BY <1>1 DEF IInv, TurnsInOrder, At
<1>2. CASE job'[g] = Turn(s, 0, TRUE)
  <2>1. practice[s].finished \in Int /\ practice[s].finished >= -1
    BY DEF IInv, TypeOK
  <2> QED  BY <1>2, <2>1 DEF Turn
<1> QED  BY <1>1, <1>2

LEMMA InsertVersionStep ==
    ASSUME IInv, NEW h \in Handlers, InsertVersion(h)
    PROVE  IInv'
<1> DEFINE s == job[h].session
           n == Latest + 1
<1>1. /\ s \in Sessions /\ Latest \in 0..(MaxVersions - 1) /\ attempt[s].status = "none"
      /\ ~ archived
      /\ UNCHANGED <<archived, practice>>
  <2>1. s \in Sessions /\ job[h].sees \in 0..(MaxVersions - 1) /\ job[h].sees = Latest
    BY JobFields DEF IInv, InsertVersion, MayInsert
  <2> QED  BY <2>1 DEF IInv, LockKeepsOpen, InsertVersion, MayInsert
<1>2. /\ versions' \in Seq(Sessions) /\ Latest' = n /\ n \in 1..MaxVersions
      /\ versions'[n] = s /\ \A v \in 1..Latest : versions'[v] = versions[v]
  BY <1>1, AssessmentsAssumption DEF IInv, TypeOK, InsertVersion, Latest
<1>3. /\ attempt' \in [Sessions -> Attempt]
      /\ attempt'[s].status = "in_progress" /\ attempt'[s].version = n
      /\ \A r \in Sessions : r # s => attempt'[r] = attempt[r]
      /\ \A r \in Sessions : (attempt'[r].status = "none") <=> (attempt'[r] = NoAttempt)
      /\ job' \in [Handlers -> Job]
      /\ \A g \in Handlers : ~ At(g, "turn")' => g # h /\ job'[g] = job[g]
      /\ \A g \in Handlers : job'[g] = job[g] \/ job'[g] = Turn(s, 0, TRUE)
  BY <1>1, <1>2, StartedType DEF InsertVersion
<1>4. TypeOK'
  BY <1>1, <1>2, <1>3 DEF IInv, TypeOK
<1>5. AuthorsAttempt'
  <2> SUFFICES ASSUME NEW v \in 1..n
               PROVE  attempt'[versions'[v]].status # "none" /\ attempt'[versions'[v]].version = v
    BY <1>2 DEF AuthorsAttempt
  <2>1. CASE v = n
    BY <2>1, <1>2, <1>3
  <2>2. CASE v # n
    <3>1. v \in 1..Latest /\ versions[v] \in Sessions
      BY <2>2, <1>1 DEF IInv, TypeOK, Latest
    <3>2. attempt[versions[v]].status # "none" /\ attempt[versions[v]].version = v
      BY <3>1 DEF IInv, AuthorsAttempt
    <3> QED  BY <1>1, <1>2, <1>3, <3>1, <3>2
  <2> QED  BY <2>1, <2>2
<1>6. VersionsExist'
  <2>1. ASSUME NEW r \in Sessions PROVE attempt'[r].version <= n
    <3>1. attempt[r].version \in Int /\ attempt[r].version <= Latest
      BY DEF IInv, VersionsExist, TypeOK, Attempt
    <3>2. CASE r = s
      BY <3>2, <1>2, <1>3
    <3>3. CASE r # s
      BY <3>1, <3>3, <1>1, <1>3
    <3> QED  BY <3>2, <3>3
  <2>2. \A g \in Handlers : At(g, "repeat")' => job'[g].version <= n
    <3> SUFFICES ASSUME NEW g \in Handlers, At(g, "repeat")' PROVE job'[g].version <= n
      OBVIOUS
    <3>1. job'[g] = job[g] /\ At(g, "repeat")
      BY <1>3 DEF At
    <3>2. job[g].version \in Int /\ job[g].version <= Latest
      BY <3>1, JobFields DEF IInv, VersionsExist
    <3> QED  BY <3>1, <3>2, <1>1
  <2> QED  BY <1>2, <2>1, <2>2 DEF VersionsExist
<1>7. LockKeepsOpen' /\ ArchivalEndsGenerated'
  BY <1>1 DEF LockKeepsOpen, ArchivalEndsGenerated
<1>8. ClosesFinished'
  BY <1>1, <1>3 DEF IInv, ClosesFinished, At, Finished
<1>9. CompletedIsFinished'
  BY <1>1, <1>3 DEF IInv, CompletedIsFinished, Finished
<1>10. TurnsInOrder'
  BY <1>1, <1>3, StartsInOrder
<1> QED  BY <1>4, <1>5, <1>6, <1>7, <1>8, <1>9, <1>10 DEF IInv

LEMMA InsertAttemptStep ==
    ASSUME IInv, NEW h \in Handlers, InsertAttempt(h)
    PROVE  IInv'
<1> DEFINE s == job[h].session
           n == job[h].version
<1>1. /\ s \in Sessions /\ n \in 1..MaxVersions /\ n <= Latest /\ attempt[s].status = "none"
      /\ UNCHANGED <<versions, archived, practice>> /\ Latest' = Latest
  BY JobFields DEF IInv, InsertAttempt, VersionsExist, Latest
<1>2. \A v \in 1..Latest : versions[v] \in Sessions /\ versions[v] # s
  BY <1>1 DEF IInv, TypeOK, AuthorsAttempt, Latest
<1>3. /\ attempt' \in [Sessions -> Attempt]
      /\ attempt'[s].status = "in_progress" /\ attempt'[s].version = n
      /\ \A r \in Sessions : r # s => attempt'[r] = attempt[r]
      /\ \A r \in Sessions : (attempt'[r].status = "none") <=> (attempt'[r] = NoAttempt)
      /\ job' \in [Handlers -> Job]
      /\ \A g \in Handlers : ~ At(g, "turn")' => g # h /\ job'[g] = job[g]
      /\ \A g \in Handlers : job'[g] = job[g] \/ job'[g] = Turn(s, 0, TRUE)
  BY <1>1, StartedType DEF InsertAttempt
<1>4. TypeOK'
  BY <1>1, <1>3 DEF IInv, TypeOK
<1>5. AuthorsAttempt'
  BY <1>1, <1>2, <1>3 DEF IInv, AuthorsAttempt
<1>6. VersionsExist'
  BY <1>1, <1>3 DEF IInv, VersionsExist, At
<1>7. LockKeepsOpen' /\ ClosesFinished' /\ CompletedIsFinished'
  BY <1>1, <1>3 DEF IInv, LockKeepsOpen, ClosesFinished, CompletedIsFinished, At, Finished
<1>8. ArchivalEndsGenerated'
  BY <1>1, <1>2, <1>3 DEF IInv, ArchivalEndsGenerated, InProgress
<1>9. TurnsInOrder'
  BY <1>1, <1>3, StartsInOrder
<1> QED  BY <1>4, <1>5, <1>6, <1>7, <1>8, <1>9 DEF IInv

\* What an update WHERE status = 'in_progress' does, whoever is in S
LEMMA EndedType ==
    ASSUME IInv, NEW S, NEW status \in {"failed", "completed"}, EndAttempts(S, status)
    PROVE  /\ attempt' \in [Sessions -> Attempt]
           /\ \A r \in Sessions :
                /\ attempt'[r].version = attempt[r].version
                /\ (attempt'[r].status = "none") <=> (attempt[r].status = "none")
                /\ (attempt'[r].status = "none") <=> (attempt'[r] = NoAttempt)
                /\ attempt'[r] # attempt[r] =>
                    r \in S /\ InProgress(r) /\ attempt'[r].status = status
                /\ InProgress(r)' => InProgress(r) /\ r \notin S
<1>1. attempt \in [Sessions -> Attempt]
  BY DEF IInv, TypeOK
<1>2. attempt' \in [Sessions -> Attempt]
  BY <1>1 DEF EndAttempts, Attempt
<1>3. ASSUME NEW r \in Sessions
      PROVE  /\ attempt'[r].version = attempt[r].version
             /\ attempt'[r].status = IF r \in S /\ InProgress(r) THEN status ELSE attempt[r].status
             /\ attempt'[r] # attempt[r] => r \in S /\ InProgress(r)
  BY <1>1 DEF EndAttempts, Attempt
<1>4. \A r \in Sessions : (attempt'[r].status = "none") <=> (attempt[r].status = "none")
  BY <1>3 DEF InProgress
<1>5. \A r \in Sessions : (attempt'[r].status = "none") <=> (attempt'[r] = NoAttempt)
  BY <1>3, <1>4 DEF IInv, TypeOK, NoAttempt
<1> QED  BY <1>2, <1>3, <1>4, <1>5 DEF InProgress

\* An update of attempts that completes only finished ones keeps the invariant
LEMMA EndAttemptsInv ==
    ASSUME IInv, NEW S, NEW status \in {"failed", "completed"}, EndAttempts(S, status),
           UNCHANGED <<versions, practice>>,
           job' \in [Handlers -> Job],
           \A g \in Handlers : job'[g] = job[g] \/ job'[g] = Idle,
           archived' \in BOOLEAN, archived' => Latest > 0,
           ~ RowLocked \/ archived' = archived,
           archived' => archived \/ S = Sessions,
           status = "completed" => \A r \in S : r \in Sessions => Finished(r)
    PROVE  IInv'
<1>1. /\ attempt' \in [Sessions -> Attempt]
      /\ \A r \in Sessions :
            /\ attempt'[r].version = attempt[r].version
            /\ (attempt'[r].status = "none") <=> (attempt[r].status = "none")
            /\ (attempt'[r].status = "none") <=> (attempt'[r] = NoAttempt)
            /\ attempt'[r] # attempt[r] => r \in S /\ InProgress(r) /\ attempt'[r].status = status
            /\ InProgress(r)' => InProgress(r) /\ r \notin S
  BY EndedType
<1>2. TypeOK' /\ Latest' = Latest
  BY <1>1 DEF IInv, TypeOK, Latest
<1>3. AuthorsAttempt'
  BY <1>1, <1>2 DEF IInv, TypeOK, AuthorsAttempt, Latest
<1>4. VersionsExist'
  BY <1>1, <1>2 DEF IInv, VersionsExist, At, Idle
<1>5. LockKeepsOpen'
  <2>1. ASSUME NEW g \in Handlers, At(g, "generate")', job'[g].sees > 0 PROVE ~ archived'
    <3>1. job'[g] = job[g] /\ At(g, "generate")
      BY <2>1 DEF At, Idle
    <3>2. RowLocked /\ ~ archived
      BY <2>1, <3>1 DEF IInv, LockKeepsOpen, RowLocked
    <3> QED  BY <3>2
  <2> QED  BY <1>2, <2>1 DEF LockKeepsOpen
<1>6. ClosesFinished' /\ TurnsInOrder'
  BY DEF IInv, TurnsInOrder, ClosesFinished, At, Idle, Finished
<1>7. CompletedIsFinished'
  BY <1>1 DEF IInv, CompletedIsFinished, Finished
<1>8. ArchivalEndsGenerated'
  BY <1>1, <1>2 DEF IInv, TypeOK, ArchivalEndsGenerated, Latest
<1> QED  BY <1>2, <1>3, <1>4, <1>5, <1>6, <1>7, <1>8 DEF IInv

\* A handler that comes to rest, with nothing else changed but the progress of
\* a practice
LEMMA ProgressInv ==
    ASSUME IInv, UNCHANGED <<versions, archived, attempt>>,
           practice' \in [Sessions -> [begun : -1..Questions, finished : -1..Questions]],
           \A r \in Sessions : /\ practice'[r].begun - practice'[r].finished \in {0, 1}
                               /\ practice'[r].finished >= practice[r].finished,
           job' \in [Handlers -> Job],
           \A g \in Handlers :
               \/ job'[g] = job[g] \/ job'[g] = Idle
               \/ job'[g].step = "withdraw"
               \/ (At(g, "close") /\ Finished(job[g].session))'
    PROVE  IInv'
<1>1. TypeOK' /\ Latest' = Latest
  BY DEF IInv, TypeOK, Latest
<1>2. \A r \in Sessions : Finished(r) => Finished(r)'
  BY AssessmentsAssumption DEF IInv, TypeOK, Finished
<1>3. AuthorsAttempt' /\ VersionsExist' /\ LockKeepsOpen' /\ ArchivalEndsGenerated'
  BY <1>1 DEF IInv, AuthorsAttempt, VersionsExist, LockKeepsOpen, ArchivalEndsGenerated,
              InProgress, At, Idle
<1>4. ClosesFinished'
  <2> SUFFICES ASSUME NEW g \in Handlers, At(g, "close")'
               PROVE  Finished(job[g].session)'
    BY DEF ClosesFinished
  <2>1. CASE job'[g] = job[g]
    <3>1. At(g, "close") /\ job[g].session \in Sessions
      BY <2>1, JobFields DEF IInv, At
    <3>2. Finished(job[g].session)
      BY <3>1 DEF IInv, ClosesFinished
    <3> QED  BY <2>1, <3>1, <3>2, <1>2 DEF Finished
  <2> QED  BY <2>1 DEF Idle, At
<1>5. CompletedIsFinished'
  BY <1>2 DEF IInv, CompletedIsFinished
<1>6. TurnsInOrder'
  <2> SUFFICES ASSUME NEW g \in Handlers, At(g, "turn")'
               PROVE  (job[g].number <= practice[job[g].session].finished + 1)'
    BY DEF TurnsInOrder
  <2>1. job'[g] = job[g] /\ At(g, "turn")
    BY DEF At, Idle
  <2>2. job[g].session \in Sessions /\ job[g].number \in Int
    BY <2>1, JobFields DEF IInv
  <2>3. job[g].number <= practice[job[g].session].finished + 1
    BY <2>1 DEF IInv, TurnsInOrder
  <2>4. /\ practice[job[g].session].finished \in Int
        /\ practice'[job[g].session].finished \in Int
        /\ practice'[job[g].session].finished >= practice[job[g].session].finished
    BY <2>2 DEF IInv, TypeOK
  <2> QED  BY <2>1, <2>2, <2>3, <2>4
<1> QED  BY <1>1, <1>3, <1>4, <1>5, <1>6 DEF IInv

LEMMA RestStep ==
    ASSUME IInv, NEW h \in Handlers,
           RefuseVersion(h) \/ RefuseAttempt(h) \/ FailTurn(h) \/ Crash(h)
    PROVE  IInv'
<1>1. PICK next \in Job : GoOn(h, next) /\ (next = Idle \/ next.step = "withdraw")
  <2>1. Idle \in Job
    BY DEF Job
  <2>2. CASE FailTurn(h) /\ job[h].starts
    <3>1. [step |-> "withdraw", session |-> job[h].session] \in Job
      BY <2>2, JobFields DEF IInv, FailTurn, Job
    <3> QED  BY <2>2, <3>1 DEF FailTurn
  <2> QED  BY <2>1, <2>2 DEF RefuseVersion, RefuseAttempt, FailTurn, Crash
<1>2. UNCHANGED <<versions, archived, attempt, practice>>
  BY DEF RefuseVersion, RefuseAttempt, FailTurn, Crash
<1>3. /\ job' \in [Handlers -> Job] /\ job'[h] = next
      /\ \A g \in Handlers : g # h => job'[g] = job[g]
  BY <1>1, GoOnType DEF IInv
<1>4. /\ practice \in [Sessions -> [begun : -1..Questions, finished : -1..Questions]]
      /\ \A r \in Sessions : practice[r].begun - practice[r].finished \in {0, 1}
  BY DEF IInv, TypeOK
<1>5. \A r \in Sessions : practice'[r].finished >= practice[r].finished
  BY <1>2, <1>4
<1> QED  BY <1>1, <1>2, <1>3, <1>4, <1>5, ProgressInv

LEMMA SaveCheckpointStep ==
    ASSUME IInv, NEW h \in Handlers, SaveCheckpoint(h)
    PROVE  IInv'
<1> DEFINE s == job[h].session
           q == job[h].number
           p == [begun |-> q, finished |-> practice[s].finished]
<1>1. /\ practice \in [Sessions -> [begun : -1..Questions, finished : -1..Questions]]
      /\ \A r \in Sessions : practice[r].begun - practice[r].finished \in {0, 1}
      /\ job \in [Handlers -> Job]
  BY DEF IInv, TypeOK
<1>2. /\ s \in Sessions /\ q \in 0..Questions
      /\ practice[s].begun < q /\ q <= practice[s].finished + 1
      /\ UNCHANGED <<versions, archived, attempt, job>>
  <2>1. s \in Sessions /\ q \in 0..Questions
    BY JobFields DEF IInv, SaveCheckpoint
  <2>2. q <= practice[s].finished + 1
    BY DEF IInv, TurnsInOrder, SaveCheckpoint
  <2>3. ~ (practice[s].begun >= q)
    BY DEF SaveCheckpoint, IsReplay
  <2> QED  BY <2>1, <2>2, <2>3, <1>1, AssessmentsAssumption DEF SaveCheckpoint
<1>3. practice' = [practice EXCEPT ![s] = p]
  <2>1. [practice[s] EXCEPT !.begun = q] = p
    BY <1>1, <1>2
  <2> QED  BY <2>1 DEF SaveCheckpoint
<1>4. p \in [begun : -1..Questions, finished : -1..Questions] /\ p.begun - p.finished \in {0, 1}
  BY <1>1, <1>2, AssessmentsAssumption
<1>5. /\ practice' \in [Sessions -> [begun : -1..Questions, finished : -1..Questions]]
      /\ \A r \in Sessions : /\ practice'[r].begun - practice'[r].finished \in {0, 1}
                             /\ practice'[r].finished >= practice[r].finished
  BY <1>1, <1>2, <1>3, <1>4
<1> HIDE DEF p
<1> QED  BY <1>1, <1>2, <1>5, ProgressInv

LEMMA EndTurnStep ==
    ASSUME IInv, NEW h \in Handlers, EndTurn(h)
    PROVE  IInv'
<1> DEFINE s == job[h].session
           q == job[h].number
           p == [begun |-> practice[s].begun,
                 finished |-> IF practice[s].finished < q THEN q ELSE practice[s].finished]
<1>1. /\ practice \in [Sessions -> [begun : -1..Questions, finished : -1..Questions]]
      /\ \A r \in Sessions : practice[r].begun - practice[r].finished \in {0, 1}
  BY DEF IInv, TypeOK
<1>2. /\ s \in Sessions /\ q \in 0..Questions /\ practice[s].begun >= q
      /\ UNCHANGED <<versions, archived, attempt>>
  BY JobFields DEF IInv, EndTurn, IsReplay
<1>3. practice' = [practice EXCEPT ![s] = p]
  <2>1. [practice[s] EXCEPT !.finished = IF @ < q THEN q ELSE @] = p
    BY <1>1, <1>2
  <2> QED  BY <2>1 DEF EndTurn
<1>4. /\ p \in [begun : -1..Questions, finished : -1..Questions]
      /\ p.begun - p.finished \in {0, 1}
      /\ p.finished >= practice[s].finished /\ p.finished >= q
  BY <1>1, <1>2, AssessmentsAssumption
<1>5. /\ practice' \in [Sessions -> [begun : -1..Questions, finished : -1..Questions]]
      /\ \A r \in Sessions : /\ practice'[r].begun - practice'[r].finished \in {0, 1}
                             /\ practice'[r].finished >= practice[r].finished
      /\ practice'[s].finished >= q /\ practice'[s].finished \in -1..Questions
  BY <1>1, <1>2, <1>3, <1>4
<1> HIDE DEF p
<1>6. PICK next \in Job :
        /\ GoOn(h, next)
        /\ \/ next = Idle
           \/ next = [step |-> "close", session |-> s] /\ q = Questions
  <2>1. Idle \in Job /\ [step |-> "close", session |-> s] \in Job
    BY <1>2 DEF Job
  <2> QED  BY <2>1 DEF EndTurn, Completed
<1>7. /\ job' \in [Handlers -> Job] /\ job'[h] = next
      /\ \A g \in Handlers : g # h => job'[g] = job[g]
  BY <1>6, GoOnType DEF IInv
<1>8. ASSUME next # Idle
      PROVE  (At(h, "close") /\ Finished(job[h].session))'
  <2>1. job'[h].step = "close" /\ job'[h].session = s /\ q = Questions
    BY <1>6, <1>7, <1>8
  <2> DEFINE x == practice'[s].finished
  <2>2. x = Questions
    <3>1. x >= Questions /\ x \in -1..Questions
      BY <2>1, <1>5
    <3> HIDE DEF x
    <3> QED  BY <3>1, AssessmentsAssumption
  <2> QED  BY <2>1, <2>2 DEF At, Finished
<1>9. \A g \in Handlers :
        \/ job'[g] = job[g] \/ job'[g] = Idle
        \/ job'[g].step = "withdraw"
        \/ (At(g, "close") /\ Finished(job[g].session))'
  BY <1>7, <1>8
<1> QED  BY <1>2, <1>5, <1>7, <1>9, ProgressInv

LEMMA EndingStep ==
    ASSUME IInv, NEW h \in Handlers, WithdrawAttempt(h) \/ CloseAttempt(h)
    PROVE  IInv'
<1>1. Idle \in Job
  BY DEF Job
<1>2. GoOn(h, Idle) /\ UNCHANGED <<versions, archived, practice>>
  BY DEF WithdrawAttempt, CloseAttempt
<1>3. job' \in [Handlers -> Job] /\ \A g \in Handlers : job'[g] = job[g] \/ job'[g] = Idle
  BY <1>1, <1>2, GoOnType DEF IInv
<1>4. archived' \in BOOLEAN /\ (archived' => Latest > 0)
  BY <1>2 DEF IInv, TypeOK, LockKeepsOpen
<1>5. CASE WithdrawAttempt(h)
  BY <1>2, <1>3, <1>4, <1>5, EndAttemptsInv DEF WithdrawAttempt
<1>6. CASE CloseAttempt(h)
  <2>1. Finished(job[h].session)
    BY <1>6 DEF IInv, ClosesFinished, CloseAttempt
  <2> QED  BY <1>2, <1>3, <1>4, <1>6, <2>1, EndAttemptsInv DEF CloseAttempt
<1> QED  BY <1>5, <1>6

LEMMA ArchiveStep ==
    ASSUME IInv, Archive
    PROVE  IInv'
  BY EndAttemptsInv DEF Archive, IInv, TypeOK

LEMMA RestoreStep ==
    ASSUME IInv, Restore
    PROVE  IInv'
<1> USE DEF Restore
<1>1. TypeOK' /\ Latest' = Latest
  BY DEF IInv, TypeOK, Latest
<1>2. AuthorsAttempt' /\ VersionsExist' /\ TurnsInOrder'
  BY <1>1 DEF IInv, AuthorsAttempt, VersionsExist, TurnsInOrder, At
<1>3. LockKeepsOpen' /\ ArchivalEndsGenerated'
  BY DEF LockKeepsOpen, ArchivalEndsGenerated
<1>4. ClosesFinished' /\ CompletedIsFinished'
  BY DEF IInv, ClosesFinished, CompletedIsFinished, At, Finished
<1> QED  BY <1>1, <1>2, <1>3, <1>4 DEF IInv

LEMMA NextInv == IInv /\ [Next]_vars => IInv'
<1> SUFFICES ASSUME IInv, [Next]_vars PROVE IInv'
  OBVIOUS
<1>1. ASSUME NEW h \in Handlers, Requests(h) \/ Work(h) \/ Crash(h) PROVE IInv'
  BY <1>1, RequestStep, RestStep, InsertVersionStep, InsertAttemptStep, SaveCheckpointStep,
     EndTurnStep, EndingStep DEF Work, Ends
<1>2. CASE UNCHANGED vars
  <2> USE <1>2 DEF vars
  <2>1. TypeOK' /\ Latest' = Latest
    BY DEF IInv, TypeOK, Latest
  <2>2. AuthorsAttempt' /\ VersionsExist' /\ TurnsInOrder' /\ LockKeepsOpen'
    BY <2>1 DEF IInv, AuthorsAttempt, VersionsExist, TurnsInOrder, LockKeepsOpen, At
  <2>3. ClosesFinished' /\ CompletedIsFinished' /\ ArchivalEndsGenerated'
    BY <2>1 DEF IInv, ClosesFinished, CompletedIsFinished, ArchivalEndsGenerated, At, Finished, InProgress
  <2> QED  BY <2>1, <2>2, <2>3 DEF IInv
<1> QED  BY <1>1, <1>2, ArchiveStep, RestoreStep DEF Next

-----------------------------------------------------------------------------
(* The theorems *)

LEMMA Invariance == Spec => []IInv
<1>1. Init => IInv
  BY InitInv
<1>2. IInv /\ [Next]_vars => IInv'
  BY NextInv
<1> QED  BY <1>1, <1>2, PTL DEF Spec

\* The tables and the handlers keep their types, and a practice is never more
\* than one answer ahead of what it has finished.
THEOREM TypeCorrect == Spec => []TypeOK
  BY Invariance, PTL DEF IInv

\* Only a practice whose catalogue is answered completes its attempt.
THEOREM CompletedIsFinishedHolds == Spec => []CompletedIsFinished
  BY Invariance, PTL DEF IInv

\* A generated version never slips past an archival: in an archived assessment
\* its attempt has ended.
THEOREM ArchivalEndsGeneratedHolds == Spec => []ArchivalEndsGenerated
  BY Invariance, PTL DEF IInv

\* Whoever races for the end of an attempt, the first one stands.
THEOREM AttemptsEndOnceHolds == Spec => AttemptsEndOnce
<1> DEFINE Stands == \A s \in Sessions :
                        attempt[s].status \in {"completed", "failed"} => attempt'[s] = attempt[s]
<1>1. ASSUME IInv, [Next]_vars PROVE [Stands]_vars
  <2> SUFFICES ASSUME Next PROVE Stands
    BY <1>1
  <2>1. CASE UNCHANGED attempt
    BY <2>1
  <2>2. ASSUME NEW S, NEW status \in {"failed", "completed"}, EndAttempts(S, status) PROVE Stands
    BY <1>1, <2>2, EndedType DEF InProgress
  <2>3. ASSUME NEW h \in Handlers, InsertVersion(h) \/ InsertAttempt(h) PROVE Stands
    BY <2>3, <1>1 DEF InsertVersion, InsertAttempt, MayInsert, Started, IInv, TypeOK
  <2>4. ASSUME NEW h \in Handlers, Requests(h) \/ Work(h) \/ Crash(h) PROVE Stands
    <3>1. CASE Requests(h) \/ Crash(h)
      BY <3>1, <2>1 DEF Requests, ReadAssessment, ReadVersion, Answer, Resume, Crash
    <3>2. CASE WithdrawAttempt(h) \/ CloseAttempt(h)
      BY <3>2, <2>2 DEF WithdrawAttempt, CloseAttempt
    <3>3. CASE RefuseVersion(h) \/ RefuseAttempt(h) \/ SaveCheckpoint(h) \/ EndTurn(h) \/ FailTurn(h)
      BY <3>3, <2>1 DEF RefuseVersion, RefuseAttempt, SaveCheckpoint, EndTurn, FailTurn
    <3> QED  BY <2>3, <2>4, <3>1, <3>2, <3>3 DEF Work, Ends
  <2> QED  BY <2>1, <2>2, <2>4 DEF Next, Archive, Restore
<1> QED  BY <1>1, Invariance, PTL DEF Spec, AttemptsEndOnce

(***************************************************************************)
(* Grade reviews.                                                          *)
(***************************************************************************)
ReviewInv == IInv /\ ReviewTypeOK

LEMMA ReviewInitInv == ReviewInit => ReviewInv
<1> SUFFICES ASSUME ReviewInit PROVE ReviewInv
  OBVIOUS
<1>1. IInv /\ TypeOK
  BY InitInv DEF ReviewInit, IInv
<1>2. chain = {} /\ deciding = {} /\ asked = 0
  BY DEF ReviewInit
<1> QED  BY <1>1, <1>2, ReviewsAssumption
         DEF ReviewInv, ReviewTypeOK

\* A review request does not touch what Assessments is about
LEMMA AssessmentsKept ==
    ASSUME IInv, UNCHANGED vars
    PROVE  IInv' /\ TypeOK'
  BY NextInv DEF IInv

\* The chain grows by one event of a new key, or not at all
LEMMA AppendedOK ==
    ASSUME ReviewTypeOK, NEW e \in Event
    PROVE  /\ Appended(e) \subseteq Event
           /\ \A f, g \in Appended(e) : f.key = g.key => f = g
  BY DEF ReviewTypeOK, Appended, IsKnown

LEMMA DisputeStep ==
    ASSUME ReviewInv, NEW key \in Keys, Dispute(key)
    PROVE  ReviewInv'
<1> DEFINE e == [key |-> key, action |-> "dispute"]
<1>1. e \in Event
  BY DEF Event
<1>2. chain' = Appended(e) /\ UNCHANGED <<vars, deciding>> /\ asked' \in 0..MaxReviews
  BY ReviewsAssumption DEF Dispute, Ask, ReviewInv, ReviewTypeOK
<1>3. /\ chain' \subseteq Event
      /\ \A f, g \in chain' : f.key = g.key => f = g
  BY <1>1, <1>2, AppendedOK DEF ReviewInv
<1>4. IInv' /\ TypeOK'
  BY <1>2, AssessmentsKept DEF ReviewInv
<1>5. ReviewTypeOK'
  BY <1>2, <1>3, <1>4 DEF ReviewInv, ReviewTypeOK
<1> QED  BY <1>4, <1>5 DEF ReviewInv

LEMMA DisposeStep ==
    ASSUME ReviewInv, NEW key \in Keys, Dispose(key)
    PROVE  ReviewInv'
<1> DEFINE e == [key |-> key, action |-> "dispose"]
<1>1. e \in Event
  BY DEF Event
<1>2. /\ deciding' = deciding \union {e}
      /\ UNCHANGED <<vars, chain>> /\ asked' \in 0..MaxReviews
  BY ReviewsAssumption DEF Dispose, Ask, ReviewInv, ReviewTypeOK
<1>3. IInv' /\ TypeOK'
  BY <1>2, AssessmentsKept DEF ReviewInv
<1>4. ReviewTypeOK'
  BY <1>1, <1>2, <1>3 DEF ReviewInv, ReviewTypeOK
<1> QED  BY <1>3, <1>4 DEF ReviewInv

LEMMA AppendDispositionStep ==
    ASSUME ReviewInv, NEW e \in deciding, AppendDisposition(e)
    PROVE  ReviewInv'
<1>1. e \in Event
  BY DEF ReviewInv, ReviewTypeOK
<1>2. chain' = Appended(e) /\ deciding' = deciding \ {e} /\ UNCHANGED <<vars, asked>>
  BY DEF AppendDisposition
<1>3. /\ chain' \subseteq Event
      /\ \A f, g \in chain' : f.key = g.key => f = g
  BY <1>1, <1>2, AppendedOK DEF ReviewInv
<1>4. IInv' /\ TypeOK'
  BY <1>2, AssessmentsKept DEF ReviewInv
<1>5. ReviewTypeOK'
  BY <1>2, <1>3, <1>4 DEF ReviewInv, ReviewTypeOK
<1> QED  BY <1>4, <1>5 DEF ReviewInv

LEMMA OtherStep ==
    ASSUME ReviewInv, [Next]_vars, UNCHANGED reviewVars
    PROVE  ReviewInv'
<1>1. IInv' /\ TypeOK'
  BY NextInv DEF ReviewInv, IInv
<1> QED  BY <1>1 DEF ReviewInv, ReviewTypeOK, reviewVars

LEMMA ReviewNextInv == ReviewInv /\ [ReviewNext]_<<vars, reviewVars>> => ReviewInv'
  BY OtherStep, DisputeStep, DisposeStep, AppendDispositionStep DEF ReviewNext, ReviewStep

LEMMA ReviewInvariance == ReviewSpec => []ReviewInv
<1>1. ReviewInit => ReviewInv
  BY ReviewInitInv
<1>2. ReviewInv /\ [ReviewNext]_<<vars, reviewVars>> => ReviewInv'
  BY ReviewNextInv
<1> QED  BY <1>1, <1>2, PTL DEF ReviewSpec

-----------------------------------------------------------------------------
(* The theorems *)

\* Composed with review requests, the assessments keep their types; a chain
\* holds one event per idempotency key.
THEOREM ReviewTypeCorrect == ReviewSpec => []ReviewTypeOK
  BY ReviewInvariance, PTL DEF ReviewInv

\* A specification of the composition is one of the assessments, so what holds
\* of these holds of it.
THEOREM ReviewsImplementAssessments == ReviewSpec => Spec
<1>1. ReviewInit => Init
  BY DEF ReviewInit
<1>2. [ReviewNext]_<<vars, reviewVars>> => [Next]_vars
  BY DEF ReviewNext, ReviewStep, Dispute, Dispose, AppendDisposition
<1> QED  BY <1>1, <1>2, PTL DEF ReviewSpec, Spec
=============================================================================
