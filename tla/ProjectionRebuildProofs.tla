---------------------- MODULE ProjectionRebuildProofs ----------------------
(* Proofs about ProjectionRebuild, for any number of events, pages of any
   size and any number of rebuilds at a time. *)
EXTENDS ProjectionRebuild, FiniteSetTheorems, WellFoundedInduction, TLAPS

(***************************************************************************)
(* The largest member of a finite set of numbers.                          *)
(***************************************************************************)
\* A finite set of numbers that is not empty has a largest member: of the sets
\* of those above a member, one is minimal, and it is empty.
LEMMA FiniteMax ==
    ASSUME NEW S \in SUBSET Nat, IsFiniteSet(S), S # {}
    PROVE  \E t \in S : \A u \in S : u <= t
<1> DEFINE Above(x) == {y \in S : y > x}
           T == {Above(x) : x \in S}
<1>1. T \subseteq FiniteSubsetsOf(S) /\ T # {}
  <2>1. ASSUME NEW x \in S
        PROVE  Above(x) \in FiniteSubsetsOf(S)
    <3>1. Above(x) \in SUBSET S
      OBVIOUS
    <3> HIDE DEF Above
    <3>2. IsFiniteSet(Above(x))
      BY <3>1, FS_Subset
    <3> QED  BY <3>1, <3>2 DEF FiniteSubsetsOf
  <2> HIDE DEF Above
  <2> QED  BY <2>1
<1>2. PICK A \in T : \A B \in T : <<B, A>> \notin StrictSubsetOrdering(S)
  <2> HIDE DEF T
  <2> QED  BY <1>1, FS_StrictSubsetOrderingWellFounded, WFMin
<1>3. PICK x \in S : A = Above(x)
  BY <1>2
<1>4. ASSUME NEW y \in S, ~ (y <= x)
      PROVE  FALSE
  <2>1. y \in Above(x) /\ y \notin Above(y)
    BY <1>4
  <2>2. Above(y) \subseteq Above(x)
    <3> SUFFICES ASSUME NEW z \in S, z > y
                 PROVE  z > x
      OBVIOUS
    <3>1. x \in Nat /\ y \in Nat /\ z \in Nat
      OBVIOUS
    <3> QED  BY <1>4, <3>1
  <2>3. <<Above(y), Above(x)>> \in StrictSubsetOrdering(S)
    BY <2>1, <2>2 DEF StrictSubsetOrdering
  <2> QED  BY <1>2, <1>3, <2>3
<1> QED  BY <1>4

\* The values of a function on a finite set are finitely many.
LEMMA FiniteImage ==
    ASSUME NEW S, IsFiniteSet(S), NEW f, f = [x \in S |-> f[x]]
    PROVE  IsFiniteSet({f[x] : x \in S})
<1> DEFINE T == {f[x] : x \in S}
<1>1. f \in Surjection(S, T)
  BY DEF Surjection
<1> HIDE DEF T
<1>2. IsFiniteSet(T)
  BY <1>1, FS_Surjection
<1> QED  BY <1>2 DEF T

\* .. and a smallest one: the one that is farthest below a given member.
LEMMA FiniteMin ==
    ASSUME NEW S \in SUBSET Nat, IsFiniteSet(S), S # {}
    PROVE  \E t \in S : \A u \in S : t <= u
<1>1. PICK d \in S : \A u \in S : u <= d
  BY FiniteMax
<1> DEFINE f == [x \in S |-> d - x]
           T == {f[x] : x \in S}
<1>2. IsFiniteSet(T)
  <2>1. f = [x \in S |-> f[x]]
    OBVIOUS
  <2> HIDE DEF f
  <2> QED  BY <2>1, FiniteImage
<1>3. \A x \in S : f[x] = d - x /\ f[x] \in Nat /\ x \in Nat /\ d \in Nat
  BY <1>1
<1> HIDE DEF f
<1>4. T \subseteq Nat /\ T # {}
  BY <1>3
<1>5. PICK t \in T : \A u \in T : u <= t
  <2> HIDE DEF T
  <2> QED  BY <1>2, <1>4, FiniteMax
<1>6. PICK m \in S : t = f[m]
  OBVIOUS
<1>7. ASSUME NEW u \in S
      PROVE  m <= u
  <2>1. f[u] <= f[m]
    BY <1>5, <1>6
  <2> QED  BY <1>3, <2>1
<1> QED  BY <1>7

(***************************************************************************)
(* Pages.                                                                  *)
(***************************************************************************)
\* The watermark is the last event read.
LEMMA WatermarkIs ==
    ASSUME NEW events \in SUBSET Events
    PROVE  /\ Watermark(events) \in events \cup {0}
           /\ \A e \in events : e <= Watermark(events)
<1>1. IsFiniteSet(events) /\ IsFiniteSet(events \cup {0})
  <2>1. IsFiniteSet(Events)
    BY RebuildAssumption, FS_Interval DEF Events
  <2>2. IsFiniteSet(events)
    BY <2>1, FS_Subset
  <2> QED  BY <2>2, FS_AddElement
<1>2. events \cup {0} \subseteq Nat
  BY RebuildAssumption DEF Events
<1>3. \E t \in events \cup {0} : \A u \in events \cup {0} : u <= t
  BY <1>1, <1>2, FiniteMax
<1>4. \E t \in events \cup {0} : \A u \in events : u <= t
  BY <1>3
<1> QED  BY <1>4 DEF Watermark

\* An event that is recorded, and not read, comes after every page read so far,
\* and a page that leaves it out is full.
LEMMA PageIs ==
    ASSUME recorded \subseteq Events, NEW events \in SUBSET Events,
           NEW page, page = NextPage(events),
           NEW d \in recorded, d \in events \/ d > Watermark(events),
           d \notin events \cup page
    PROVE  d > Watermark(events \cup page) /\ ~(Cardinality(page) < PageSize)
<1> DEFINE later == {x \in recorded : x > Watermark(events)}
           Below(y) == {x \in later : x < y}
<1>1. /\ page = {x \in later : Cardinality(Below(x)) < PageSize}
      /\ d \in later /\ d \in Nat /\ later \subseteq Nat /\ page \subseteq later
      /\ later \subseteq Events
  <2>1. page = {x \in later : Cardinality(Below(x)) < PageSize}
    BY DEF NextPage
  <2>2. later \subseteq Events /\ d \in later
    OBVIOUS
  <2>3. Events \subseteq Nat
    BY RebuildAssumption DEF Events
  <2> HIDE DEF later, Below
  <2> QED  BY <2>1, <2>2, <2>3
<1>2. IsFiniteSet(later) /\ IsFiniteSet(page)
  <2>1. IsFiniteSet(Events)
    BY RebuildAssumption, FS_Interval DEF Events
  <2>2. IsFiniteSet(later)
    <3> HIDE DEF later
    <3> QED  BY <1>1, <2>1, FS_Subset
  <2> HIDE DEF later
  <2> QED  BY <1>1, <2>2, FS_Subset
<1> HIDE DEF later
<1>3. \A y : Below(y) \subseteq later /\ IsFiniteSet(Below(y)) /\ Cardinality(Below(y)) \in Nat
  <2> SUFFICES ASSUME NEW y
               PROVE  IsFiniteSet(Below(y)) /\ Cardinality(Below(y)) \in Nat
    OBVIOUS
  <2>1. Below(y) \subseteq later
    OBVIOUS
  <2> HIDE DEF Below
  <2> QED  BY <1>2, <2>1, FS_Subset, FS_CardinalityType
<1>4. \A y \in later \ page : PageSize <= Cardinality(Below(y))
  <2> SUFFICES ASSUME NEW y \in later \ page
               PROVE  PageSize <= Cardinality(Below(y))
    OBVIOUS
  <2>1. ~(Cardinality(Below(y)) < PageSize)
    BY <1>1
  <2> HIDE DEF Below
  <2> QED  BY <1>3, <2>1, RebuildAssumption
<1>5. ASSUME NEW x \in page
      PROVE  x < d
  <2> SUFFICES ASSUME d <= x
               PROVE  FALSE
    BY <1>1
  <2>1. Below(d) \subseteq Below(x)
    <3> SUFFICES ASSUME NEW y \in later, y < d
                 PROVE  y < x
      OBVIOUS
    <3>1. y \in Nat /\ d \in Nat /\ x \in Nat
      BY <1>1
    <3> QED  BY <3>1
  <2>2. Cardinality(Below(x)) < PageSize
    BY <1>1
  <2> HIDE DEF Below
  <2>3. Cardinality(Below(d)) <= Cardinality(Below(x))
    BY <1>3, <2>1, FS_Subset
  <2>4. PageSize <= Cardinality(Below(d))
    BY <1>1, <1>4
  <2> QED  BY <1>3, <2>2, <2>3, <2>4, RebuildAssumption
<1>6. d > Watermark(events \cup page)
  <2>1. events \cup page \in SUBSET Events
    BY <1>1
  <2>2. Watermark(events \cup page) \in events \cup page \cup {0}
    BY <2>1, WatermarkIs
  <2>3. \A x \in events \cup {0} : x < d
    <3>1. /\ Watermark(events) \in events \cup {0}
          /\ \A x \in events : x <= Watermark(events)
      BY WatermarkIs
    <3>2. events \cup {0} \subseteq Nat /\ d > 0
      BY RebuildAssumption DEF Events
    <3>3. d > Watermark(events) /\ Watermark(events) \in Nat
      BY <3>1, <3>2
    <3>4. ASSUME NEW x \in events
          PROVE  x < d
      <4>1. x \in Nat /\ x <= Watermark(events)
        BY <3>1, <3>2
      <4> QED  BY <1>1, <3>3, <4>1
    <3> QED  BY <3>2, <3>4
  <2> QED  BY <1>1, <1>5, <2>2, <2>3
<1>7. ~(Cardinality(page) < PageSize)
  <2> DEFINE left == later \ page
  <2>1. left \subseteq Nat /\ IsFiniteSet(left) /\ left # {}
    BY <1>1, <1>2, FS_Difference
  <2>2. PICK m \in left : \A u \in left : m <= u
    <3> HIDE DEF left
    <3> QED  BY <2>1, FiniteMin
  <2>3. Below(m) \subseteq page
    <3> SUFFICES ASSUME NEW y \in later, y < m, y \notin page
                 PROVE  FALSE
      OBVIOUS
    <3>1. y \in Nat /\ m \in Nat /\ m <= y
      BY <1>1, <2>2
    <3> QED  BY <3>1
  <2>4. PageSize <= Cardinality(Below(m))
    BY <1>4, <2>2
  <2> HIDE DEF Below
  <2>5. Cardinality(Below(m)) <= Cardinality(page) /\ Cardinality(page) \in Nat
    BY <1>2, <2>3, FS_Subset, FS_CardinalityType
  <2> QED  BY <1>3, <2>4, <2>5, RebuildAssumption
<1> QED  BY <1>6, <1>7

(***************************************************************************)
(* The inductive invariant.                                                *)
(***************************************************************************)
\* What was read and stored is of L1 and L2.
Resting == {"none", "owed", "done"}

ReadsOK ==
    /\ IsFiniteSet(snapshots)
    /\ \A s \in snapshots : s.events \subseteq recorded /\ s.memories \subseteq counted
    /\ \A e \in Events :
        /\ job[e].events \subseteq recorded
        /\ job[e].memories \subseteq counted
        /\ e \notin recorded => job[e].pc = "none"
        /\ job[e].pc \in Resting => job[e].events = {}

\* Whether readers find event d in the student model
Shown(d) == snapshots # {} /\ d \in Latest.memories

\* What a rebuild has read so far leaves out nothing that snapshot s holds: an
\* event that was not read yet comes in a later page.
Includes(j, s) ==
    /\ j.pc = "events" => \A d \in s.events : d \in j.events \/ d > Watermark(j.events)
    /\ j.pc \in {"memories", "clear", "clearing", "save"} => s.events \subseteq j.events
    /\ j.pc \in {"clear", "clearing", "save"} => s.memories \subseteq j.memories

\* While rebuilds do not overlap: the one that runs started after all that is
\* stored and includes it, and what it did not read of L2 is owed a rebuild of
\* its own.
Serial ==
    /\ \A d, e \in Running : d = e
    /\ \A e \in Running : \A s \in snapshots :
            s.created < job[e].started /\ Includes(job[e], s)
    /\ \A e \in Events : job[e].pc \in {"clear", "clearing", "save"} =>
            \A d \in counted \ job[e].memories : job[d].pc = "owed"
    /\ \A d \in counted : job[d].pc \in {"none", "done"} => Shown(d)

IInv == TypeOK /\ ReadsOK /\ (~overlapped => Serial)

LEMMA InitInv == Init => IInv
  BY RebuildAssumption, FS_EmptySet
     DEF Init, IInv, TypeOK, ReadsOK, Serial, Running, AtRest, Events, Row, Resting

(***************************************************************************)
(* The steps.                                                              *)
(***************************************************************************)
\* The present is a number later than all that is remembered.
LEMMA NowOK ==
    ASSUME IInv
    PROVE  /\ Now \in Nat
           /\ \A d \in Events : job[d].started < Now
           /\ \A s \in snapshots : s.created < Now
<1> DEFINE starts == {job[d].started : d \in Events}
           stores == {s.created : s \in snapshots}
           past == {0} \cup starts \cup stores
<1>1. past \subseteq Nat
  BY DEF IInv, TypeOK, Row
<1>2. IsFiniteSet(past)
  <2>1. IsFiniteSet(Events)
    BY RebuildAssumption, FS_Interval DEF Events
  <2>2. IsFiniteSet(starts)
    <3> DEFINE f == [d \in Events |-> job[d].started]
    <3>1. IsFiniteSet({f[d] : d \in Events})
      <4>1. f = [d \in Events |-> f[d]]
        OBVIOUS
      <4> HIDE DEF f
      <4> QED  BY <2>1, <4>1, FiniteImage
    <3> QED  BY <3>1
  <2>3. IsFiniteSet(stores)
    <3> DEFINE f == [s \in snapshots |-> s.created]
    <3>1. IsFiniteSet({f[s] : s \in snapshots})
      <4>1. f = [s \in snapshots |-> f[s]]
        OBVIOUS
      <4> HIDE DEF f
      <4> QED  BY <4>1, FiniteImage DEF IInv, ReadsOK
    <3> QED  BY <3>1
  <2> HIDE DEF starts, stores
  <2>4. IsFiniteSet({0} \cup starts)
    BY <2>2, FS_Singleton, FS_Union
  <2> QED  BY <2>3, <2>4, FS_Union
<1>3. PICK t \in past : \A u \in past : u <= t
  BY <1>1, <1>2, FiniteMax
<1> DEFINE m == CHOOSE x \in past : \A u \in past : u <= x
<1>4. m \in past /\ \A u \in past : u <= m
  BY <1>3
<1>5. Now = 1 + m
  BY DEF Now
<1> HIDE DEF m
<1>6. /\ m \in Nat
      /\ \A d \in Events : job[d].started \in Nat /\ job[d].started <= m
      /\ \A s \in snapshots : s.created \in Nat /\ s.created <= m
  BY <1>1, <1>4
<1> QED  BY <1>5, <1>6

\* The type of a rebuild
Job == [pc : {"none", "owed", "events", "memories", "clear", "clearing", "save", "done"},
        started : Nat, events : SUBSET Events, memories : SUBSET Events,
        doomed : SUBSET Row, cleared : SUBSET Row]

JobOK(j) == j \in Job /\ (j.cleared # {} => j.pc = "save")

\* A step of one rebuild on a moving L1 and L2: the parts of the invariant that
\* are about its own job, and what the others can see of it.
LEMMA JobStep ==
    ASSUME IInv, NEW e \in Events, NEW j, JobOK(j),
           job' = [job EXCEPT ![e] = j],
           UNCHANGED <<recorded, counted>>,
           snapshots' \subseteq Row, IsFiniteSet(snapshots'),
           \A s \in snapshots' : s.events \subseteq recorded /\ s.memories \subseteq counted,
           j.events \subseteq recorded, j.memories \subseteq counted,
           j.pc \in Resting => j.events = {},
           job[e].pc # "none"
    PROVE  TypeOK' /\ ReadsOK'
<1>1. job' \in [Events -> Job] /\ \A d \in Events : job'[d].cleared # {} => job'[d].pc = "save"
  BY DEF IInv, TypeOK, JobOK, Job
<1>2. \A d \in Events : job'[d] = IF d = e THEN j ELSE job[d]
  BY DEF IInv, TypeOK
<1>3. TypeOK'
  BY <1>1 DEF IInv, TypeOK, Job, Row
<1>4. ReadsOK'
  BY <1>2 DEF IInv, ReadsOK
<1> QED  BY <1>3, <1>4

LEMMA CommitStep ==
    ASSUME IInv, NEW e \in Events, NEW change \in Changes, Commit(e, change)
    PROVE  IInv'
<1> DEFINE pc == IF RequestsRefresh(change) THEN "owed" ELSE "none"
<1>1. /\ e \notin recorded /\ recorded' = recorded \cup {e}
      /\ counted \subseteq counted' /\ counted' \subseteq counted \cup {e}
      /\ e \in counted' => pc = "owed"
      /\ job' = [job EXCEPT ![e].pc = pc]
      /\ UNCHANGED <<snapshots, overlapped>>
  BY DEF Commit, Changes, RequestsRefresh, IInv, TypeOK
<1>2. job[e].pc = "none" /\ job[e] \in Job /\ job[e].cleared = {}
  BY <1>1 DEF IInv, TypeOK, ReadsOK, Job
<1>3. \A d \in Events : job'[d] = IF d = e THEN [job[e] EXCEPT !.pc = pc] ELSE job[d]
  BY <1>1 DEF IInv, TypeOK
<1>4. /\ [job[e] EXCEPT !.pc = pc] \in Job /\ job'[e].pc = pc /\ pc \in {"none", "owed"}
  BY <1>2, <1>3 DEF Job
<1>5. /\ job'[e].memories = job[e].memories /\ job'[e].events = job[e].events
      /\ job'[e].cleared = {}
  BY <1>2, <1>3 DEF Job
<1>6. TypeOK'
  <2>1. job' \in [Events -> Job]
    BY <1>1, <1>4 DEF IInv, TypeOK, Job
  <2> QED  BY <1>1, <1>3, <1>5, <2>1 DEF IInv, TypeOK, Job, Row
<1>7. ReadsOK'
  <2>1. job[e].events = {}
    BY <1>2 DEF IInv, ReadsOK, Resting
  <2> QED  BY <1>1, <1>3, <1>5, <2>1 DEF IInv, ReadsOK
<1>8. ASSUME ~overlapped' PROVE Serial'
  <2>1. Serial
    BY <1>1, <1>8 DEF IInv
  <2>2. Running' = Running
    BY <1>2, <1>3, <1>4 DEF Running
  <2>3. e \notin Running
    BY <1>2 DEF Running
  <2>4. Latest' = Latest
    BY <1>1 DEF Latest
  <2>5. \A d, f \in Running' : d = f
    BY <2>1, <2>2 DEF Serial
  <2>6. \A d \in Running' : \A s \in snapshots' :
            s.created < job'[d].started /\ Includes(job'[d], s)
    BY <1>1, <1>3, <2>1, <2>2, <2>3 DEF Serial, Running
  <2>7. ASSUME NEW f \in Events, job'[f].pc \in {"clear", "clearing", "save"},
               NEW d \in counted' \ job'[f].memories
        PROVE  job'[d].pc = "owed"
    <3>1. f # e /\ job'[f] = job[f]
      BY <1>3, <1>4, <2>7
    <3>2. CASE d = e
      BY <1>1, <1>4, <3>2
    <3>3. CASE d # e
      BY <1>1, <1>3, <2>1, <2>7, <3>1, <3>3 DEF Serial, IInv, TypeOK
    <3> QED  BY <3>2, <3>3
  <2>8. ASSUME NEW d \in counted', job'[d].pc \in {"none", "done"}
        PROVE  Shown(d)'
    <3>1. d # e /\ d \in counted /\ job'[d] = job[d]
      BY <1>1, <1>3, <1>4, <2>8 DEF IInv, TypeOK
    <3> QED  BY <1>1, <2>1, <2>4, <2>8, <3>1 DEF Serial, Shown
  <2> QED  BY <2>5, <2>6, <2>7, <2>8 DEF Serial
<1> QED  BY <1>6, <1>7, <1>8 DEF IInv

\* A step of a rebuild that leaves the snapshots alone and does not begin.
LEMMA QuietStep ==
    ASSUME IInv, NEW e \in Events, NEW j, JobOK(j),
           job' = [job EXCEPT ![e] = j],
           UNCHANGED <<recorded, counted, snapshots, overlapped>>,
           e \in Running, j.pc \notin {"none", "done"},
           j.events \subseteq recorded, j.memories \subseteq counted,
           IF j.pc = "owed" THEN j.events = {}
           ELSE /\ j.started = job[e].started
                /\ \A s \in snapshots : Includes(job[e], s) => Includes(j, s),
           j.pc \in {"clear", "clearing", "save"} =>
                \/ j.memories = counted
                \/ job[e].pc \in {"clear", "clearing", "save"} /\ j.memories = job[e].memories
    PROVE  IInv'
<1>1. job[e].pc \notin {"none", "owed", "done"}
  BY DEF Running
<1>2. \A d \in Events : job'[d] = IF d = e THEN j ELSE job[d]
  BY DEF IInv, TypeOK
<1>3. TypeOK' /\ ReadsOK'
  <2>1. /\ snapshots' \subseteq Row /\ IsFiniteSet(snapshots')
        /\ \A s \in snapshots' : s.events \subseteq recorded /\ s.memories \subseteq counted
    BY DEF IInv, TypeOK, ReadsOK
  <2> QED  BY <1>1, <2>1, JobStep DEF Resting
<1>4. ASSUME ~overlapped' PROVE Serial'
  <2>1. Serial
    BY <1>4 DEF IInv
  <2>2. Latest' = Latest
    BY DEF Latest
  <2>3. Running' \subseteq Running
    BY <1>2 DEF Running
  <2>4. \A d \in Running' : \A s \in snapshots' :
            s.created < job'[d].started /\ Includes(job'[d], s)
    <3> SUFFICES ASSUME NEW d \in Running', NEW s \in snapshots
                 PROVE  s.created < job'[d].started /\ Includes(job'[d], s)
      OBVIOUS
    <3>1. d \in Running /\ d \in Events
      BY <2>3 DEF Running
    <3>2. d = e => j.pc # "owed"
      BY <1>2 DEF Running
    <3> QED  BY <1>2, <2>1, <3>1, <3>2 DEF Serial
  <2>5. ASSUME NEW f \in Events, job'[f].pc \in {"clear", "clearing", "save"},
               NEW d \in counted' \ job'[f].memories
        PROVE  job'[d].pc = "owed"
    <3>1. d \in counted /\ d \in Events
      BY DEF IInv, TypeOK
    <3>2. job[d].pc = "owed"
      BY <1>2, <2>1, <2>5, <3>1 DEF Serial
    <3> QED  BY <1>1, <1>2, <3>1, <3>2
  <2>6. ASSUME NEW d \in counted', job'[d].pc \in {"none", "done"}
        PROVE  Shown(d)'
    <3>1. d \in counted /\ d \in Events
      BY DEF IInv, TypeOK
    <3>2. d # e /\ job[d].pc \in {"none", "done"}
      BY <1>2, <2>6, <3>1
    <3> QED  BY <2>1, <2>2, <3>1, <3>2 DEF Serial, Shown
  <2>7. \A d, f \in Running' : d = f
    BY <2>1, <2>3 DEF Serial
  <2> QED  BY <2>4, <2>5, <2>6, <2>7 DEF Serial
<1> QED  BY <1>3, <1>4 DEF IInv

LEMMA BeginStep ==
    ASSUME IInv, NEW e \in Events, Begin(e)
    PROVE  IInv'
<1> DEFINE j == [job[e] EXCEPT !.pc = "events", !.started = Now]
<1>1. /\ job[e].pc = "owed" /\ job[e] \in Job /\ job[e].cleared = {}
      /\ job[e].events = {} /\ job[e].memories \subseteq counted
  BY DEF Begin, IInv, TypeOK, ReadsOK, Job, Resting
<1>2. Now \in Nat /\ \A s \in snapshots : s.created < Now
  BY NowOK
<1>3. /\ j \in Job /\ j.cleared = {} /\ j.pc = "events" /\ j.started = Now
      /\ j.memories = job[e].memories /\ j.events = job[e].events
  BY <1>1, <1>2 DEF Job
<1>4. /\ job' = [job EXCEPT ![e] = j] /\ overlapped' = (overlapped \/ Running # {})
      /\ UNCHANGED <<recorded, counted, snapshots>>
  <2>1. [job EXCEPT ![e].pc = "events", ![e].started = Now] = [job EXCEPT ![e] = j]
    BY DEF IInv, TypeOK
  <2> QED  BY <2>1 DEF Begin
<1> HIDE DEF j
<1>5. \A d \in Events : job'[d] = IF d = e THEN j ELSE job[d]
  BY <1>4 DEF IInv, TypeOK
<1>6. TypeOK' /\ ReadsOK'
  <2>1. /\ snapshots' \subseteq Row /\ IsFiniteSet(snapshots')
        /\ \A s \in snapshots' : s.events \subseteq recorded /\ s.memories \subseteq counted
    BY <1>4 DEF IInv, TypeOK, ReadsOK
  <2> QED  BY <1>1, <1>3, <1>4, <2>1, JobStep DEF JobOK, Resting
<1>7. ASSUME ~overlapped' PROVE Serial'
  <2>1. Serial /\ Running = {}
    BY <1>4, <1>7 DEF IInv
  <2>2. Running' = {e}
    BY <1>3, <1>5, <2>1 DEF Running
  <2>3. Latest' = Latest
    BY <1>4 DEF Latest
  <2>4. \A d \in Running' : \A s \in snapshots' :
            s.created < job'[d].started /\ Includes(job'[d], s)
    <3>1. ASSUME NEW s \in snapshots
          PROVE  Includes(j, s)
      <4>1. Watermark({}) = 0
        BY WatermarkIs
      <4>2. \A d \in s.events : d > 0
        BY RebuildAssumption DEF IInv, TypeOK, Row, Events
      <4> QED  BY <1>1, <1>3, <4>1, <4>2 DEF Includes
    <3> QED  BY <1>2, <1>3, <1>4, <1>5, <2>2, <3>1
  <2>5. ASSUME NEW f \in Events, job'[f].pc \in {"clear", "clearing", "save"}
        PROVE  FALSE
    <3>1. f \in Running' /\ f = e
      BY <2>2, <2>5 DEF Running
    <3> QED  BY <1>3, <1>5, <2>5, <3>1
  <2>6. ASSUME NEW d \in counted', job'[d].pc \in {"none", "done"}
        PROVE  Shown(d)'
    <3>1. d \in counted /\ d \in Events
      BY <1>4 DEF IInv, TypeOK
    <3>2. d # e /\ job[d].pc \in {"none", "done"}
      BY <1>3, <1>5, <2>6, <3>1
    <3> QED  BY <1>4, <2>1, <2>3, <3>1, <3>2 DEF Serial, Shown
  <2> QED  BY <2>2, <2>4, <2>5, <2>6 DEF Serial
<1> QED  BY <1>6, <1>7 DEF IInv

\* A rebuild that is over holds nothing.
LEMMA AtRestOK ==
    ASSUME NEW e \in Events, NEW pc \in {"owed", "done"}
    PROVE  /\ JobOK(Rest(e, pc)) /\ Rest(e, pc).pc = pc
           /\ Rest(e, pc).memories = {} /\ Rest(e, pc).events = {}
<1>1. AtRest(e, pc) \in Job
  BY DEF AtRest, Job
<1> QED  BY <1>1 DEF AtRest, Rest, JobOK

LEMMA ReadPageStep ==
    ASSUME IInv, NEW e \in Events, ReadPage(e)
    PROVE  IInv'
<1> DEFINE page == NextPage(job[e].events)
           pc == IF Cardinality(page) < PageSize THEN "memories" ELSE job[e].pc
           j == [job[e] EXCEPT !.events = @ \cup page, !.pc = pc]
<1>1. /\ job[e].pc = "events" /\ job[e] \in Job /\ job[e].cleared = {}
      /\ job[e].events \subseteq recorded /\ job[e].memories \subseteq counted
  BY DEF ReadPage, IInv, TypeOK, ReadsOK, Job
<1>2. page \subseteq Events /\ page \subseteq recorded
  BY DEF NextPage, IInv, TypeOK
<1>3. /\ job' = [job EXCEPT ![e] = j]
      /\ UNCHANGED <<recorded, counted, snapshots, overlapped>>
  <2>1. [job EXCEPT ![e].events = @ \cup page,
                    ![e].pc = IF Cardinality(page) < PageSize THEN "memories" ELSE @]
        = [job EXCEPT ![e] = j]
    BY DEF IInv, TypeOK
  <2> QED  BY <2>1 DEF ReadPage
<1>4. pc \in {"events", "memories"}
  BY <1>1
<1> HIDE DEF page, pc
<1>5. /\ j \in Job /\ j.cleared = {} /\ j.pc = pc /\ j.started = job[e].started
      /\ j.memories = job[e].memories /\ j.events = job[e].events \cup page
  BY <1>1, <1>2, <1>4 DEF Job
<1> HIDE DEF j
<1>7. ASSUME NEW s \in snapshots, Includes(job[e], s)
      PROVE  Includes(j, s)
  <2>1. ASSUME NEW d \in s.events, d \notin j.events
        PROVE  pc = "events" /\ d > Watermark(j.events)
    <3>1. d \in recorded /\ recorded \subseteq Events
      BY DEF IInv, TypeOK, ReadsOK
    <3>2. d \in job[e].events \/ d > Watermark(job[e].events)
      BY <1>1, <1>7 DEF Includes
    <3>3. d > Watermark(j.events) /\ ~(Cardinality(page) < PageSize)
      BY <1>1, <1>5, <2>1, <3>1, <3>2, PageIs DEF page, Job
    <3> QED  BY <1>1, <3>3 DEF pc
  <2> QED  BY <1>4, <1>5, <2>1 DEF Includes
<1> QED  BY <1>1, <1>2, <1>3, <1>4, <1>5, <1>7, QuietStep DEF JobOK, Running

LEMMA ReadMemoriesStep ==
    ASSUME IInv, NEW e \in Events, ReadMemories(e)
    PROVE  IInv'
<1>1. /\ job[e].pc = "memories" /\ job[e] \in Job /\ job[e].cleared = {}
      /\ UNCHANGED <<recorded, counted, snapshots, overlapped>>
      /\ e \in Running
  BY DEF ReadMemories, IInv, TypeOK, Job, Running
<1>2. CASE Traceable(job[e].events, counted)
  <2> DEFINE j == [job[e] EXCEPT !.pc = "clear", !.memories = counted]
  <2>1. job' = [job EXCEPT ![e] = j] /\ counted \subseteq job[e].events
    BY <1>2 DEF ReadMemories, Traceable
  <2>2. /\ j \in Job /\ j.cleared = {} /\ j.pc = "clear" /\ j.started = job[e].started
        /\ j.memories = counted /\ j.events = job[e].events
    BY <1>1 DEF Job, IInv, TypeOK
  <2> HIDE DEF j
  <2>3. \A s \in snapshots : Includes(job[e], s) => Includes(j, s)
    BY <1>1, <2>2 DEF Includes, IInv, ReadsOK
  <2>4. j.events \subseteq recorded
    BY <2>2 DEF IInv, ReadsOK
  <2> QED  BY <1>1, <2>1, <2>2, <2>3, <2>4, QuietStep DEF JobOK
<1>3. CASE ~ Traceable(job[e].events, counted)
  <2> DEFINE j == Rest(e, "owed")
  <2>1. job' = [job EXCEPT ![e] = j]
    BY <1>3 DEF ReadMemories
  <2>2. JobOK(j) /\ j.pc = "owed" /\ j.memories = {} /\ j.events = {}
    BY AtRestOK
  <2> HIDE DEF j
  <2> QED  BY <1>1, <2>1, <2>2, QuietStep
<1> QED  BY <1>2, <1>3

LEMMA BeginClearStep ==
    ASSUME IInv, NEW e \in Events, BeginClear(e)
    PROVE  IInv'
<1> DEFINE j == [job[e] EXCEPT !.pc = "clearing", !.doomed = snapshots]
<1>1. /\ job[e].pc = "clear" /\ job[e] \in Job /\ job[e].cleared = {} /\ snapshots \subseteq Row
      /\ job[e].events \subseteq recorded /\ job[e].memories \subseteq counted
      /\ UNCHANGED <<recorded, counted, snapshots, overlapped>>
  BY DEF BeginClear, IInv, TypeOK, ReadsOK, Job
<1>2. job' = [job EXCEPT ![e] = j]
  <2>1. [job EXCEPT ![e].pc = "clearing", ![e].doomed = snapshots] = [job EXCEPT ![e] = j]
    BY DEF IInv, TypeOK
  <2> QED  BY <2>1 DEF BeginClear
<1>3. /\ j \in Job /\ j.cleared = {} /\ j.pc = "clearing" /\ j.started = job[e].started
      /\ j.memories = job[e].memories /\ j.events = job[e].events
  BY <1>1 DEF Job
<1> HIDE DEF j
<1>4. \A s \in snapshots : Includes(job[e], s) => Includes(j, s)
  BY <1>1, <1>3 DEF Includes
<1> QED  BY <1>1, <1>2, <1>3, <1>4, QuietStep DEF JobOK, Running

LEMMA FinishClearStep ==
    ASSUME IInv, NEW e \in Events, FinishClear(e)
    PROVE  IInv'
<1> DEFINE gone == job[e].doomed \cap snapshots
           j == [job[e] EXCEPT !.pc = "save", !.cleared = gone]
<1>1. /\ job[e].pc = "clearing" /\ job[e] \in Job /\ gone \subseteq Row
      /\ job[e].events \subseteq recorded /\ job[e].memories \subseteq counted
      /\ UNCHANGED <<recorded, counted, snapshots, overlapped>>
  BY DEF FinishClear, IInv, TypeOK, ReadsOK, Job
<1>2. job' = [job EXCEPT ![e] = j]
  <2>1. [job EXCEPT ![e].pc = "save", ![e].cleared = gone] = [job EXCEPT ![e] = j]
    BY DEF IInv, TypeOK
  <2> QED  BY <2>1 DEF FinishClear
<1>3. /\ j \in Job /\ j.pc = "save" /\ j.started = job[e].started
      /\ j.memories = job[e].memories /\ j.events = job[e].events
  BY <1>1 DEF Job
<1> HIDE DEF j
<1>4. \A s \in snapshots : Includes(job[e], s) => Includes(j, s)
  BY <1>1, <1>3 DEF Includes
<1> QED  BY <1>1, <1>2, <1>3, <1>4, QuietStep DEF JobOK, Running

LEMMA FailStep ==
    ASSUME IInv, NEW e \in Events, Fail(e)
    PROVE  IInv'
<1> DEFINE j == Rest(e, "owed")
<1>1. /\ job' = [job EXCEPT ![e] = j] /\ e \in Running
      /\ UNCHANGED <<recorded, counted, snapshots, overlapped>>
  BY DEF Fail
<1>2. JobOK(j) /\ j.pc = "owed" /\ j.memories = {} /\ j.events = {}
  BY AtRestOK
<1> HIDE DEF j
<1> QED  BY <1>1, <1>2, QuietStep

\* There is a latest snapshot when there is any.
LEMMA LatestIs ==
    ASSUME IInv, snapshots # {}
    PROVE  Latest \in snapshots
<1> DEFINE created == [s \in snapshots |-> s.created]
           times == {created[s] : s \in snapshots}
<1>1. \A s \in snapshots : s.created \in Nat
  BY DEF IInv, TypeOK, Row
<1>2. created = [s \in snapshots |-> created[s]] /\ IsFiniteSet(snapshots)
  BY DEF IInv, ReadsOK
<1>3. times \subseteq Nat /\ times # {}
  BY <1>1
<1>4. IsFiniteSet(times)
  <2> HIDE DEF created
  <2> QED  BY <1>2, FiniteImage
<1>5. PICK t \in times : \A u \in times : u <= t
  <2> HIDE DEF times
  <2> QED  BY <1>3, <1>4, FiniteMax
<1>6. \E s \in snapshots : \A r \in snapshots : r.created <= s.created
  BY <1>5
<1> QED  BY <1>6 DEF Latest

\* While rebuilds do not overlap, the one that is stored is the latest.
LEMMA StoredIsLatest ==
    ASSUME IInv, Serial, NEW e \in Events, Save(e), SameId(e) = {}
    PROVE  /\ Latest' = Built(e) /\ snapshots' # {}
           /\ \A s \in snapshots : Includes(job[e], s)
<1> DEFINE new == Built(e)
<1>1. /\ job[e].pc = "save" /\ job[e] \in Job /\ e \in Running
      /\ snapshots' = (snapshots \ job[e].cleared) \cup {new}
  BY DEF Save, IInv, TypeOK, Job, Running
<1>2. new.created = job[e].started /\ new.created \in Nat
  BY <1>1 DEF Built, Job
<1> HIDE DEF new
<1>3. \A s \in snapshots : s.created < new.created /\ Includes(job[e], s)
  BY <1>1, <1>2 DEF Serial
<1>4. \A s \in snapshots : s.created \in Nat
  BY DEF IInv, TypeOK, Row
<1>5. ASSUME NEW s \in snapshots', s # new
      PROVE  ~ (new.created <= s.created) /\ s.created <= new.created
  BY <1>1, <1>2, <1>3, <1>4, <1>5
<1>6. new \in snapshots' /\ new.created <= new.created
  BY <1>1, <1>2
<1>7. Latest' = new
  BY <1>5, <1>6 DEF Latest
<1> QED  BY <1>3, <1>6, <1>7 DEF new

\* The new snapshot is the only one, or replaces what the rebuild cleared, and
\* as long as rebuilds do not overlap it is the latest.
LEMMA StoreStep ==
    ASSUME IInv, NEW e \in Events, Save(e), SameId(e) = {}
    PROVE  IInv'
<1> DEFINE new == Built(e)
           j == Rest(e, "done")
<1>1. /\ job[e].pc = "save" /\ job[e] \in Job /\ e \in Running
      /\ job[e].events \subseteq recorded /\ job[e].memories \subseteq counted
  BY DEF Save, IInv, TypeOK, ReadsOK, Job, Running
<1>2. /\ new \in Row /\ new.memories = job[e].memories /\ new.events = job[e].events
      /\ new.created = job[e].started
  BY <1>1 DEF Built, Row, Job
<1>3. /\ snapshots' = (snapshots \ job[e].cleared) \cup {new}
      /\ job' = [job EXCEPT ![e] = j] /\ UNCHANGED <<recorded, counted, overlapped>>
  BY DEF Save
<1>4. JobOK(j) /\ j.pc = "done" /\ j.memories = {} /\ j.events = {}
  BY AtRestOK
<1> HIDE DEF new, j
<1>5. \A d \in Events : job'[d] = IF d = e THEN j ELSE job[d]
  BY <1>3 DEF IInv, TypeOK
<1>6. TypeOK' /\ ReadsOK'
  <2>1. snapshots' \subseteq Row
    BY <1>2, <1>3 DEF IInv, TypeOK
  <2>2. IsFiniteSet(snapshots')
    <3>1. IsFiniteSet(snapshots \ job[e].cleared)
      BY FS_Difference DEF IInv, ReadsOK
    <3> QED  BY <1>3, <3>1, FS_AddElement
  <2>3. \A s \in snapshots' : s.events \subseteq recorded /\ s.memories \subseteq counted
    BY <1>1, <1>2, <1>3 DEF IInv, ReadsOK
  <2> QED  BY <1>1, <1>3, <1>4, <2>1, <2>2, <2>3, JobStep
<1>7. ASSUME ~overlapped' PROVE Serial'
  <2>1. Serial
    BY <1>3, <1>7 DEF IInv
  <2>2. Running \subseteq {e}
    BY <1>1, <2>1 DEF Serial
  <2>3. Running' = {}
    BY <1>4, <1>5, <2>2 DEF Running
  <2>4. Latest' = new
    BY <2>1, StoredIsLatest DEF new
  <2>5. ASSUME NEW d \in counted', job'[d].pc \in {"none", "done"}
        PROVE  Shown(d)'
    <3>1. d \in counted /\ d \in Events
      BY <1>3 DEF IInv, TypeOK
    <3>2. job[d].pc # "owed"
      BY <1>1, <1>5, <2>5, <3>1
    <3>3. d \in job[e].memories
      BY <1>1, <2>1, <3>1, <3>2 DEF Serial
    <3> QED  BY <1>2, <1>3, <2>4, <3>3 DEF Shown
  <2>6. \A f \in Events : job'[f].pc \notin {"clear", "clearing", "save"}
    BY <2>3 DEF Running
  <2> QED  BY <2>3, <2>5, <2>6 DEF Serial
<1> QED  BY <1>6, <1>7 DEF IInv

LEMMA SaveStep ==
    ASSUME IInv, NEW e \in Events, Save(e)
    PROVE  IInv'
<1>1. CASE SameId(e) = {}
  BY <1>1, StoreStep
<1>2. CASE SameId(e) # {}
  <2> DEFINE j == Rest(e, "owed")
  <2>1. /\ job' = [job EXCEPT ![e] = j] /\ e \in Running
        /\ UNCHANGED <<recorded, counted, snapshots, overlapped>>
    BY <1>2 DEF Save, Running
  <2>2. JobOK(j) /\ j.pc = "owed" /\ j.memories = {} /\ j.events = {}
    BY AtRestOK
  <2> HIDE DEF j
  <2> QED  BY <2>1, <2>2, QuietStep
<1> QED  BY <1>1, <1>2

LEMMA NextInv == IInv /\ [Next]_vars => IInv'
<1> SUFFICES ASSUME IInv, [Next]_vars
             PROVE  IInv'
  OBVIOUS
<1>1. CASE Next
  BY <1>1, CommitStep, BeginStep, ReadPageStep, ReadMemoriesStep, BeginClearStep,
     FinishClearStep, SaveStep, FailStep DEF Next, Rebuild
<1>2. CASE UNCHANGED vars
  <2>1. TypeOK' /\ ReadsOK'
    BY <1>2 DEF IInv, TypeOK, ReadsOK, vars
  <2>2. ~overlapped' => Serial'
    BY <1>2 DEF IInv, Serial, Running, Shown, Latest, vars
  <2> QED  BY <2>1, <2>2 DEF IInv
<1> QED  BY <1>1, <1>2

LEMMA Invariance == Spec => []IInv
<1>1. Init => IInv
  BY InitInv
<1>2. IInv /\ [Next]_vars => IInv'
  BY NextInv
<1> QED  BY <1>1, <1>2, PTL DEF Spec

(***************************************************************************)
(* The theorems.                                                           *)
(***************************************************************************)
\* The stored values and the rebuilds keep their types, and none keeps row locks
\* beyond its transaction (ProjectionRebuild's TypeOK).
THEOREM TypeCorrect == Spec => []TypeOK
  BY Invariance, PTL DEF IInv

\* No step of any rebuild leaves readers without a snapshot they had.
THEOREM StaysReadableHolds == Spec => StaysReadable
<1>1. [Next]_vars => [snapshots # {} => snapshots' # {}]_vars
  BY DEF Next, Rebuild, Commit, Begin, ReadPage, ReadMemories, BeginClear, FinishClear,
         Save, Fail, vars
<1> QED  BY <1>1, PTL DEF Spec, StaysReadable

\* What the student model holds of L1 and L2 it keeps through every further
\* rebuild, as long as they do not overlap: pages that late commits shift leave
\* out no event an earlier rebuild has read.
THEOREM ModelKeepsEvidenceHolds == Spec => ModelKeepsEvidence
<1> DEFINE Keeps ==
        ~overlapped /\ snapshots # {} =>
            /\ Latest.events \subseteq Latest'.events
            /\ Latest.memories \subseteq Latest'.memories
<1>1. ASSUME IInv, [Next]_vars, ~overlapped, snapshots # {}
      PROVE  /\ Latest.events \subseteq Latest'.events
             /\ Latest.memories \subseteq Latest'.memories
  <2>1. CASE snapshots' = snapshots
    <3>1. Latest' = Latest
      BY <2>1 DEF Latest
    <3> QED  BY <3>1
  <2>2. ASSUME NEW e \in Events, Save(e), SameId(e) = {}
        PROVE  /\ Latest.events \subseteq Latest'.events
               /\ Latest.memories \subseteq Latest'.memories
    <3>1. Serial /\ Latest \in snapshots
      BY <1>1, LatestIs DEF IInv
    <3>2. Latest' = Built(e) /\ Includes(job[e], Latest)
      BY <1>1, <2>2, <3>1, StoredIsLatest
    <3>3. job[e].pc = "save"
      BY <2>2 DEF Save
    <3> QED  BY <3>2, <3>3 DEF Includes, Built
  <2> QED  BY <1>1, <2>1, <2>2
           DEF Next, Rebuild, Commit, Begin, ReadPage, ReadMemories, BeginClear,
               FinishClear, Save, Fail, vars
<1>2. IInv /\ [Next]_vars => [Keeps]_vars
  BY <1>1
<1> QED  BY <1>2, Invariance, PTL DEF Spec, ModelKeepsEvidence

\* If rebuilds never overlapped and all are done, the latest snapshot shows what
\* L2 counts, whatever failed and however late the answers were committed.
THEOREM SerialIsCurrentHolds == Spec => []SerialIsCurrent
<1>1. ASSUME IInv PROVE SerialIsCurrent
  <2> SUFFICES ASSUME Serial, \A e \in Events : job[e].pc \in {"none", "done"}
               PROVE  IF snapshots = {} THEN counted = {} ELSE Latest.memories = counted
    BY <1>1 DEF IInv, SerialIsCurrent, DrainedIsCurrent
  <2>1. \A d \in counted : snapshots # {} /\ d \in Latest.memories
    BY <1>1 DEF Serial, Shown, IInv, TypeOK
  <2>2. ASSUME snapshots # {} PROVE Latest.memories \subseteq counted
    <3>1. Latest \in snapshots
      BY <1>1, <2>2, LatestIs
    <3> QED  BY <1>1, <3>1 DEF IInv, ReadsOK
  <2> QED  BY <2>1, <2>2
<1> QED  BY <1>1, Invariance, PTL
=============================================================================
