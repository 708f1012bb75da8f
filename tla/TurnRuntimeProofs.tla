------------------------- MODULE TurnRuntimeProofs -------------------------
(* Proofs about TurnRuntime, for any number of turns, handlers and viewers and
   any bounds on what they do. *)
EXTENDS TurnRuntime, SequenceTheorems, FiniteSetTheorems, TLAPS

(***************************************************************************)
(* The inductive invariant.                                                *)
(***************************************************************************)
Events == {"session", "content", "question", "reply", "error", "done", "failure",
           "cancellation", "title"}
Emitted == {"content", "question", "reply", "error", "done"}

Before    == {"prepare", "stream", "save", "flush", "settle"}
Cancelled == {"cancelFlush", "keep", "cancelSettle"}
Failed    == {"failFlush", "failSettle"}

Runners == [pc : {"none", "title", "ended"} \cup Before \cup Cancelled \cup Failed,
            regenerate : BOOLEAN, doneSent : BOOLEAN, flushed : BOOLEAN,
            snapshot : Nat, cancels : Nat]
Caps == [pc : {"none", "working", "asking", "over"}, work : Nat, asked : Nat]
Ops == [pc : {"idle", "recover", "create", "replay", "lastUser", "lastMessage", "delete",
              "await", "settle"},
        turn : 0..MaxTurns, regenerate : BOOLEAN, message : Nat]
Views == [pc : {"idle", "backlog", "register", "catchUp", "status", "recover", "live",
                "drained", "closed", "left"},
          turn : 0..MaxTurns, got : Seq(Nat), done : BOOLEAN, queue : Seq(Nat)]

Types ==
    /\ exists \in BOOLEAN
    /\ row \in [Turns -> {"none", "running", "gone"} \cup Final]
    /\ stored \in [Turns -> Nat] /\ kept \in [Turns -> Nat]
    /\ lastId \in Nat
    /\ thread \subseteq [id : 1..lastId, role : {"user", "assistant"}, turn : Turns,
                         after : Turns]
    /\ runner \in [Turns -> Runners]
    /\ published \in [Turns -> Seq(Events)]
    /\ cap \in [Turns -> Caps]
    /\ bus \in [Turns -> Seq(Emitted)]
    /\ op \in [Handlers -> Ops]
    /\ view \in [Viewers -> Views]
    /\ deletions \in Nat /\ restarts \in Nat

\* The turns are created one after the other.
InTurn == \E n \in 0..MaxTurns : \A t \in Turns : row[t] # "none" <=> t <= n

\* create_turn refuses a second running turn.
AtMostOne == \A t, u \in Turns : row[t] = "running" /\ row[u] = "running" => t = u

\* A turn has a row when it has a runner, and its runner the row to itself.
RowOK(t) ==
    /\ row[t] = "none" <=> runner[t].pc = "none"
    /\ row[t] = "none" => published[t] = <<>>
    /\ Live(t) => row[t] \notin {"interrupted", "cancelled"}
    /\ runner[t].pc \in Before \cup Failed /\ runner[t].cancels = 0
            => row[t] \in {"running", "gone"}
    /\ runner[t].pc = "title" => row[t] # "running"
    /\ runner[t].pc = "ended" /\ Upsets(t) <= 1 /\ restarts = 0 => row[t] # "running"

\* How a runner came to handle a cancellation or a failure.
UpsetOK(t) ==
    /\ runner[t].pc \in Cancelled => runner[t].cancels >= 1
    /\ runner[t].pc \in Failed => Published(t, "failure")

\* Nothing is stored that was not published; DONE is published once, and before
\* the runner ends.
EventsOK(t) ==
    /\ runner[t].snapshot <= Len(published[t]) /\ stored[t] <= Len(published[t])
    /\ runner[t].pc \in {"none"} \cup Before => ~Published(t, "done") /\ ~runner[t].doneSent
    /\ runner[t].pc = "title" => runner[t].doneSent
    /\ runner[t].pc \in {"title"} \cup Cancelled \cup Failed => Published(t, "done")
    /\ \A i, j \in DOMAIN published[t] :
        published[t][i] = "done" /\ published[t][j] = "done" => i = j

\* Where the answer is when the runner is past storing it.
AnswerOK(t) ==
    /\ runner[t].pc \in {"none", "prepare"} => ~Produced(t)
    /\ runner[t].pc \in {"flush", "settle", "title"} => kept[t] > 0
    /\ runner[t].pc = "cancelSettle" /\ Produced(t) /\ exists => kept[t] > 0
    /\ runner[t].pc \in Failed /\ exists => ~Produced(t)

\* Whoever is about to settle a row has found it without a runner.
OpOK(h) ==
    op[h].pc \in {"recover", "settle"} =>
        op[h].turn \in Turns /\ row[op[h].turn] # "none" /\ ~Live(op[h].turn)

\* A viewer has the first events of its turn, and its queue has the others.
ViewOK(v) ==
    LET w == view[v]
        t == view[v].turn
    IN  /\ w.pc = "idle" => w.got = <<>>
        /\ w.pc # "idle" =>
            /\ t \in Turns /\ row[t] # "none"
            /\ w.got = Seqs(0, Len(w.got)) /\ Len(w.got) <= Len(published[t])
        /\ w.pc \in {"catchUp", "status", "recover", "drained"} => ~Live(t)
        /\ w.pc = "live" =>
            w.queue = IF Live(t) THEN Seqs(Len(w.got), Len(published[t]))
                      ELSE Append(Seqs(Len(w.got), Len(published[t])), End)
        /\ w.pc \in {"live", "drained"} /\ ~Live(t) => Published(t, "done")
        /\ w.pc = "drained" => Len(w.got) = Len(published[t])
        /\ w.pc = "closed" => w.done \/ \E i \in DOMAIN w.got : IsDone(t, w.got[i])

TurnOK(t) == RowOK(t) /\ UpsetOK(t) /\ EventsOK(t) /\ AnswerOK(t)

TurnsOK == \A t \in Turns : TurnOK(t)
OpsOK   == \A h \in Handlers : OpOK(h)
ViewsOK == \A v \in Viewers : ViewOK(v)

IInv == Types /\ InTurn /\ AtMostOne /\ TurnsOK /\ OpsOK /\ ViewsOK

(***************************************************************************)
(* Sequences of seqs and of events.                                        *)
(***************************************************************************)
LEMMA SeqsIs ==
    ASSUME NEW a \in Nat, NEW b \in Nat, a <= b
    PROVE  /\ Seqs(a, b) \in Seq(Nat) /\ Len(Seqs(a, b)) = b - a
           /\ \A i \in 1..(b - a) : Seqs(a, b)[i] = a + i
           /\ a = b => Seqs(a, b) = <<>>
<1>1. b - a \in Nat /\ \A i \in 1..(b - a) : a + i \in Nat
  OBVIOUS
<1>2. /\ Seqs(a, b) \in Seq(Nat) /\ Len(Seqs(a, b)) = b - a
      /\ \A i \in 1..(b - a) : Seqs(a, b)[i] = a + i
  BY <1>1, IsASeq DEF Seqs
<1>3. a = b => Seqs(a, b) = <<>>
  BY <1>2, EmptySeq
<1> QED  BY <1>2, <1>3

LEMMA SeqsFromStart ==
    ASSUME NEW n \in Nat
    PROVE  /\ Seqs(0, n) \in Seq(Nat) /\ Len(Seqs(0, n)) = n
           /\ \A i \in 1..n : Seqs(0, n)[i] = i
<1>1. 0 \in Nat /\ 0 <= n /\ n - 0 = n
  OBVIOUS
<1>2. /\ Seqs(0, n) \in Seq(Nat) /\ Len(Seqs(0, n)) = n - 0
      /\ \A i \in 1..(n - 0) : Seqs(0, n)[i] = 0 + i
  BY <1>1, SeqsIs
<1> QED  BY <1>1, <1>2

LEMMA SeqsJoin ==
    ASSUME NEW a \in Nat, NEW b \in Nat, NEW c \in Nat, a <= b, b <= c
    PROVE  Seqs(a, b) \o Seqs(b, c) = Seqs(a, c)
<1> DEFINE s == Seqs(a, b)
           t == Seqs(b, c)
           u == Seqs(a, c)
<1>a. s \in Seq(Nat) /\ Len(s) = b - a /\ \A i \in 1..(b - a) : s[i] = a + i
  BY SeqsIs
<1>b. t \in Seq(Nat) /\ Len(t) = c - b /\ \A i \in 1..(c - b) : t[i] = b + i
  BY SeqsIs
<1>c. u \in Seq(Nat) /\ Len(u) = c - a /\ \A i \in 1..(c - a) : u[i] = a + i
  <2>1. a <= c
    OBVIOUS
  <2> QED  BY <2>1, SeqsIs
<1>1. /\ s \in Seq(Nat) /\ Len(s) = b - a /\ \A i \in 1..(b - a) : s[i] = a + i
      /\ t \in Seq(Nat) /\ Len(t) = c - b /\ \A i \in 1..(c - b) : t[i] = b + i
      /\ u \in Seq(Nat) /\ Len(u) = c - a /\ \A i \in 1..(c - a) : u[i] = a + i
  BY <1>a, <1>b, <1>c
<1> HIDE DEF s, t, u
<1>2. /\ s \o t \in Seq(Nat) /\ Len(s \o t) = Len(s) + Len(t)
      /\ \A i \in 1 .. Len(s) + Len(t) : (s \o t)[i] = IF i <= Len(s) THEN s[i] ELSE t[i - Len(s)]
  BY <1>1, ConcatProperties
<1>3. Len(s \o t) = Len(u)
  BY <1>1, <1>2
<1>4. ASSUME NEW i \in 1..Len(s \o t)
      PROVE  (s \o t)[i] = u[i]
  <2>1. i \in 1..(c - a) /\ u[i] = a + i
    BY <1>1, <1>2
  <2>2. CASE i <= b - a
    <3>1. i \in 1..(b - a)
      BY <2>1, <2>2
    <3> QED  BY <1>1, <1>2, <2>1, <2>2, <3>1
  <2>3. CASE ~ (i <= b - a)
    <3>1. i - (b - a) \in 1..(c - b) /\ b + (i - (b - a)) = a + i
      BY <2>1, <2>3
    <3>2. (s \o t)[i] = t[i - (b - a)]
      BY <1>1, <1>2, <2>1, <2>3
    <3> QED  BY <1>1, <2>1, <3>1, <3>2
  <2> QED  BY <2>2, <2>3
<1>5. s \o t = u
  BY <1>1, <1>2, <1>3, <1>4, SeqEqual
<1> QED  BY <1>5 DEF s, t, u

LEMMA SeqsHeadTail ==
    ASSUME NEW a \in Nat, NEW b \in Nat, a < b
    PROVE  /\ Seqs(a, b) # <<>> /\ Head(Seqs(a, b)) = a + 1
           /\ Tail(Seqs(a, b)) = Seqs(a + 1, b)
<1> DEFINE s == Seqs(a, b)
           u == Seqs(a + 1, b)
<1>a. s \in Seq(Nat) /\ Len(s) = b - a /\ \A i \in 1..(b - a) : s[i] = a + i
  BY SeqsIs
<1>b. u \in Seq(Nat) /\ Len(u) = b - (a + 1) /\ \A i \in 1..(b - (a + 1)) : u[i] = (a + 1) + i
  <2>1. a + 1 \in Nat /\ a + 1 <= b
    OBVIOUS
  <2> HIDE DEF u
  <2>2. \A x \in Nat : x <= b => /\ Seqs(x, b) \in Seq(Nat) /\ Len(Seqs(x, b)) = b - x
                              /\ \A i \in 1..(b - x) : Seqs(x, b)[i] = x + i
    BY SeqsIs
  <2> QED  BY <2>1, <2>2 DEF u
<1>1. /\ s \in Seq(Nat) /\ Len(s) = b - a /\ \A i \in 1..(b - a) : s[i] = a + i
      /\ u \in Seq(Nat) /\ Len(u) = b - (a + 1)
      /\ \A i \in 1..(b - (a + 1)) : u[i] = (a + 1) + i
  BY <1>a, <1>b
<1> HIDE DEF s, u
<1>2. s # <<>> /\ Head(s) = a + 1
  BY <1>1
<1>3. /\ Tail(s) \in Seq(Nat) /\ Len(Tail(s)) = Len(s) - 1
      /\ \A i \in 1..Len(Tail(s)) : Tail(s)[i] = s[i + 1]
  BY <1>1, <1>2, HeadTailProperties
<1>4. \A i \in 1..Len(Tail(s)) : Tail(s)[i] = u[i]
  BY <1>1, <1>3
<1>5. Tail(s) = u
  <2>1. Len(Tail(s)) = Len(u)
    BY <1>1, <1>3
  <2> QED  BY <1>1, <1>3, <1>4, <2>1, SeqEqual
<1> QED  BY <1>2, <1>5 DEF s, u

\* A sequence and the sentinel.
LEMMA AppendConcat ==
    ASSUME NEW s \in Seq(Nat), NEW t \in Seq(Nat), NEW e \in Nat
    PROVE  s \o Append(t, e) = Append(s \o t, e)
<1>1. Append(t, e) = t \o <<e>> /\ <<e>> \in Seq(Nat)
  BY AppendIsConcat
<1>2. s \o t \in Seq(Nat) /\ Append(s \o t, e) = (s \o t) \o <<e>>
  BY ConcatProperties, AppendIsConcat
<1> QED  BY <1>1, <1>2, ConcatAssociative

LEMMA AppendHeadTail ==
    ASSUME NEW s \in Seq(Nat), NEW e \in Nat
    PROVE  /\ Append(s, e) # <<>>
           /\ s = <<>> => Head(Append(s, e)) = e
           /\ s # <<>> => /\ Head(Append(s, e)) = Head(s)
                         /\ Tail(Append(s, e)) = Append(Tail(s), e)
BY HeadTailAppend, AppendProperties

Has(s, type)  == \E i \in 1..Len(s) : s[i] = type
Once(s, type) == \A i, j \in 1..Len(s) : s[i] = type /\ s[j] = type => i = j

LEMMA Joined ==
    ASSUME NEW s \in Seq(Events), NEW types \in Seq(Events), NEW type
    PROVE  /\ s \o types \in Seq(Events) /\ Len(s \o types) = Len(s) + Len(types)
           /\ Len(s) <= Len(s \o types) /\ Len(s) \in Nat /\ Len(s \o types) \in Nat
           /\ \A i \in 1..Len(s) : (s \o types)[i] = s[i]
           /\ Has(s \o types, type) <=> Has(s, type) \/ Has(types, type)
           /\ Once(s, type) /\ ~Has(types, type) => Once(s \o types, type)
           /\ Once(types, type) /\ ~Has(s, type) => Once(s \o types, type)
<1> DEFINE u == s \o types
<1>1. /\ u \in Seq(Events) /\ Len(u) = Len(s) + Len(types)
      /\ \A i \in 1 .. Len(s) + Len(types) : u[i] = IF i <= Len(s) THEN s[i] ELSE types[i - Len(s)]
  BY ConcatProperties
<1>2. Len(s) \in Nat /\ Len(types) \in Nat
  OBVIOUS
<1> HIDE DEF u
<1>3. \A i \in 1..Len(s) : i \in 1..Len(u) /\ u[i] = s[i]
  BY <1>1, <1>2
<1>4. \A i \in 1..Len(types) : Len(s) + i \in 1..Len(u) /\ u[Len(s) + i] = types[i]
  <2> TAKE i \in 1..Len(types)
  <2>1. Len(s) + i \in 1..Len(s) + Len(types) /\ ~ (Len(s) + i <= Len(s)) /\ (Len(s) + i) - Len(s) = i
    BY <1>2
  <2> QED  BY <1>1, <2>1
<1>5. \A i \in 1..Len(u) : \/ i \in 1..Len(s) /\ u[i] = s[i]
                           \/ i - Len(s) \in 1..Len(types) /\ u[i] = types[i - Len(s)]
  BY <1>1, <1>2
<1>6. Has(u, type) <=> Has(s, type) \/ Has(types, type)
  BY <1>3, <1>4, <1>5 DEF Has
<1>7. Once(s, type) /\ ~Has(types, type) => Once(u, type)
  BY <1>5 DEF Has, Once
<1>8. Once(types, type) /\ ~Has(s, type) => Once(u, type)
  <2> SUFFICES ASSUME Once(types, type), ~Has(s, type), NEW i \in 1..Len(u), NEW j \in 1..Len(u),
                      u[i] = type, u[j] = type
               PROVE  i = j
    BY DEF Once
  <2>1. /\ i - Len(s) \in 1..Len(types) /\ types[i - Len(s)] = type
        /\ j - Len(s) \in 1..Len(types) /\ types[j - Len(s)] = type
    BY <1>5 DEF Has
  <2>2. i - Len(s) = j - Len(s)
    BY <2>1 DEF Once
  <2> QED  BY <1>1, <1>2, <2>2
<1>9. Len(s) <= Len(u) /\ Len(u) \in Nat
  BY <1>1, <1>2
<1> QED  BY <1>1, <1>2, <1>3, <1>6, <1>7, <1>8, <1>9 DEF u

(***************************************************************************)
(* What a step leaves alone.                                               *)
(***************************************************************************)
LEMMA TurnSame ==
    ASSUME NEW t \in Turns, TurnOK(t),
           row'[t] = row[t], runner'[t] = runner[t], published'[t] = published[t],
           stored'[t] = stored[t], kept'[t] = kept[t], exists' => exists,
           restarts' = restarts
    PROVE  TurnOK(t)'
BY DEF TurnOK, RowOK, UpsetOK, EventsOK, AnswerOK, Live, Upsets, Published, Produced

LEMMA OpSame ==
    ASSUME NEW h \in Handlers, OpOK(h), op'[h] = op[h],
           \A u \in Turns : row[u] # "none" => row'[u] # "none" /\ (Live(u)' => Live(u))
    PROVE  OpOK(h)'
BY DEF OpOK

LEMMA ViewSame ==
    ASSUME NEW v \in Viewers, ViewOK(v), view'[v] = view[v],
           \A u \in Turns : row[u] # "none" =>
            row'[u] # "none" /\ published'[u] = published[u] /\ (Live(u)' <=> Live(u))
    PROVE  ViewOK(v)'
<1> DEFINE u == view[v].turn
<1>1. CASE view[v].pc = "idle"
  BY <1>1 DEF ViewOK
<1>2. CASE view[v].pc # "idle"
  <2>1. u \in Turns /\ row[u] # "none"
    BY <1>2 DEF ViewOK
  <2>2. row'[u] # "none" /\ published'[u] = published[u] /\ (Live(u)' <=> Live(u))
    BY <2>1
  <2>3. u' = u
    OBVIOUS
  <2>4. \A i : IsDone(u, i)' <=> IsDone(u, i)
    BY <2>2, <2>3 DEF IsDone
  <2>5. Published(u, "done")' <=> Published(u, "done")
    BY <2>2, <2>3 DEF Published
  <2> QED  BY <1>2, <2>2, <2>3, <2>4, <2>5 DEF ViewOK
<1> QED  BY <1>1, <1>2

LEMMA RowsSame ==
    ASSUME InTurn, AtMostOne,
           \A u \in Turns : /\ row'[u] = "none" <=> row[u] = "none"
                            /\ row'[u] = "running" => row[u] = "running"
    PROVE  InTurn' /\ AtMostOne'
<1>1. PICK n \in 0..MaxTurns : \A t \in Turns : row[t] # "none" <=> t <= n
  BY DEF InTurn
<1>2. InTurn'
  BY <1>1 DEF InTurn
<1>3. AtMostOne'
  BY DEF AtMostOne
<1> QED  BY <1>2, <1>3

\* A step of the runner of one turn.
LEMMA OneTurn ==
    ASSUME IInv, Types', NEW t \in Turns, TurnOK(t)', Live(t), OpsOK', ViewsOK',
           \A u \in Turns \ {t} :
            /\ row'[u] = row[u] /\ runner'[u] = runner[u] /\ published'[u] = published[u]
            /\ stored'[u] = stored[u] /\ kept'[u] = kept[u],
           row'[t] = "none" <=> row[t] = "none",
           row'[t] = "running" => row[t] = "running",
           exists' => exists, restarts' = restarts
    PROVE  IInv'
<1>1. \A u \in Turns \ {t} : TurnOK(u)'
  BY TurnSame DEF IInv, TurnsOK
<1>2. TurnsOK'
  BY <1>1 DEF TurnsOK
<1>3. InTurn' /\ AtMostOne'
  BY RowsSame DEF IInv
<1> QED  BY <1>2, <1>3 DEF IInv

LEMMA OpsSame ==
    ASSUME OpsOK, op' = op,
           \A u \in Turns : row[u] # "none" => row'[u] # "none" /\ (Live(u)' => Live(u))
    PROVE  OpsOK'
BY OpSame DEF OpsOK

LEMMA ViewsSame ==
    ASSUME ViewsOK, view' = view,
           \A u \in Turns : row[u] # "none" =>
            row'[u] # "none" /\ published'[u] = published[u] /\ (Live(u)' <=> Live(u))
    PROVE  ViewsOK'
BY ViewSame DEF ViewsOK

\* A viewer that a step of the runner of t does not tell anything.
LEMMA ViewUntold ==
    ASSUME Types, NEW t \in Turns, Live(t), NEW types \in Seq(Events),
           published' = [published EXCEPT ![t] = @ \o types],
           \A u \in Turns : row[u] # "none" => row'[u] # "none",
           \A u \in Turns \ {t} : Live(u)' <=> Live(u),
           NEW v \in Viewers, ViewOK(v), view'[v] = view[v],
           ~ (view[v].pc = "live" /\ view[v].turn = t)
    PROVE  ViewOK(v)'
<1> DEFINE P == Len(published[t])
           Q == Len(published'[t])
<1>1. /\ P \in Nat /\ Q \in Nat /\ P <= Q
      /\ \A i \in 1..P : published'[t][i] = published[t][i]
  <2>1. published[t] \in Seq(Events) /\ published'[t] = published[t] \o types
    BY DEF Types
  <2> QED  BY <2>1, Joined
<1>2. view[v] \in Views /\ ViewOK(v)
  BY DEF Types
<1> HIDE DEF P, Q
<1>4. CASE view[v].turn = t
  <2>1. view'[v] = view[v]
    OBVIOUS
  <2>2. view[v].pc \notin {"catchUp", "status", "recover", "drained", "live"}
    BY <1>2, <1>4 DEF ViewOK
  <2>3. CASE view[v].pc = "idle"
    BY <1>2, <2>1, <2>3 DEF ViewOK
  <2>4. CASE view[v].pc # "idle"
    <3> DEFINE L == Len(view[v].got)
    <3>1. view[v].got = Seqs(0, L) /\ L \in Nat /\ L <= P /\ row[t] # "none"
      BY <1>2, <1>4, <2>4 DEF ViewOK, Views, P
    <3>2. L <= Len(published'[t])
      BY <1>1, <3>1 DEF Q
    <3>3. \A i \in DOMAIN view[v].got : view[v].got[i] \in 1..P
      <4>1. \A i \in 1..L : Seqs(0, L)[i] = i
        BY <3>1, SeqsFromStart
      <4>2. DOMAIN view[v].got = 1..L
        BY <1>2 DEF Views
      <4>3. ASSUME NEW i \in 1..L
            PROVE  view[v].got[i] \in 1..P
        <5>1. view[v].got[i] = i
          BY <3>1, <4>1
        <5> QED  BY <1>1, <3>1, <5>1
      <4> QED  BY <4>2, <4>3
    <3>4. view[v].pc = "closed" => view[v].done \/ \E i \in DOMAIN view[v].got : IsDone(t, view[v].got[i])'
      BY <1>1, <1>2, <1>4, <2>1, <3>3 DEF ViewOK, IsDone
    <3> QED  BY <1>2, <1>4, <2>1, <2>2, <2>4, <3>1, <3>2, <3>4 DEF ViewOK
  <2> QED  BY <2>3, <2>4
<1>5. CASE view[v].turn # t
  <2>1. view'[v] = view[v]
    OBVIOUS
  <2>2. CASE view[v].pc = "idle"
    BY <1>2, <2>1, <2>2 DEF ViewOK
  <2>3. CASE view[v].pc # "idle"
    <3>1. PICK u \in Turns : u = view[v].turn /\ row[u] # "none" /\ u # t
      BY <1>2, <1>5, <2>3 DEF ViewOK
    <3>a. published'[u] = published[u]
      BY <3>1 DEF Types
    <3>b. row'[u] # "none"
      BY <3>1
    <3>c. Live(u)' <=> Live(u)
      BY <3>1
    <3>2. row'[u] # "none" /\ published'[u] = published[u] /\ (Live(u)' <=> Live(u))
      BY <3>a, <3>b, <3>c
    <3>3. u = view'[v].turn
      BY <2>1, <3>1
    <3>4. \A i : IsDone(u, i)' <=> IsDone(u, i)
      BY <3>2 DEF IsDone
    <3>5. Published(u, "done")' <=> Published(u, "done")
      BY <3>2 DEF Published
    <3> QED  BY <1>2, <2>1, <2>3, <3>1, <3>2, <3>3, <3>4, <3>5 DEF ViewOK
  <2> QED  BY <2>2, <2>3
<1> QED  BY <1>4, <1>5

\* A live viewer's queue is given what is published, ..
LEMMA ViewsTold ==
    ASSUME Types, ViewsOK, NEW t \in Turns, Live(t), Live(t)',
           NEW types \in Seq(Events),
           published' = [published EXCEPT ![t] = @ \o types],
           Offer(t, Seqs(Len(published[t]), Len(published'[t]))),
           \A u \in Turns : row[u] # "none" => row'[u] # "none",
           \A u \in Turns \ {t} : Live(u)' <=> Live(u)
    PROVE  ViewsOK'
<1> SUFFICES ASSUME NEW v \in Viewers
             PROVE  ViewOK(v)'
  BY DEF ViewsOK
<1> DEFINE P == Len(published[t])
           Q == Len(published'[t])
<1>1. /\ P \in Nat /\ Q \in Nat /\ P <= Q
      /\ \A i \in 1..P : published'[t][i] = published[t][i]
  <2>1. published[t] \in Seq(Events) /\ published'[t] = published[t] \o types
    BY DEF Types
  <2> QED  BY <2>1, Joined
<1>2. view[v] \in Views /\ ViewOK(v)
  BY DEF Types, ViewsOK
<1> HIDE DEF P, Q
<1>3. CASE view[v].pc = "live" /\ view[v].turn = t
  <2> DEFINE L == Len(view[v].got)
  <2>1. view'[v] = [view[v] EXCEPT !.queue = @ \o Seqs(P, Q)]
    BY <1>3 DEF Offer, P, Q
  <2>2. L \in Nat /\ L <= P /\ view[v].queue = Seqs(L, P)
    BY <1>2, <1>3 DEF ViewOK, Views, P
  <2>3. view[v].queue \o Seqs(P, Q) = Seqs(L, Q)
    BY <1>1, <2>2, SeqsJoin
  <2>4. /\ view'[v].queue = Seqs(L, Q) /\ view'[v].pc = "live" /\ view'[v].turn = t
        /\ view'[v].got = view[v].got
    BY <1>2, <1>3, <2>1, <2>3 DEF Views
  <2> QED  BY <1>1, <1>2, <1>3, <2>2, <2>4 DEF ViewOK, P, Q
<1>4. CASE ~ (view[v].pc = "live" /\ view[v].turn = t)
  <2>1. view'[v] = view[v]
    BY <1>4 DEF Offer
  <2> QED  BY <1>2, <1>4, <2>1, ViewUntold
<1> QED  BY <1>3, <1>4

\* .. and the sentinel when the runner ends.
LEMMA ViewsClosed ==
    ASSUME Types, ViewsOK, NEW t \in Turns, Live(t), ~Live(t)', Published(t, "done")',
           NEW types \in Seq(Events),
           published' = [published EXCEPT ![t] = @ \o types],
           Offer(t, Append(Seqs(Len(published[t]), Len(published'[t])), End)),
           \A u \in Turns : row[u] # "none" => row'[u] # "none",
           \A u \in Turns \ {t} : Live(u)' <=> Live(u)
    PROVE  ViewsOK'
<1> SUFFICES ASSUME NEW v \in Viewers
             PROVE  ViewOK(v)'
  BY DEF ViewsOK
<1> DEFINE P == Len(published[t])
           Q == Len(published'[t])
<1>1. /\ P \in Nat /\ Q \in Nat /\ P <= Q
      /\ \A i \in 1..P : published'[t][i] = published[t][i]
  <2>1. published[t] \in Seq(Events) /\ published'[t] = published[t] \o types
    BY DEF Types
  <2> QED  BY <2>1, Joined
<1>2. view[v] \in Views /\ ViewOK(v)
  BY DEF Types, ViewsOK
<1> HIDE DEF P, Q
<1>3. CASE view[v].pc = "live" /\ view[v].turn = t
  <2> DEFINE L == Len(view[v].got)
  <2>1. view'[v] = [view[v] EXCEPT !.queue = @ \o Append(Seqs(P, Q), End)]
    BY <1>3 DEF Offer, P, Q
  <2>2. L \in Nat /\ L <= P /\ view[v].queue = Seqs(L, P)
    BY <1>2, <1>3 DEF ViewOK, Views, P
  <2>3. view[v].queue \o Append(Seqs(P, Q), End) = Append(Seqs(L, Q), End)
    <3>1. Seqs(L, P) \in Seq(Nat) /\ Seqs(P, Q) \in Seq(Nat) /\ End \in Nat
      BY <1>1, <2>2, SeqsIs DEF End
    <3>2. Seqs(L, P) \o Append(Seqs(P, Q), End) = Append(Seqs(L, P) \o Seqs(P, Q), End)
      BY <3>1, AppendConcat
    <3> QED  BY <1>1, <2>2, <3>2, SeqsJoin
  <2>4. /\ view'[v].queue = Append(Seqs(L, Q), End) /\ view'[v].pc = "live"
        /\ view'[v].turn = t /\ view'[v].got = view[v].got
    BY <1>2, <1>3, <2>1, <2>3 DEF Views
  <2> QED  BY <1>1, <1>2, <1>3, <2>2, <2>4 DEF ViewOK, P, Q
<1>4. CASE ~ (view[v].pc = "live" /\ view[v].turn = t)
  <2>1. view'[v] = view[v]
    BY <1>4 DEF Offer
  <2> QED  BY <1>2, <1>4, <2>1, ViewUntold
<1> QED  BY <1>3, <1>4

(***************************************************************************)
(* What is published and stored.                                           *)
(***************************************************************************)
LEMMA FewEvents ==
    ASSUME NEW a \in Events, NEW b \in Events
    PROVE  /\ <<>> \in Seq(Events) /\ <<a>> \in Seq(Events) /\ <<a, b>> \in Seq(Events)
           /\ \A x : ~Has(<<>>, x)
           /\ \A x : Has(<<a>>, x) <=> x = a
           /\ \A x : Has(<<a, b>>, x) <=> x \in {a, b}
           /\ \A x : Once(<<a>>, x)
           /\ \A x : a # b => Once(<<a, b>>, x)
<1>1. /\ <<>> \in Seq(Events) /\ <<a>> \in Seq(Events) /\ <<a, b>> \in Seq(Events)
      /\ Len(<<>>) = 0 /\ Len(<<a>>) = 1 /\ Len(<<a, b>>) = 2
      /\ <<a>>[1] = a /\ <<a, b>>[1] = a /\ <<a, b>>[2] = b
  OBVIOUS
<1>2. 1..0 = {} /\ 1..1 = {1} /\ 1..2 = {1, 2}
  OBVIOUS
<1> QED  BY <1>1, <1>2 DEF Has, Once

DoneOk(t) == \A i, j \in DOMAIN published[t] :
                published[t][i] = "done" /\ published[t][j] = "done" => i = j

LEMMA PublishedIs ==
    ASSUME Types, NEW t \in Turns, NEW types \in Seq(Events),
           published' = [published EXCEPT ![t] = @ \o types]
    PROVE  /\ published' \in [Turns -> Seq(Events)]
           /\ \A u \in Turns \ {t} : published'[u] = published[u]
           /\ \A type : Published(t, type)' <=> Published(t, type) \/ Has(types, type)
           /\ Len(published[t]) \in Nat /\ Len(published'[t]) \in Nat
           /\ Len(published[t]) <= Len(published'[t])
           /\ DoneOk(t) /\ ~Has(types, "done") => DoneOk(t)'
           /\ ~Published(t, "done") /\ Once(types, "done") => DoneOk(t)'
<1>1. PICK s \in Seq(Events) : s = published[t]
  BY DEF Types
<1>2. published'[t] = s \o types
  BY <1>1 DEF Types
<1>3. s \o types \in Seq(Events)
  BY Joined
<1>4. DOMAIN s = 1..Len(s) /\ DOMAIN (s \o types) = 1..Len(s \o types)
  BY <1>3
<1>5. \A type : /\ Published(t, type) <=> Has(s, type)
                /\ Published(t, type)' <=> Has(s \o types, type)
  BY <1>1, <1>2, <1>4 DEF Published, Has
<1>6. (DoneOk(t) <=> Once(s, "done")) /\ (DoneOk(t)' <=> Once(s \o types, "done"))
  BY <1>1, <1>2, <1>4 DEF DoneOk, Once
<1>7. \A type : Published(t, type)' <=> Published(t, type) \/ Has(types, type)
  BY <1>5, Joined
<1>8. published' \in [Turns -> Seq(Events)] /\ \A u \in Turns \ {t} : published'[u] = published[u]
  BY <1>1, <1>3 DEF Types
<1>9. Len(s) \in Nat /\ Len(s \o types) \in Nat /\ Len(s) <= Len(s \o types)
  BY Joined
<1>10. Once(s, "done") /\ ~Has(types, "done") => Once(s \o types, "done")
  BY Joined
<1>11. ~Has(s, "done") /\ Once(types, "done") => Once(s \o types, "done")
  BY Joined
<1> QED  BY <1>1, <1>2, <1>5, <1>6, <1>7, <1>8, <1>9, <1>10, <1>11

LEMMA CreatedIs ==
    ASSUME InTurn
    PROVE  /\ Created \in 0..MaxTurns
           /\ \A t \in Turns : row[t] # "none" <=> t <= Created
<1>1. PICK n \in 0..MaxTurns : \A t \in Turns : row[t] # "none" <=> t <= n
  BY DEF InTurn
<1>2. MaxTurns \in Nat
  BY TurnAssumption
<1>3. {t \in Turns : row[t] # "none"} = 1..n
  BY <1>1, <1>2 DEF Turns
<1>4. Cardinality(1..n) = n
  BY <1>1, <1>2, FS_Interval
<1> QED  BY <1>1, <1>3, <1>4 DEF Created

\* A step that writes nothing but its own turn, and does not set it running.
Wrote(t) ==
    /\ exists' = exists
    /\ row' \in [Turns -> {"none", "running", "gone"} \cup Final]
    /\ stored' \in [Turns -> Nat] /\ kept' \in [Turns -> Nat] /\ lastId' \in Nat
    /\ thread' \subseteq [id : 1..lastId', role : {"user", "assistant"}, turn : Turns,
                          after : Turns]
    /\ \A u \in Turns \ {t} :
        row'[u] = row[u] /\ stored'[u] = stored[u] /\ kept'[u] = kept[u]
    /\ row'[t] = "none" <=> row[t] = "none"
    /\ row'[t] = "running" => row[t] = "running"

LEMMA VerdictIs ==
    ASSUME NEW t \in Turns, Settles(t)
    PROVE  /\ Verdict(t) \in {"completed", "failed", "cancelled"}
           /\ runner[t].pc \in {"settle", "failSettle"} => Verdict(t) # "cancelled"
<1>1. CASE runner[t].pc = "settle"
  BY <1>1 DEF Verdict, Outcome
<1>2. CASE runner[t].pc = "cancelSettle"
  BY <1>2 DEF Verdict
<1>3. CASE runner[t].pc = "failSettle"
  BY <1>3 DEF Verdict
<1> QED  BY <1>1, <1>2, <1>3 DEF Settles

LEMMA LandsWrites ==
    ASSUME Types, InTurn, NEW t \in Turns, TurnOK(t), Live(t), Lands(t)
    PROVE  /\ Wrote(t)
           /\ kept'[t] >= kept[t]
           /\ exists /\ Answers(t) => kept'[t] > 0
           /\ stored'[t] \in {stored[t], runner[t].snapshot}
           /\ row'[t] = IF Settles(t) /\ HasRow(t) THEN Verdict(t) ELSE row[t]
<1>1. /\ row[t] \in {"none", "running", "gone"} \cup Final /\ row[t] # "none"
      /\ stored[t] \in Nat /\ kept[t] \in Nat
      /\ runner[t] \in Runners /\ runner[t].snapshot \in Nat
  BY DEF Types, TurnOK, RowOK, Live, Runners
<1>2. /\ row' \in [Turns -> {"none", "running", "gone"} \cup Final]
      /\ \A u \in Turns \ {t} : row'[u] = row[u]
      /\ row'[t] = IF Settles(t) /\ HasRow(t) THEN Verdict(t) ELSE row[t]
  <2>1. CASE Settles(t) /\ HasRow(t)
    <3>1. row' = [row EXCEPT ![t] = Verdict(t)] /\ Verdict(t) \in Final
      BY <2>1, VerdictIs DEF Lands, SetStatus, Final
    <3> QED  BY <2>1, <3>1 DEF Types
  <2>2. CASE ~ (Settles(t) /\ HasRow(t))
    <3>1. row' = row
      BY <2>2 DEF Lands, SetStatus
    <3> QED  BY <2>2, <3>1 DEF Types
  <2> QED  BY <2>1, <2>2
<1>3. (row'[t] = "none" <=> row[t] = "none") /\ (row'[t] = "running" => row[t] = "running")
  BY <1>1, <1>2, VerdictIs
<1>4. /\ stored' \in [Turns -> Nat] /\ stored'[t] \in {stored[t], runner[t].snapshot}
      /\ \A u \in Turns \ {t} : stored'[u] = stored[u]
  BY <1>1 DEF Lands, Types
<1>5. /\ kept' \in [Turns -> Nat] /\ \A u \in Turns \ {t} : kept'[u] = kept[u]
      /\ kept'[t] >= kept[t] /\ (exists /\ Answers(t) => kept'[t] > 0)
  <2>1. CASE exists /\ Answers(t)
    BY <2>1, <1>1 DEF Lands, Types
  <2>2. CASE ~ (exists /\ Answers(t))
    <3>1. kept' = kept
      BY <2>2 DEF Lands
    <3> QED  BY <2>2, <3>1, <1>1 DEF Types
  <2> QED  BY <2>1, <2>2
<1>6. /\ lastId' \in Nat
      /\ thread' \subseteq [id : 1..lastId', role : {"user", "assistant"}, turn : Turns,
                            after : Turns]
  <2>1. CASE UNCHANGED <<thread, lastId>>
    BY <2>1 DEF Types
  <2>2. ASSUME NEW role \in {"user", "assistant"}, Post(t, role)
        PROVE  <1>6!1 /\ <1>6!2
    <3>1. Created \in Turns
      <4>1. t <= Created /\ Created \in 0..MaxTurns
        BY <1>1, CreatedIs
      <4> QED  BY <4>1, TurnAssumption DEF Turns
    <3>2. lastId \in Nat /\ lastId' = lastId + 1
      BY <2>2 DEF Post, Types
    <3>3. 1..lastId \subseteq 1..lastId' /\ lastId + 1 \in 1..lastId'
      BY <3>2
    <3>4. thread \subseteq [id : 1..lastId', role : {"user", "assistant"}, turn : Turns,
                           after : Turns]
      BY <3>3 DEF Types
    <3>5. [id |-> lastId + 1, role |-> role, turn |-> t, after |-> Created]
            \in [id : 1..lastId', role : {"user", "assistant"}, turn : Turns, after : Turns]
      BY <3>1, <3>3
    <3> QED  BY <2>2, <3>2, <3>4, <3>5 DEF Post
  <2> QED  BY <2>1, <2>2 DEF Lands
<1>7. exists' = exists
  BY DEF Lands
<1> QED  BY <1>2, <1>3, <1>4, <1>5, <1>6, <1>7 DEF Wrote

LEMMA NothingWritten ==
    ASSUME Types, NEW t \in Turns, UNCHANGED store
    PROVE  Wrote(t) /\ row'[t] = row[t] /\ stored'[t] = stored[t] /\ kept'[t] = kept[t]
BY DEF Types, Wrote, store

(***************************************************************************)
(* The three kinds of steps that a runner takes.                           *)
(***************************************************************************)
\* No request starts to settle a row, and the bounds are kept.
Aside ==
    /\ op' \in [Handlers -> Ops] /\ UNCHANGED bounds
    /\ \A h \in Handlers : op'[h] = op[h] \/ op'[h].pc \notin {"recover", "settle"}

Streams == cap' \in [Turns -> Caps] /\ bus' \in [Turns -> Seq(Emitted)]

LEMMA RunnerMoves ==
    ASSUME IInv, NEW t \in Turns, Live(t), Wrote(t), Aside, Streams, TurnOK(t)',
           NEW r \in Runners, runner' = [runner EXCEPT ![t] = r], r.pc # "none",
           published' \in [Turns -> Seq(Events)], view' \in [Viewers -> Views],
           \A u \in Turns \ {t} : published'[u] = published[u],
           ViewsOK'
    PROVE  IInv'
<1>1. Types'
  BY DEF IInv, Types, Wrote, Aside, Streams, bounds
<1>2. OpsOK'
  <2> SUFFICES ASSUME NEW h \in Handlers, op'[h].pc \in {"recover", "settle"}
               PROVE  op'[h].turn \in Turns /\ row'[op'[h].turn] # "none" /\ ~Live(op[h].turn)'
    BY DEF OpsOK, OpOK, Aside
  <2>1. op'[h] = op[h]
    BY DEF Aside
  <2>2. PICK u \in Turns : u = op[h].turn /\ row[u] # "none" /\ ~Live(u)
    BY <2>1 DEF IInv, OpsOK, OpOK
  <2>3. u # t
    BY <2>2
  <2>4. row'[u] # "none" /\ ~Live(u)'
    BY <2>2, <2>3 DEF Wrote, Live, IInv, Types
  <2> QED  BY <2>1, <2>2, <2>4
<1>3. \A u \in Turns \ {t} : runner'[u] = runner[u]
  BY DEF IInv, Types
<1> QED  BY <1>1, <1>2, <1>3, OneTurn DEF Wrote, Aside, bounds

LEMMA Quiet ==
    ASSUME IInv, NEW t \in Turns, Live(t), Wrote(t), Aside, Streams, TurnOK(t)',
           NEW r \in Runners, runner' = [runner EXCEPT ![t] = r], r.pc \notin {"none", "ended"},
           UNCHANGED <<published, view>>
    PROVE  IInv'
<1>1. \A u \in Turns : row[u] # "none" => row'[u] # "none"
  BY DEF Wrote
<1>2. \A u \in Turns : Live(u)' <=> Live(u)
  <2> TAKE u \in Turns
  <2>1. runner'[u] = IF u = t THEN r ELSE runner[u]
    BY DEF IInv, Types
  <2> QED  BY <2>1 DEF Live
<1>3. ViewsOK'
  BY <1>1, <1>2, ViewsSame DEF IInv
<1>4. published' \in [Turns -> Seq(Events)] /\ view' \in [Viewers -> Views]
  BY DEF IInv, Types
<1> QED  BY <1>3, <1>4, RunnerMoves

LEMMA Offered ==
    ASSUME Types, NEW t \in Turns, NEW seqs \in Seq(Nat), Offer(t, seqs)
    PROVE  view' \in [Viewers -> Views]
<1> SUFFICES ASSUME NEW v \in Viewers
             PROVE  view'[v] \in Views
  BY DEF Offer
<1>1. view[v] \in Views
  BY DEF Types
<1>2. CASE view[v].pc = "live" /\ view[v].turn = t
  <2>1. view[v].queue \o seqs \in Seq(Nat)
    BY <1>1 DEF Views
  <2> QED  BY <1>1, <1>2, <2>1 DEF Offer, Views
<1>3. CASE ~ (view[v].pc = "live" /\ view[v].turn = t)
  BY <1>1, <1>3 DEF Offer
<1> QED  BY <1>2, <1>3

LEMMA Speaks ==
    ASSUME IInv, NEW t \in Turns, Live(t), Wrote(t), Aside, Streams, TurnOK(t)',
           NEW r \in Runners, runner' = [runner EXCEPT ![t] = r], r.pc \notin {"none", "ended"},
           NEW types \in Seq(Events), Publish(t, types)
    PROVE  IInv'
<1>1. Types /\ ViewsOK
  BY DEF IInv
<1>2. published' = [published EXCEPT ![t] = @ \o types]
  BY DEF Publish
<1>3. /\ published' \in [Turns -> Seq(Events)]
      /\ \A u \in Turns \ {t} : published'[u] = published[u]
      /\ Len(published[t]) \in Nat /\ Len(published'[t]) \in Nat
      /\ Len(published[t]) <= Len(published'[t])
  BY <1>1, <1>2, PublishedIs
<1>4. PICK seqs \in Seq(Nat) : seqs = Seqs(Len(published[t]), Len(published'[t]))
  BY <1>3, SeqsIs
<1>5. view' \in [Viewers -> Views]
  BY <1>1, <1>4, Offered DEF Publish
<1>6. \A u \in Turns : row[u] # "none" => row'[u] # "none"
  BY DEF Wrote
<1>7. Live(t)' /\ \A u \in Turns \ {t} : Live(u)' <=> Live(u)
  <2>1. runner'[t] = r /\ \A u \in Turns \ {t} : runner'[u] = runner[u]
    BY <1>1 DEF Types
  <2> QED  BY <2>1 DEF Live
<1>8. ViewsOK'
  BY <1>1, <1>2, <1>6, <1>7, ViewsTold DEF Publish
<1> QED  BY <1>3, <1>5, <1>8, RunnerMoves

LEMMA RunnerEnds ==
    ASSUME IInv, NEW t \in Turns, Live(t), Wrote(t), Aside, Streams, TurnOK(t)',
           NEW r \in Runners, runner' = [runner EXCEPT ![t] = r], r.pc = "ended",
           NEW types \in Seq(Events), published' = [published EXCEPT ![t] = @ \o types],
           Offer(t, Append(Seqs(Len(published[t]), Len(published'[t])), End)),
           Published(t, "done")'
    PROVE  IInv'
<1>1. Types /\ ViewsOK
  BY DEF IInv
<1>2. /\ published' \in [Turns -> Seq(Events)]
      /\ \A u \in Turns \ {t} : published'[u] = published[u]
      /\ Len(published[t]) \in Nat /\ Len(published'[t]) \in Nat
      /\ Len(published[t]) <= Len(published'[t])
  BY <1>1, PublishedIs
<1>3. PICK seqs \in Seq(Nat) : seqs = Append(Seqs(Len(published[t]), Len(published'[t])), End)
  <2>1. End \in Nat /\ Seqs(Len(published[t]), Len(published'[t])) \in Seq(Nat)
    BY <1>2, SeqsIs DEF End
  <2>2. Append(Seqs(Len(published[t]), Len(published'[t])), End) \in Seq(Nat)
    BY <2>1, AppendProperties
  <2> QED  BY <2>2
<1>4. view' \in [Viewers -> Views]
  BY <1>1, <1>3, Offered
<1>5. \A u \in Turns : row[u] # "none" => row'[u] # "none"
  BY DEF Wrote
<1>6. ~Live(t)' /\ \A u \in Turns \ {t} : Live(u)' <=> Live(u)
  <2>1. runner'[t] = r /\ \A u \in Turns \ {t} : runner'[u] = runner[u]
    BY <1>1 DEF Types
  <2> QED  BY <2>1 DEF Live
<1>7. ViewsOK'
  BY <1>1, <1>5, <1>6, ViewsClosed
<1> QED  BY <1>2, <1>4, <1>7, RunnerMoves

(***************************************************************************)
(* The runner.                                                             *)
(***************************************************************************)
\* What is published stays so when nothing more is.
LEMMA SamePublished ==
    ASSUME NEW t \in Turns, published' = published
    PROVE  /\ \A type : Published(t, type)' <=> Published(t, type)
           /\ Produced(t)' <=> Produced(t)
           /\ Len(published'[t]) = Len(published[t])
BY DEF Published, Produced

LEMMA RunnerIs ==
    ASSUME Types, NEW t \in Turns
    PROVE  runner[t] \in Runners
BY DEF Types

LEMMA OpUnchanged ==
    ASSUME Types, UNCHANGED <<op, bounds>>
    PROVE  Aside
BY DEF Types, Aside

LEMMA PreparedKeeps ==
    ASSUME IInv, NEW t \in Turns, Prepared(t), UNCHANGED <<op, bounds>>
    PROVE  IInv'
<1>1. Types /\ InTurn /\ TurnOK(t) /\ runner[t] \in Runners
  BY RunnerIs DEF IInv, TurnsOK
<1>2. runner[t].pc = "prepare" /\ Live(t)
  BY DEF Prepared, Live
<1>3. /\ Wrote(t) /\ row'[t] = row[t] /\ stored'[t] \in {stored[t], runner[t].snapshot}
  <2>1. ~Settles(t)
    BY <1>2 DEF Settles
  <2> QED  BY <1>1, <1>2, <2>1, LandsWrites DEF Prepared
<1>4. PICK r \in Runners : r = [runner[t] EXCEPT !.pc = "stream"]
  BY <1>1 DEF Runners, Before
<1>5. /\ runner' = [runner EXCEPT ![t] = r] /\ runner'[t] = r
      /\ r.pc = "stream" /\ r.cancels = runner[t].cancels /\ r.snapshot = runner[t].snapshot
      /\ r.doneSent = runner[t].doneSent
  BY <1>1, <1>4 DEF Prepared, Goto, Types, Runners
<1>6. Streams
  BY <1>1 DEF Prepared, Streams, Types, Caps
<1>7. published' = published /\ view' = view
  BY DEF Prepared
<1>8. TurnOK(t)'
  <2>1. RowOK(t)'
    BY <1>1, <1>2, <1>3, <1>5, <1>7 DEF TurnOK, RowOK, Live, Before, Failed, Wrote
  <2>2. UpsetOK(t)' /\ AnswerOK(t)'
    BY <1>5 DEF UpsetOK, AnswerOK, Cancelled, Failed
  <2>3. EventsOK(t)'
    BY <1>1, <1>2, <1>3, <1>5, <1>7, SamePublished
       DEF TurnOK, EventsOK, Before, Cancelled, Failed
  <2> QED  BY <2>1, <2>2, <2>3 DEF TurnOK
<1> QED  BY <1>1, <1>2, <1>3, <1>5, <1>6, <1>7, <1>8, Quiet, OpUnchanged

LEMMA SaveAnswerKeeps ==
    ASSUME IInv, NEW t \in Turns, SaveAnswer(t), UNCHANGED <<op, bounds>>
    PROVE  IInv'
<1>1. Types /\ InTurn /\ TurnOK(t) /\ runner[t] \in Runners
  BY RunnerIs DEF IInv, TurnsOK
<1>2. runner[t].pc = "save" /\ Live(t) /\ exists
  BY DEF SaveAnswer, Live
<1>3. /\ Wrote(t) /\ row'[t] = row[t] /\ kept'[t] > 0
      /\ stored'[t] \in {stored[t], runner[t].snapshot}
  <2>1. ~Settles(t) /\ Answers(t)
    BY <1>2 DEF Settles, Answers
  <2> QED  BY <1>1, <1>2, <2>1, LandsWrites DEF SaveAnswer
<1>4. published' = published /\ view' = view /\ Len(published[t]) \in Nat
  BY <1>1 DEF SaveAnswer, Types
<1>5. PICK r \in Runners : r = [runner[t] EXCEPT !.pc = "flush", !.flushed = TRUE,
                                                  !.snapshot = Len(published[t])]
  BY <1>1, <1>4 DEF Runners, Before
<1>6. /\ runner' = [runner EXCEPT ![t] = r] /\ runner'[t] = r
      /\ r.pc = "flush" /\ r.cancels = runner[t].cancels /\ r.snapshot = Len(published[t])
      /\ r.doneSent = runner[t].doneSent
  BY <1>1, <1>4, <1>5 DEF SaveAnswer, Buffer, Types, Runners
<1>7. Streams
  BY <1>1 DEF SaveAnswer, Streams, Types
<1>8. TurnOK(t)'
  <2>1. RowOK(t)'
    BY <1>1, <1>2, <1>3, <1>4, <1>6 DEF TurnOK, RowOK, Live, Before, Failed, Wrote
  <2>2. UpsetOK(t)' /\ AnswerOK(t)'
    BY <1>3, <1>6 DEF UpsetOK, AnswerOK, Cancelled, Failed
  <2>3. EventsOK(t)'
    BY <1>1, <1>2, <1>3, <1>4, <1>6, SamePublished
       DEF TurnOK, EventsOK, Before, Cancelled, Failed
  <2> QED  BY <2>1, <2>2, <2>3 DEF TurnOK
<1> QED  BY <1>1, <1>2, <1>3, <1>4, <1>6, <1>7, <1>8, Quiet, OpUnchanged

LEMMA AfterFlushIs ==
    ASSUME NEW t \in Turns
    PROVE  /\ Produced(t) => AfterFlush(t) = "keep"
           /\ ~Produced(t) => AfterFlush(t) = "cancelSettle"
BY DEF AfterFlush

LEMMA FlushKeeps ==
    ASSUME IInv, NEW t \in Turns, Flush(t), UNCHANGED <<op, bounds>>
    PROVE  IInv'
<1>1. Types /\ InTurn /\ TurnOK(t) /\ runner[t] \in Runners
  BY RunnerIs DEF IInv, TurnsOK
<1>2. runner[t].pc \in {"flush", "cancelFlush", "failFlush"} /\ Live(t)
  BY DEF Flush, Flushes, Live
<1>3. /\ Wrote(t) /\ row'[t] = row[t] /\ kept'[t] >= kept[t] /\ exists' = exists
      /\ stored'[t] \in {stored[t], runner[t].snapshot}
  <2>1. ~Settles(t)
    BY <1>2 DEF Settles
  <2> QED  BY <1>1, <1>2, <2>1, LandsWrites DEF Flush, Wrote
<1>4. published' = published /\ view' = view
  BY DEF Flush
<1>5. PICK pc : /\ runner' = [runner EXCEPT ![t].pc = pc]
                /\ \/ runner[t].pc = "flush" /\ pc = "settle"
                   \/ runner[t].pc = "failFlush" /\ pc = "failSettle"
                   \/ runner[t].pc = "cancelFlush" /\ pc = AfterFlush(t)
  BY <1>2 DEF Flush, Goto
<1>6. \/ runner[t].pc = "flush" /\ pc = "settle"
      \/ runner[t].pc = "failFlush" /\ pc = "failSettle"
      \/ runner[t].pc = "cancelFlush" /\ pc = "keep"
      \/ runner[t].pc = "cancelFlush" /\ pc = "cancelSettle" /\ ~Produced(t)
  BY <1>5, AfterFlushIs
<1>7. PICK r \in Runners : r = [runner[t] EXCEPT !.pc = pc]
  BY <1>1, <1>6 DEF Runners, Before, Cancelled, Failed
<1>8. /\ runner' = [runner EXCEPT ![t] = r] /\ runner'[t] = r
      /\ r.pc = pc /\ r.cancels = runner[t].cancels /\ r.snapshot = runner[t].snapshot
      /\ r.doneSent = runner[t].doneSent
  BY <1>1, <1>5, <1>7 DEF Types, Runners
<1>9. Streams
  BY <1>1 DEF Flush, Streams, Types
<1>10. TurnOK(t)'
  <2>1. RowOK(t)'
    BY <1>1, <1>3, <1>4, <1>6, <1>8 DEF TurnOK, RowOK, Live, Before, Failed, Wrote
  <2>2. UpsetOK(t)'
    BY <1>1, <1>4, <1>6, <1>8, SamePublished DEF TurnOK, UpsetOK, Cancelled, Failed
  <2>3. AnswerOK(t)'
    <3>1. kept[t] \in Nat /\ kept'[t] \in Nat
      BY <1>1, <1>3 DEF Types, Wrote
    <3> QED  BY <1>1, <1>3, <1>4, <1>6, <1>8, <3>1, SamePublished DEF TurnOK, AnswerOK, Failed
  <2>4. EventsOK(t)'
    BY <1>1, <1>3, <1>4, <1>6, <1>8, SamePublished
       DEF TurnOK, EventsOK, Before, Cancelled, Failed
  <2> QED  BY <2>1, <2>2, <2>3, <2>4 DEF TurnOK
<1>11. r.pc \notin {"none", "ended"}
  BY <1>6, <1>8
<1> QED  BY <1>1, <1>2, <1>3, <1>4, <1>8, <1>9, <1>10, <1>11, Quiet, OpUnchanged

LEMMA KeepPartialKeeps ==
    ASSUME IInv, NEW t \in Turns, KeepPartial(t), UNCHANGED <<op, bounds>>
    PROVE  IInv'
<1>1. Types /\ InTurn /\ TurnOK(t) /\ runner[t] \in Runners
  BY RunnerIs DEF IInv, TurnsOK
<1>2. runner[t].pc = "keep" /\ Live(t)
  BY DEF KeepPartial, Live
<1>3. /\ Wrote(t) /\ row'[t] = row[t] /\ (exists' => kept'[t] > 0)
      /\ stored'[t] \in {stored[t], runner[t].snapshot}
  <2>1. ~Settles(t) /\ Answers(t)
    BY <1>2 DEF Settles, Answers
  <2> QED  BY <1>1, <1>2, <2>1, LandsWrites DEF KeepPartial, Wrote
<1>4. published' = published /\ view' = view
  BY DEF KeepPartial
<1>5. PICK r \in Runners : r = [runner[t] EXCEPT !.pc = "cancelSettle"]
  BY <1>1 DEF Runners, Cancelled
<1>6. /\ runner' = [runner EXCEPT ![t] = r] /\ runner'[t] = r
      /\ r.pc = "cancelSettle" /\ r.cancels = runner[t].cancels
      /\ r.snapshot = runner[t].snapshot /\ r.doneSent = runner[t].doneSent
  BY <1>1, <1>5 DEF KeepPartial, Goto, Types, Runners
<1>7. Streams
  BY <1>1 DEF KeepPartial, Streams, Types
<1>8. TurnOK(t)'
  <2>1. RowOK(t)'
    BY <1>1, <1>2, <1>3, <1>4, <1>6 DEF TurnOK, RowOK, Live, Before, Failed, Wrote
  <2>2. UpsetOK(t)' /\ AnswerOK(t)'
    BY <1>1, <1>2, <1>3, <1>6 DEF TurnOK, UpsetOK, AnswerOK, Cancelled, Failed
  <2>3. EventsOK(t)'
    BY <1>1, <1>2, <1>3, <1>4, <1>6, SamePublished
       DEF TurnOK, EventsOK, Before, Cancelled, Failed
  <2> QED  BY <2>1, <2>2, <2>3 DEF TurnOK
<1> QED  BY <1>1, <1>2, <1>3, <1>4, <1>6, <1>7, <1>8, Quiet, OpUnchanged

\* A runner with a row that goes on without having written.
LEMMA RelayKeeps ==
    ASSUME IInv, NEW t \in Turns, Relay(t), UNCHANGED <<op, bounds>>
    PROVE  IInv'
<1>1. Types /\ TurnOK(t) /\ runner[t] \in Runners
  BY RunnerIs DEF IInv, TurnsOK
<1>2. runner[t].pc = "stream" /\ Live(t) /\ bus[t] # <<>>
  BY DEF Relay, Live
<1>3. Wrote(t) /\ row'[t] = row[t] /\ stored'[t] = stored[t]
  BY <1>1, NothingWritten DEF Relay
<1>4. PICK e \in Emitted : e = Head(bus[t])
  BY <1>1, <1>2 DEF Types
<1>5. Streams
  <2>1. Tail(bus[t]) \in Seq(Emitted)
    BY <1>1, <1>2 DEF Types
  <2> QED  BY <1>1, <2>1 DEF Relay, Streams, Types
<1>6. CASE e = "done"
  <2>1. PICK r \in Runners : r = [runner[t] EXCEPT !.pc = "save"]
    BY <1>1 DEF Runners, Before
  <2>2. /\ runner' = [runner EXCEPT ![t] = r] /\ runner'[t] = r
        /\ r.pc = "save" /\ r.cancels = runner[t].cancels /\ r.snapshot = runner[t].snapshot
        /\ r.doneSent = runner[t].doneSent
    BY <1>1, <1>4, <1>6, <2>1 DEF Relay, Goto, Types, Runners
  <2>3. published' = published /\ view' = view
    BY <1>4, <1>6 DEF Relay
  <2>4. TurnOK(t)'
    <3>1. RowOK(t)'
      BY <1>1, <1>2, <1>3, <2>2, <2>3 DEF TurnOK, RowOK, Live, Before, Failed, Wrote
    <3>2. UpsetOK(t)' /\ AnswerOK(t)'
      BY <2>2 DEF UpsetOK, AnswerOK, Cancelled, Failed
    <3>3. EventsOK(t)'
      BY <1>1, <1>2, <1>3, <2>2, <2>3, SamePublished
         DEF TurnOK, EventsOK, Before, Cancelled, Failed
    <3> QED  BY <3>1, <3>2, <3>3 DEF TurnOK
  <2> QED  BY <1>2, <1>3, <1>5, <2>2, <2>3, <2>4, <1>1, Quiet, OpUnchanged
<1>7. CASE e # "done"
  <2>1. PICK types \in Seq(Events) : types = <<e>> /\ ~Has(types, "done")
    <3>1. e \in Events
      BY DEF Emitted, Events
    <3> QED  BY <1>7, <3>1, FewEvents
  <2>2. Publish(t, types) /\ runner' = runner
    BY <1>4, <1>7, <2>1 DEF Relay
  <2>3. /\ \A type : Published(t, type)' <=> Published(t, type) \/ Has(types, type)
        /\ Len(published[t]) \in Nat /\ Len(published'[t]) \in Nat
        /\ Len(published[t]) <= Len(published'[t])
        /\ DoneOk(t) => DoneOk(t)'
    BY <1>1, <2>1, <2>2, PublishedIs DEF Publish
  <2>4. TurnOK(t)'
    <3>1. RowOK(t)'
      BY <1>1, <1>2, <1>3, <2>2 DEF TurnOK, RowOK, Live, Before, Failed, Wrote
    <3>2. UpsetOK(t)' /\ AnswerOK(t)'
      BY <1>2, <2>2 DEF UpsetOK, AnswerOK, Cancelled, Failed
    <3>3. EventsOK(t)'
      <4>1. runner[t].snapshot \in Nat /\ stored[t] \in Nat
        BY <1>1 DEF Runners, Types
      <4> QED  BY <1>1, <1>2, <1>3, <2>1, <2>2, <2>3, <4>1
               DEF TurnOK, EventsOK, DoneOk, Before, Cancelled, Failed
    <3> QED  BY <3>1, <3>2, <3>3 DEF TurnOK
  <2>5. runner' = [runner EXCEPT ![t] = runner[t]]
    BY <1>1, <2>2 DEF Types
  <2> QED  BY <1>1, <1>2, <1>3, <1>5, <2>2, <2>4, <2>5, Speaks, OpUnchanged
<1> QED  BY <1>6, <1>7

LEMMA SettleKeeps ==
    ASSUME IInv, NEW t \in Turns, Settle(t), UNCHANGED <<op, bounds>>
    PROVE  IInv'
<1>1. Types /\ InTurn /\ TurnOK(t) /\ runner[t] \in Runners
  BY RunnerIs DEF IInv, TurnsOK
<1>2. runner[t].pc = "settle" /\ Live(t) /\ Settles(t)
  BY DEF Settle, Live, Settles
<1>3. /\ Wrote(t) /\ row'[t] = (IF HasRow(t) THEN Verdict(t) ELSE row[t])
      /\ kept'[t] >= kept[t]
      /\ stored'[t] \in {stored[t], runner[t].snapshot}
  BY <1>1, <1>2, LandsWrites DEF Settle
<1>4. row[t] # "none" /\ row'[t] \notin {"none", "running", "interrupted", "cancelled"}
  <2>1. row[t] # "none" /\ row[t] \notin {"interrupted", "cancelled"}
    BY <1>1, <1>2 DEF TurnOK, RowOK
  <2> QED  BY <1>2, <1>3, <2>1, VerdictIs DEF HasRow
<1>5. PICK types \in Seq(Events) : /\ types = <<"done">> /\ Once(types, "done")
                                  /\ \A x : Has(types, x) <=> x = "done"
  <2>1. "done" \in Events
    BY DEF Events
  <2> QED  BY <2>1, FewEvents
<1>6. published' = [published EXCEPT ![t] = @ \o types]
  BY <1>5 DEF Settle, Publish, PublishAndEnd
<1>7. /\ \A type : Published(t, type)' <=> Published(t, type) \/ type = "done"
      /\ Len(published[t]) \in Nat /\ Len(published'[t]) \in Nat
      /\ Len(published[t]) <= Len(published'[t])
      /\ ~Published(t, "done") => DoneOk(t)'
  BY <1>1, <1>5, <1>6, PublishedIs
<1>8. ~Published(t, "done") /\ kept[t] > 0 /\ kept'[t] > 0
  <2>1. ~Published(t, "done") /\ kept[t] > 0
    BY <1>1, <1>2 DEF TurnOK, EventsOK, AnswerOK, Before
  <2>2. kept[t] \in Nat /\ kept'[t] \in Nat
    BY <1>1, <1>3 DEF Types, Wrote
  <2> QED  BY <1>3, <2>1, <2>2
<1>9. stored'[t] <= Len(published'[t]) /\ runner[t].snapshot <= Len(published'[t])
  <2>1. runner[t].snapshot \in Nat /\ stored[t] \in Nat
    BY <1>1 DEF Runners, Types
  <2> QED  BY <1>1, <1>3, <1>7, <2>1 DEF TurnOK, EventsOK
<1>10. Streams
  BY <1>1 DEF Settle, Streams, Types
<1>11. CASE Outcome(t) = "completed" /\ ~runner[t].regenerate
  <2>1. PICK r \in Runners : r = [runner[t] EXCEPT !.pc = "title", !.doneSent = TRUE]
    BY <1>1 DEF Runners
  <2>2. /\ runner' = [runner EXCEPT ![t] = r] /\ runner'[t] = r
        /\ r.pc = "title" /\ r.cancels = runner[t].cancels /\ r.snapshot = runner[t].snapshot
        /\ r.doneSent
    BY <1>1, <1>11, <2>1 DEF Settle, Types, Runners
  <2>3. TurnOK(t)'
    <3>1. RowOK(t)'
      BY <1>4, <2>2 DEF RowOK, Before, Failed
    <3>2. UpsetOK(t)' /\ AnswerOK(t)'
      BY <1>8, <2>2 DEF UpsetOK, AnswerOK, Cancelled, Failed
    <3>3. EventsOK(t)'
      BY <1>7, <1>8, <1>9, <2>2 DEF EventsOK, DoneOk, Before, Cancelled, Failed
    <3> QED  BY <3>1, <3>2, <3>3 DEF TurnOK
  <2>4. Publish(t, types)
    BY <1>5, <1>11 DEF Settle
  <2> QED  BY <1>1, <1>2, <1>3, <1>10, <2>2, <2>3, <2>4, Speaks, OpUnchanged
<1>12. CASE ~ (Outcome(t) = "completed" /\ ~runner[t].regenerate)
  <2>1. PublishAndEnd(t, types)
    BY <1>5, <1>12 DEF Settle
  <2>2. PICK r \in Runners : r = Ended(t, runner[t].cancels)
    BY <1>1 DEF Ended, NoRunner, Runners
  <2>3. /\ runner' = [runner EXCEPT ![t] = r] /\ runner'[t] = r
        /\ r.pc = "ended" /\ r.snapshot = 0
    BY <1>1, <2>1, <2>2 DEF PublishAndEnd, Ended, NoRunner, Types, Runners
  <2>4. TurnOK(t)'
    <3>1. RowOK(t)'
      BY <1>4, <2>3 DEF RowOK, Live, Before, Failed
    <3>2. UpsetOK(t)' /\ AnswerOK(t)'
      BY <2>3 DEF UpsetOK, AnswerOK, Cancelled, Failed
    <3>3. EventsOK(t)'
      BY <1>7, <1>8, <1>9, <2>3 DEF EventsOK, DoneOk, Before, Cancelled, Failed
    <3> QED  BY <3>1, <3>2, <3>3 DEF TurnOK
  <2>5. Published(t, "done")'
    BY <1>7
  <2>6. Offer(t, Append(Seqs(Len(published[t]), Len(published'[t])), End))
    BY <2>1 DEF PublishAndEnd
  <2> QED  BY <1>1, <1>2, <1>3, <1>6, <1>10, <2>3, <2>4, <2>5, <2>6, RunnerEnds, OpUnchanged
<1> QED  BY <1>11, <1>12

LEMMA EndedIs ==
    ASSUME NEW t \in Turns, runner[t] \in Runners, NEW c \in Nat
    PROVE  /\ Ended(t, c) \in Runners
           /\ Ended(t, c).pc = "ended" /\ Ended(t, c).snapshot = 0 /\ Ended(t, c).cancels = c
BY DEF Ended, NoRunner, Runners

\* How a runner returns: its queues are closed, with DONE published.
LEMMA EndsWell ==
    ASSUME IInv, NEW t \in Turns, Live(t), Wrote(t), Aside, Streams,
           stored'[t] \in {stored[t], runner[t].snapshot},
           NEW types \in Seq(Events), \A x \in {"done", "failure"} : ~Has(types, x),
           published' = [published EXCEPT ![t] = @ \o types], Published(t, "done"),
           Offer(t, Append(Seqs(Len(published[t]), Len(published'[t])), End)),
           NEW cancels \in Nat, runner' = [runner EXCEPT ![t] = Ended(t, cancels)],
           cancels + (IF Published(t, "failure") THEN 1 ELSE 0) <= 1 /\ restarts = 0
            => row'[t] # "running"
    PROVE  IInv'
<1>1. Types /\ TurnOK(t) /\ runner[t] \in Runners
  BY RunnerIs DEF IInv, TurnsOK
<1>2. PICK r \in Runners : r = Ended(t, cancels)
  BY <1>1 DEF Ended, NoRunner, Runners
<1>3. /\ runner' = [runner EXCEPT ![t] = r] /\ runner'[t] = r
      /\ r.pc = "ended" /\ r.snapshot = 0 /\ r.cancels = cancels
  BY <1>1, <1>2 DEF Ended, NoRunner, Types, Runners
<1>4. /\ \A type : Published(t, type)' <=> Published(t, type) \/ Has(types, type)
      /\ Len(published[t]) \in Nat /\ Len(published'[t]) \in Nat
      /\ Len(published[t]) <= Len(published'[t])
      /\ DoneOk(t) /\ ~Has(types, "done") => DoneOk(t)'
  BY <1>1, PublishedIs
<1>5. Published(t, "done")' /\ (Published(t, "failure")' <=> Published(t, "failure"))
  BY <1>4
<1>6. Upsets(t)' = cancels + (IF Published(t, "failure") THEN 1 ELSE 0) /\ restarts' = restarts
  BY <1>3, <1>5 DEF Upsets, Aside, bounds
<1>7. TurnOK(t)'
  <2>1. RowOK(t)'
    <3>1. row'[t] # "none"
      BY <1>1 DEF TurnOK, RowOK, Live, Wrote
    <3> QED  BY <1>3, <1>6, <3>1 DEF RowOK, Live, Before, Failed
  <2>2. UpsetOK(t)' /\ AnswerOK(t)'
    BY <1>3 DEF UpsetOK, AnswerOK, Cancelled, Failed
  <2>3. EventsOK(t)'
    <3>1. runner[t].snapshot \in Nat /\ stored[t] \in Nat
      BY <1>1 DEF Runners, Types
    <3>2. stored'[t] <= Len(published'[t])
      BY <1>1, <1>4, <3>1 DEF TurnOK, EventsOK
    <3>3. DoneOk(t)'
      BY <1>1, <1>4 DEF TurnOK, EventsOK, DoneOk
    <3> QED  BY <1>3, <1>4, <1>5, <3>2, <3>3 DEF EventsOK, DoneOk, Before, Cancelled, Failed
  <2> QED  BY <2>1, <2>2, <2>3 DEF TurnOK
<1> QED  BY <1>1, <1>3, <1>5, <1>7, RunnerEnds

LEMMA TitleKeeps ==
    ASSUME IInv, NEW t \in Turns, Title(t), UNCHANGED <<op, bounds>>
    PROVE  IInv'
<1>1. Types /\ TurnOK(t) /\ runner[t] \in Runners
  BY RunnerIs DEF IInv, TurnsOK
<1>2. runner[t].pc = "title" /\ Live(t) /\ PublishAndEnd(t, IF NeedsTitle THEN <<"title">> ELSE <<>>)
  BY DEF Title, Live
<1>3. Wrote(t) /\ row'[t] = row[t] /\ stored'[t] = stored[t]
  BY <1>1, NothingWritten DEF Title
<1>4. PICK types \in Seq(Events) : /\ types = IF NeedsTitle THEN <<"title">> ELSE <<>>
                                  /\ \A x \in {"done", "failure"} : ~Has(types, x)
  <2>1. "title" \in Events
    BY DEF Events
  <2>2. /\ <<>> \in Seq(Events) /\ <<"title">> \in Seq(Events)
        /\ \A x : ~Has(<<>>, x)
        /\ \A x : Has(<<"title">>, x) <=> x = "title"
    BY <2>1, FewEvents
  <2>3. CASE NeedsTitle
    BY <2>2, <2>3
  <2>4. CASE ~NeedsTitle
    BY <2>2, <2>4
  <2> QED  BY <2>3, <2>4
<1>5. PublishAndEnd(t, types)
  BY <1>2, <1>4
<1>6. Streams
  BY <1>1 DEF Title, Streams, Types
<1>7. PICK c \in Nat : c = runner[t].cancels
  BY <1>1 DEF Runners
<1>8. runner' = [runner EXCEPT ![t] = Ended(t, c)]
  BY <1>1, <1>5, <1>7 DEF PublishAndEnd, Types
<1>9. row'[t] # "running" /\ Published(t, "done")
  BY <1>1, <1>2, <1>3 DEF TurnOK, RowOK, EventsOK
<1>10. /\ published' = [published EXCEPT ![t] = @ \o types]
       /\ Offer(t, Append(Seqs(Len(published[t]), Len(published'[t])), End))
  BY <1>5 DEF PublishAndEnd
<1> QED  BY <1>1, <1>2, <1>3, <1>4, <1>6, <1>7, <1>8, <1>9, <1>10, EndsWell, OpUnchanged

LEMMA SettleFaultKeeps ==
    ASSUME IInv, NEW t \in Turns, SettleFault(t), UNCHANGED <<op, bounds>>
    PROVE  IInv'
<1>1. Types /\ InTurn /\ TurnOK(t) /\ runner[t] \in Runners
  BY RunnerIs DEF IInv, TurnsOK
<1>2. runner[t].pc \in {"cancelSettle", "failSettle"} /\ Live(t) /\ Settles(t)
  BY DEF SettleFault, Live, Settles
<1>3. /\ Wrote(t) /\ row'[t] = (IF HasRow(t) THEN Verdict(t) ELSE row[t])
      /\ stored'[t] \in {stored[t], runner[t].snapshot}
  BY <1>1, <1>2, LandsWrites DEF SettleFault
<1>4. row'[t] # "running"
  BY <1>2, <1>3, VerdictIs DEF HasRow
<1>5. PICK types \in Seq(Events) : types = <<>> /\ \A x \in {"done", "failure"} : ~Has(types, x)
  <2>1. "title" \in Events
    BY DEF Events
  <2>2. <<>> \in Seq(Events) /\ \A x : ~Has(<<>>, x)
    BY <2>1, FewEvents
  <2> QED  BY <2>2
<1>6. PublishAndEnd(t, types)
  BY <1>5 DEF SettleFault
<1>7. Streams
  BY <1>1 DEF SettleFault, Streams, Types
<1>8. PICK c \in Nat : c = runner[t].cancels
  BY <1>1 DEF Runners
<1>9. runner' = [runner EXCEPT ![t] = Ended(t, c)]
  BY <1>1, <1>6, <1>8 DEF PublishAndEnd, Types
<1>10. Published(t, "done")
  BY <1>1, <1>2 DEF TurnOK, EventsOK, Cancelled, Failed
<1>11. /\ published' = [published EXCEPT ![t] = @ \o types]
       /\ Offer(t, Append(Seqs(Len(published[t]), Len(published'[t])), End))
  BY <1>6 DEF PublishAndEnd
<1> QED  BY <1>1, <1>2, <1>3, <1>4, <1>5, <1>7, <1>8, <1>9, <1>10, <1>11, EndsWell, OpUnchanged

LEMMA FaultKeeps ==
    ASSUME IInv, NEW t \in Turns, Fault(t), UNCHANGED <<op, bounds>>
    PROVE  IInv'
<1>1. Types /\ TurnOK(t) /\ runner[t] \in Runners
  BY RunnerIs DEF IInv, TurnsOK
<1>2. /\ runner[t].pc = "prepare" \/ (runner[t].pc = "save" /\ ~exists)
      /\ Live(t)
  BY DEF Fault, Live
<1>3. Wrote(t) /\ row'[t] = row[t] /\ stored'[t] = stored[t]
  BY <1>1, NothingWritten DEF Fault
<1>4. PICK types \in Seq(Events) : /\ types = <<"failure", "done">> /\ Once(types, "done")
                                  /\ \A x : Has(types, x) <=> x \in {"failure", "done"}
  <2>1. "failure" \in Events /\ "done" \in Events /\ "failure" # "done"
    BY DEF Events
  <2>2. /\ <<"failure", "done">> \in Seq(Events) /\ Once(<<"failure", "done">>, "done")
        /\ \A x : Has(<<"failure", "done">>, x) <=> x \in {"failure", "done"}
    BY <2>1, FewEvents
  <2> QED  BY <2>2
<1>5. Publish(t, types)
  BY <1>4 DEF Fault
<1>6. /\ \A type : Published(t, type)' <=> Published(t, type) \/ type \in {"failure", "done"}
      /\ Len(published[t]) \in Nat /\ Len(published'[t]) \in Nat
      /\ Len(published[t]) <= Len(published'[t])
      /\ ~Published(t, "done") => DoneOk(t)'
  BY <1>1, <1>4, <1>5, PublishedIs DEF Publish
<1>7. PICK r \in Runners : r = [runner[t] EXCEPT !.pc = "failFlush", !.flushed = TRUE,
                                                  !.snapshot = Len(published'[t])]
  BY <1>1, <1>6 DEF Runners, Failed
<1>8. /\ runner' = [runner EXCEPT ![t] = r] /\ runner'[t] = r
      /\ r.pc = "failFlush" /\ r.cancels = runner[t].cancels /\ r.snapshot = Len(published'[t])
  BY <1>1, <1>6, <1>7 DEF Fault, Buffer, Types, Runners
<1>9. Streams
  BY <1>1 DEF Fault, Streams, Types
<1>10. TurnOK(t)'
  <2>1. RowOK(t)'
    BY <1>1, <1>2, <1>3, <1>8 DEF TurnOK, RowOK, Live, Before, Failed, Wrote
  <2>2. UpsetOK(t)'
    BY <1>6, <1>8 DEF UpsetOK, Cancelled
  <2>3. AnswerOK(t)'
    <3>1. exists' = exists /\ (exists => ~Produced(t))
      BY <1>1, <1>2, <1>3 DEF TurnOK, AnswerOK, Wrote
    <3>2. Produced(t)' <=> Produced(t)
      BY <1>6 DEF Produced
    <3> QED  BY <1>8, <3>1, <3>2 DEF AnswerOK
  <2>4. EventsOK(t)'
    <3>1. stored[t] \in Nat /\ stored'[t] <= Len(published'[t])
      BY <1>1, <1>3, <1>6 DEF TurnOK, EventsOK, Types
    <3>2. DoneOk(t)'
      BY <1>1, <1>2, <1>6 DEF TurnOK, EventsOK, Before
    <3> QED  BY <1>6, <1>8, <3>1, <3>2 DEF EventsOK, DoneOk, Before
  <2> QED  BY <2>1, <2>2, <2>3, <2>4 DEF TurnOK
<1> QED  BY <1>1, <1>2, <1>3, <1>5, <1>8, <1>9, <1>10, Speaks, OpUnchanged

\* Whatever the operation that a cancelled runner awaited has done.
LEMMA InterruptWrites ==
    ASSUME IInv, NEW t \in Turns, Live(t), Lands(t) \/ (runner[t].pc # "keep" /\ UNCHANGED store)
    PROVE  /\ Wrote(t)
           /\ runner[t].pc = "keep" /\ exists => kept'[t] > 0
           /\ kept[t] > 0 => kept'[t] > 0
           /\ stored'[t] \in {stored[t], runner[t].snapshot}
           /\ ~Settles(t) => row'[t] = row[t]
           /\ runner[t].pc = "settle" => row'[t] # "cancelled"
           /\ row'[t] # "interrupted"
           /\ row'[t] = "cancelled" => runner[t].pc = "cancelSettle"
<1>1. Types /\ InTurn /\ TurnOK(t) /\ kept[t] \in Nat
  BY DEF IInv, TurnsOK, Types
<1>2. row[t] \notin {"interrupted", "cancelled"}
  BY <1>1 DEF TurnOK, RowOK
<1>3. CASE Lands(t)
  <2>1. /\ Wrote(t) /\ kept'[t] >= kept[t] /\ (exists /\ Answers(t) => kept'[t] > 0)
        /\ stored'[t] \in {stored[t], runner[t].snapshot}
        /\ row'[t] = IF Settles(t) /\ HasRow(t) THEN Verdict(t) ELSE row[t]
    BY <1>1, <1>3, LandsWrites
  <2>2. kept'[t] \in Nat
    BY <2>1 DEF Wrote
  <2>3. Settles(t) => \/ runner[t].pc = "cancelSettle" /\ Verdict(t) = "cancelled"
                      \/ runner[t].pc # "cancelSettle" /\ Verdict(t) \in {"completed", "failed"}
    <3>1. runner[t].pc = "cancelSettle" => Verdict(t) = "cancelled"
      BY DEF Verdict
    <3> QED  BY <3>1, VerdictIs DEF Settles
  <2> QED  BY <1>1, <1>2, <2>1, <2>2, <2>3 DEF Answers, Settles
<1>4. CASE runner[t].pc # "keep" /\ UNCHANGED store
  BY <1>1, <1>2, <1>4, NothingWritten
<1> QED  BY <1>3, <1>4

LEMMA UnwoundKeeps ==
    ASSUME IInv, NEW t \in Turns, Interrupt(t), Handling(t), Aside
    PROVE  IInv'
<1>1. Types /\ TurnOK(t) /\ runner[t] \in Runners
  BY RunnerIs DEF IInv, TurnsOK
<1>2. Live(t) /\ runner[t].pc \in Cancelled \cup Failed /\ Unwound(t)
  BY DEF Interrupt, Handling, Cancelled, Failed
<1>3. Wrote(t) /\ stored'[t] \in {stored[t], runner[t].snapshot}
  BY <1>2, InterruptWrites DEF Interrupt
<1>4. Published(t, "done") /\ runner[t].cancels + (IF Published(t, "failure") THEN 1 ELSE 0) >= 1
  BY <1>1, <1>2 DEF TurnOK, EventsOK, UpsetOK, Runners
<1>5. PICK c \in Nat : c = runner[t].cancels + 1
  BY <1>1 DEF Runners
<1>6. runner' = [runner EXCEPT ![t] = Ended(t, c)]
  BY <1>1, <1>2, <1>5 DEF Unwound, Types
<1>7. ~ (c + (IF Published(t, "failure") THEN 1 ELSE 0) <= 1)
  BY <1>1, <1>4, <1>5 DEF Runners
<1>8. PICK types \in Seq(Events) : types = <<>> /\ \A x \in {"done", "failure"} : ~Has(types, x)
  <2>1. "title" \in Events
    BY DEF Events
  <2>2. <<>> \in Seq(Events) /\ \A x : ~Has(<<>>, x)
    BY <2>1, FewEvents
  <2> QED  BY <2>2
<1>9. published[t] \in Seq(Events) /\ published[t] \o types = published[t]
  BY <1>1, <1>8, ConcatEmptySeq DEF Types
<1>10. published' = [published EXCEPT ![t] = @ \o types]
  BY <1>1, <1>2, <1>9 DEF Unwound, Types
<1>11. Append(Seqs(Len(published[t]), Len(published'[t])), End) = <<End>>
  <2>1. Len(published[t]) \in Nat /\ Len(published'[t]) = Len(published[t])
    BY <1>1, <1>2 DEF Types, Unwound
  <2>2. \A n \in Nat : Seqs(n, n) = <<>>
    <3> TAKE n \in Nat
    <3>1. n <= n
      OBVIOUS
    <3> QED  BY <3>1, SeqsIs
  <2>3. Append(<<>>, End) = <<End>>
    OBVIOUS
  <2> QED  BY <2>1, <2>2, <2>3
<1>12. Streams
  BY <1>1 DEF Interrupt, Streams, Types
<1>13. Offer(t, Append(Seqs(Len(published[t]), Len(published'[t])), End))
  BY <1>2, <1>11 DEF Unwound
<1> QED  BY <1>2, <1>3, <1>4, <1>5, <1>6, <1>7, <1>8, <1>10, <1>12, <1>13, EndsWell

LEMMA InterruptedKeeps ==
    ASSUME IInv, NEW t \in Turns, Interrupt(t), ~Handling(t), Aside
    PROVE  IInv'
<1>1. Types /\ TurnOK(t) /\ runner[t] \in Runners
  BY RunnerIs DEF IInv, TurnsOK
<1>2. Live(t) /\ runner[t].pc \in Before \cup {"title"} /\ Interrupted(t)
  <2>1. Live(t) /\ Interrupted(t)
    BY DEF Interrupt
  <2>2. runner[t].pc \in {"none", "title", "ended"} \cup Before \cup Cancelled \cup Failed
    BY <1>1 DEF Runners
  <2> QED  BY <2>1, <2>2 DEF Handling, Live, Cancelled, Failed
<1>3. /\ Wrote(t) /\ stored'[t] \in {stored[t], runner[t].snapshot}
      /\ row'[t] \notin {"none", "interrupted", "cancelled"}
  <2>1. row[t] # "none"
    BY <1>1, <1>2 DEF TurnOK, RowOK, Live
  <2>2. runner[t].pc # "cancelSettle"
    BY <1>2 DEF Before
  <2>3. /\ Wrote(t) /\ stored'[t] \in {stored[t], runner[t].snapshot}
        /\ row'[t] # "interrupted" /\ (row'[t] = "cancelled" => runner[t].pc = "cancelSettle")
    BY <1>2, InterruptWrites DEF Interrupt
  <2> QED  BY <2>1, <2>2, <2>3 DEF Wrote
<1>4. PICK types \in Seq(Events) : /\ types = <<"cancellation", "done">> /\ Once(types, "done")
                                  /\ \A x : Has(types, x) <=> x \in {"cancellation", "done"}
  <2>1. "cancellation" \in Events /\ "done" \in Events /\ "cancellation" # "done"
    BY DEF Events
  <2>2. /\ <<"cancellation", "done">> \in Seq(Events) /\ Once(<<"cancellation", "done">>, "done")
        /\ \A x : Has(<<"cancellation", "done">>, x) <=> x \in {"cancellation", "done"}
    BY <2>1, FewEvents
  <2> QED  BY <2>2
<1>5. /\ runner[t].doneSent => UNCHANGED <<published, view>>
      /\ ~runner[t].doneSent => Publish(t, types)
  BY <1>2, <1>4 DEF Interrupted
<1>6. /\ Published(t, "done")' /\ (Produced(t)' <=> Produced(t)) /\ DoneOk(t)'
      /\ Len(published[t]) \in Nat /\ Len(published'[t]) \in Nat
      /\ Len(published[t]) <= Len(published'[t])
  <2>1. Len(published[t]) \in Nat /\ DoneOk(t)
    BY <1>1 DEF Types, TurnOK, EventsOK, DoneOk
  <2>2. CASE runner[t].doneSent
    <3>1. runner[t].pc = "title" /\ Published(t, "done")
      BY <1>1, <1>2, <2>2 DEF TurnOK, EventsOK, Before
    <3>2. published' = published
      BY <1>5, <2>2
    <3> QED  BY <2>1, <3>1, <3>2, SamePublished DEF DoneOk
  <2>3. CASE ~runner[t].doneSent
    <3>1. ~Published(t, "done")
      BY <1>1, <1>2, <2>3 DEF TurnOK, EventsOK
    <3>2. published' = [published EXCEPT ![t] = @ \o types]
      BY <1>5, <2>3 DEF Publish
    <3>3. /\ \A type : Published(t, type)' <=> Published(t, type) \/ Has(types, type)
          /\ Len(published[t]) \in Nat /\ Len(published'[t]) \in Nat
          /\ Len(published[t]) <= Len(published'[t])
          /\ ~Published(t, "done") /\ Once(types, "done") => DoneOk(t)'
      BY <1>1, <3>2, PublishedIs
    <3> QED  BY <1>4, <3>1, <3>3 DEF Produced
  <2> QED  BY <2>2, <2>3
<1>7. PICK r \in Runners :
        /\ runner' = [runner EXCEPT ![t] = r]
        /\ r.pc = (IF runner[t].flushed THEN AfterFlush(t) ELSE "cancelFlush")
        /\ r.snapshot = (IF runner[t].flushed THEN runner[t].snapshot ELSE Len(published'[t]))
        /\ r.cancels = runner[t].cancels + 1
  <2> DEFINE pc == IF runner[t].flushed THEN AfterFlush(t) ELSE "cancelFlush"
             n  == IF runner[t].flushed THEN runner[t].snapshot ELSE Len(published'[t])
             r  == [runner[t] EXCEPT !.pc = pc, !.snapshot = n, !.flushed = TRUE, !.cancels = @ + 1]
  <2>1. runner' = [runner EXCEPT ![t] = r]
    BY <1>1, <1>2 DEF Interrupted, Types
  <2>2. pc \in Cancelled
    BY DEF AfterFlush, Cancelled
  <2>3. n \in Nat
    BY <1>1, <1>6 DEF Runners
  <2> HIDE DEF pc, n
  <2>a. PICK c \in Nat : c = runner[t].cancels + 1
    BY <1>1 DEF Runners
  <2>4. r \in Runners
    <3>1. [runner[t] EXCEPT !.pc = pc, !.snapshot = n, !.flushed = TRUE, !.cancels = c] \in Runners
      BY <1>1, <2>2, <2>3 DEF Runners
    <3> QED  BY <2>a, <3>1
  <2>5. r.pc = pc /\ r.snapshot = n /\ r.cancels = runner[t].cancels + 1
    BY <1>1 DEF Runners
  <2> QED  BY <2>1, <2>4, <2>5 DEF pc, n
<1>8. runner'[t] = r
  BY <1>1, <1>7 DEF Types
<1>9. r.pc \in Cancelled /\ (r.pc = "cancelSettle" => ~Produced(t)) /\ r.cancels >= 1
  <2>1. AfterFlush(t) \in Cancelled /\ (AfterFlush(t) = "cancelSettle" => ~Produced(t))
    BY DEF AfterFlush, Cancelled
  <2>2. runner[t].cancels \in Nat
    BY <1>1 DEF Runners
  <2> QED  BY <1>7, <2>1, <2>2 DEF Cancelled
<1>10. TurnOK(t)'
  <2>1. RowOK(t)'
    BY <1>3, <1>8, <1>9 DEF RowOK, Before, Failed, Cancelled
  <2>2. UpsetOK(t)'
    BY <1>8, <1>9 DEF UpsetOK, Cancelled, Failed
  <2>3. AnswerOK(t)'
    BY <1>6, <1>8, <1>9 DEF AnswerOK, Cancelled, Failed
  <2>4. EventsOK(t)'
    <3>1. runner[t].snapshot \in Nat /\ stored[t] \in Nat
      BY <1>1 DEF Runners, Types
    <3>2. stored'[t] <= Len(published'[t]) /\ r.snapshot <= Len(published'[t])
      BY <1>1, <1>3, <1>6, <1>7, <3>1 DEF TurnOK, EventsOK
    <3> QED  BY <1>6, <1>8, <1>9, <3>2 DEF EventsOK, DoneOk, Before, Cancelled
  <2> QED  BY <2>1, <2>2, <2>3, <2>4 DEF TurnOK
<1>11. Streams
  <2>1. <<>> \in Seq(Emitted)
    OBVIOUS
  <2> QED  BY <1>1, <2>1 DEF Interrupt, Streams, Types
<1>12. r.pc \notin {"none", "ended"}
  BY <1>9 DEF Cancelled
<1>13. CASE runner[t].doneSent
  BY <1>2, <1>3, <1>5, <1>7, <1>10, <1>11, <1>12, <1>13, Quiet
<1>14. CASE ~runner[t].doneSent
  BY <1>2, <1>3, <1>5, <1>7, <1>10, <1>11, <1>12, <1>14, Speaks
<1> QED  BY <1>13, <1>14

LEMMA RunKeeps ==
    ASSUME IInv, NEW t \in Turns, Run(t), UNCHANGED <<op, bounds>>
    PROVE  IInv'
BY PreparedKeeps, RelayKeeps, SaveAnswerKeeps, FlushKeeps, SettleKeeps, TitleKeeps,
   KeepPartialKeeps, SettleFaultKeeps, FaultKeeps DEF Run, RunnerStep

(***************************************************************************)
(* The capability and its user.                                            *)
(***************************************************************************)
LEMMA Emits ==
    ASSUME Types, NEW t \in Turns, NEW types \in Seq(Emitted), Emit(t, types)
    PROVE  bus' \in [Turns -> Seq(Emitted)]
<1>1. bus[t] \o types \in Seq(Emitted)
  BY ConcatProperties DEF Types
<1> QED  BY <1>1 DEF Emit, Types

\* A step that changes no turn, request or viewer.
LEMMA Elsewhere ==
    ASSUME IInv, Types', UNCHANGED <<exists, row, stored, kept, runner, published, restarts>>,
           OpsOK', ViewsOK'
    PROVE  IInv'
<1>1. TurnsOK'
  BY TurnSame DEF IInv, TurnsOK
<1>2. InTurn' /\ AtMostOne'
  BY RowsSame DEF IInv
<1> QED  BY <1>1, <1>2 DEF IInv

LEMMA ElsewhereStill ==
    ASSUME IInv, Types', UNCHANGED <<exists, row, stored, kept, runner, published, op, view,
                                     restarts>>
    PROVE  IInv'
<1>1. \A u \in Turns : Live(u)' <=> Live(u)
  BY DEF Live
<1>2. OpsOK' /\ ViewsOK'
  BY <1>1, OpsSame, ViewsSame DEF IInv
<1> QED  BY <1>2, Elsewhere

LEMMA CapabilityKeeps ==
    ASSUME IInv, NEW t \in Turns, Capability(t)
    PROVE  IInv'
<1>1. Types /\ cap[t] \in Caps
  BY DEF IInv, Types
<1>2. \E types \in Seq(Emitted) : Emit(t, types)
  <2>1. /\ <<"content">> \in Seq(Emitted) /\ <<"question">> \in Seq(Emitted)
        /\ <<"reply">> \in Seq(Emitted) /\ <<"done">> \in Seq(Emitted)
        /\ <<"error", "done">> \in Seq(Emitted)
    BY DEF Emitted
  <2>2. CapabilityWorks(t) => Emit(t, <<"content">>)
    BY DEF CapabilityWorks
  <2>3. CapabilityAsks(t) => Emit(t, <<"question">>)
    BY DEF CapabilityAsks
  <2>4. CapabilityTakesReply(t) => Emit(t, <<"reply">>)
    BY DEF CapabilityTakesReply
  <2>5. CapabilityEnds(t) => Emit(t, <<"done">>) \/ Emit(t, <<"error", "done">>)
    BY DEF CapabilityEnds
  <2> QED  BY <2>1, <2>2, <2>3, <2>4, <2>5 DEF Capability
<1>3. bus' \in [Turns -> Seq(Emitted)]
  BY <1>1, <1>2, Emits
<1>4. cap' \in [Turns -> Caps]
  <2>1. CASE CapabilityWorks(t)
    <3>1. [cap[t] EXCEPT !.work = @ + 1] \in Caps
      BY <1>1 DEF Caps
    <3> QED  BY <1>1, <2>1, <3>1 DEF CapabilityWorks, Types
  <2>2. CASE CapabilityAsks(t)
    <3>1. PICK n \in Nat : n = cap[t].asked + 1
      BY <1>1 DEF Caps
    <3>2. [cap[t] EXCEPT !.pc = "asking", !.asked = n] \in Caps
      BY <1>1 DEF Caps
    <3> QED  BY <1>1, <2>2, <3>1, <3>2 DEF CapabilityAsks, Types
  <2>3. CASE CapabilityTakesReply(t)
    <3>1. [cap[t] EXCEPT !.pc = "working"] \in Caps
      BY <1>1 DEF Caps
    <3> QED  BY <1>1, <2>3, <3>1 DEF CapabilityTakesReply, Types
  <2>4. CASE CapabilityEnds(t)
    <3>1. OverCap \in Caps
      BY DEF OverCap, NoCap, Caps
    <3> QED  BY <1>1, <2>4, <3>1 DEF CapabilityEnds, Types
  <2> QED  BY <2>1, <2>2, <2>3, <2>4 DEF Capability
<1>5. Types' /\ UNCHANGED <<exists, row, stored, kept, runner, published, op, view, restarts>>
  BY <1>1, <1>3, <1>4 DEF Types, Capability, store, bounds
<1> QED  BY <1>5, ElsewhereStill

LEMMA ReplyKeeps ==
    ASSUME IInv, NEW t \in Turns, Reply(t)
    PROVE  IInv'
<1>1. Types' /\ UNCHANGED <<exists, row, stored, kept, runner, published, op, view, restarts>>
  BY DEF IInv, Types, Reply, store, bounds
<1> QED  BY <1>1, ElsewhereStill

(***************************************************************************)
(* Requests.                                                               *)
(***************************************************************************)
\* A handler's next state, with a turn to settle only if that has no runner.
LEMMA OpsMove ==
    ASSUME Types, OpsOK, NEW h \in Handlers, NEW o \in Ops, op' = [op EXCEPT ![h] = o],
           o.pc \in {"recover", "settle"} =>
            o.turn \in Turns /\ row'[o.turn] # "none" /\ ~Live(o.turn)',
           \A u \in Turns : row[u] # "none" => row'[u] # "none" /\ (Live(u)' => Live(u))
    PROVE  OpsOK' /\ op' \in [Handlers -> Ops]
<1>1. op'[h] = o /\ \A k \in Handlers \ {h} : op'[k] = op[k]
  BY DEF Types
<1>2. \A k \in Handlers \ {h} : OpOK(k)'
  BY <1>1, OpSame DEF OpsOK
<1>3. OpOK(h)'
  <2>1. PICK u : u = o.turn
    OBVIOUS
  <2>2. op'[h].turn = u /\ op'[h].pc = o.pc
    BY <1>1, <2>1
  <2>3. o.pc \in {"recover", "settle"} => u \in Turns /\ row'[u] # "none" /\ ~Live(u)'
    BY <2>1
  <2> QED  BY <2>2, <2>3 DEF OpOK
<1>4. op' \in [Handlers -> Ops]
  BY DEF Types
<1> QED  BY <1>2, <1>3, <1>4 DEF OpsOK

\* A request that has written nothing yet.
LEMMA Requests ==
    ASSUME IInv, NEW h \in Handlers, NEW o \in Ops, op' = [op EXCEPT ![h] = o],
           o.pc \in {"recover", "settle"} =>
            o.turn \in Turns /\ row[o.turn] # "none" /\ ~Live(o.turn),
           UNCHANGED <<exists, row, stored, kept, lastId, process, view, bounds>>,
           thread' \subseteq thread
    PROVE  IInv'
<1>1. UNCHANGED <<runner, published, cap, bus, deletions, restarts>>
  BY DEF process, bounds
<1>2. \A u : Live(u)' <=> Live(u)
  BY <1>1 DEF Live
<1>3. \A u \in Turns : row[u] # "none" => row'[u] # "none" /\ (Live(u)' => Live(u))
  BY <1>2
<1>4. o.pc \in {"recover", "settle"} =>
        o.turn \in Turns /\ row'[o.turn] # "none" /\ ~Live(o.turn)'
  <2>1. PICK u : u = o.turn
    OBVIOUS
  <2>2. ~Live(u) => ~Live(u)'
    BY <1>2
  <2> QED  BY <2>1, <2>2
<1>5. OpsOK' /\ op' \in [Handlers -> Ops]
  BY <1>3, <1>4, OpsMove DEF IInv
<1>6. ViewsOK'
  BY <1>1, <1>2, ViewsSame DEF IInv
<1>7. Types'
  BY <1>1, <1>5 DEF IInv, Types
<1> QED  BY <1>1, <1>5, <1>6, <1>7, Elsewhere

LEMMA TurnKnown ==
    ASSUME NEW t \in Turns
    PROVE  t \in 0..MaxTurns
BY TurnAssumption DEF Turns

LEMMA StartTurnKeeps ==
    ASSUME IInv, NEW h \in Handlers, StartTurn(h)
    PROVE  IInv'
<1>1. Types /\ op[h] \in Ops
  BY DEF IInv, Types
<1>2. CASE \E t \in Turns : Stale(t) /\ op' = [op EXCEPT ![h].pc = "recover", ![h].turn = t]
  <2>1. PICK t \in Turns : Stale(t) /\ op' = [op EXCEPT ![h].pc = "recover", ![h].turn = t]
    BY <1>2
  <2>2. PICK o \in Ops : o = [op[h] EXCEPT !.pc = "recover", !.turn = t] /\ o.turn = t
    <3>1. [op[h] EXCEPT !.pc = "recover", !.turn = t] \in Ops
      BY <1>1, TurnKnown DEF Ops
    <3>2. [op[h] EXCEPT !.pc = "recover", !.turn = t].turn = t
      BY <1>1, TurnKnown DEF Ops
    <3> QED  BY <3>1, <3>2
  <2>3. row[t] # "none" /\ ~Live(t)
    BY <2>1 DEF Stale
  <2>4. op' = [op EXCEPT ![h] = o]
    BY <1>1, <2>1, <2>2 DEF Types
  <2>5. o.turn \in Turns /\ row[o.turn] # "none" /\ ~Live(o.turn)
    BY <2>2, <2>3
  <2>6. /\ UNCHANGED <<exists, row, stored, kept, lastId, process, view, bounds>>
        /\ thread' \subseteq thread
    BY DEF StartTurn, store
  <2> QED  BY <2>4, <2>5, <2>6, Requests
<1>3. CASE op' = [op EXCEPT ![h].pc = "create"]
  <2>1. PICK o \in Ops : o = [op[h] EXCEPT !.pc = "create"] /\ o.pc = "create"
    <3>1. [op[h] EXCEPT !.pc = "create"] \in Ops
      BY <1>1 DEF Ops
    <3>2. [op[h] EXCEPT !.pc = "create"].pc = "create"
      BY <1>1 DEF Ops
    <3> QED  BY <3>1, <3>2
  <2>2. op' = [op EXCEPT ![h] = o]
    BY <1>1, <1>3, <2>1 DEF Types
  <2> QED  BY <2>1, <2>2, Requests DEF StartTurn, store
<1> QED  BY <1>2, <1>3 DEF StartTurn

LEMMA AnswerKeeps ==
    ASSUME IInv, NEW h \in Handlers, Answer(h), UNCHANGED <<store, process, view, bounds>>
    PROVE  IInv'
<1>1. NoOp \in Ops /\ NoOp.pc = "idle"
  BY TurnAssumption DEF NoOp, NoTurn, Ops
<1> QED  BY <1>1, Requests DEF Answer, store

LEMMA RefuseTurnKeeps ==
    ASSUME IInv, NEW h \in Handlers, RefuseTurn(h)
    PROVE  IInv'
BY AnswerKeeps DEF RefuseTurn

LEMMA TurnCancelledKeeps ==
    ASSUME IInv, NEW h \in Handlers, TurnCancelled(h)
    PROVE  IInv'
BY AnswerKeeps DEF TurnCancelled

LEMMA RegenerateKeeps ==
    ASSUME IInv, NEW h \in Handlers, Regenerate(h)
    PROVE  IInv'
<1>1. Types /\ op[h] \in Ops
  BY DEF IInv, Types
<1>2. PICK o \in Ops : o = [op[h] EXCEPT !.pc = "lastUser", !.regenerate = TRUE] /\ o.pc = "lastUser"
  <2>1. [op[h] EXCEPT !.pc = "lastUser", !.regenerate = TRUE] \in Ops
    BY <1>1 DEF Ops
  <2>2. [op[h] EXCEPT !.pc = "lastUser", !.regenerate = TRUE].pc = "lastUser"
    BY <1>1 DEF Ops
  <2> QED  BY <2>1, <2>2
<1>3. op' = [op EXCEPT ![h] = o]
  BY <1>1, <1>2 DEF Regenerate, Types
<1> QED  BY <1>2, <1>3, Requests DEF Regenerate, store

LEMMA LastUserKeeps ==
    ASSUME IInv, NEW h \in Handlers, LastUser(h)
    PROVE  IInv'
<1>1. Types /\ op[h] \in Ops
  BY DEF IInv, Types
<1>2. CASE op' = [op EXCEPT ![h].pc = "lastMessage"]
  <2>1. PICK o \in Ops : o = [op[h] EXCEPT !.pc = "lastMessage"] /\ o.pc = "lastMessage"
    <3>1. [op[h] EXCEPT !.pc = "lastMessage"] \in Ops
      BY <1>1 DEF Ops
    <3>2. [op[h] EXCEPT !.pc = "lastMessage"].pc = "lastMessage"
      BY <1>1 DEF Ops
    <3> QED  BY <3>1, <3>2
  <2>2. op' = [op EXCEPT ![h] = o]
    BY <1>1, <1>2, <2>1 DEF Types
  <2> QED  BY <2>1, <2>2, Requests DEF LastUser, store
<1>3. CASE Answer(h)
  BY <1>3, AnswerKeeps DEF LastUser
<1> QED  BY <1>2, <1>3 DEF LastUser

LEMMA LastMessageKeeps ==
    ASSUME IInv, NEW h \in Handlers, LastMessage(h)
    PROVE  IInv'
<1>1. Types /\ op[h] \in Ops
  BY DEF IInv, Types
<1>2. CASE \E m \in Newest(thread) : op' = [op EXCEPT ![h].pc = "delete", ![h].message = m.id]
  <2>1. PICK m \in thread : op' = [op EXCEPT ![h].pc = "delete", ![h].message = m.id]
    BY <1>2 DEF Newest
  <2>2. PICK n \in Nat : n = m.id
    BY <1>1 DEF Types
  <2>3. PICK o \in Ops : o = [op[h] EXCEPT !.pc = "delete", !.message = n] /\ o.pc = "delete"
    <3>1. [op[h] EXCEPT !.pc = "delete", !.message = n] \in Ops
      BY <1>1 DEF Ops
    <3>2. [op[h] EXCEPT !.pc = "delete", !.message = n].pc = "delete"
      BY <1>1 DEF Ops
    <3> QED  BY <3>1, <3>2
  <2>4. op' = [op EXCEPT ![h] = o]
    BY <1>1, <2>1, <2>2, <2>3 DEF Types
  <2> QED  BY <2>3, <2>4, Requests DEF LastMessage, store
<1>3. CASE op' = [op EXCEPT ![h].pc = "replay"]
  <2>1. PICK o \in Ops : o = [op[h] EXCEPT !.pc = "replay"] /\ o.pc = "replay"
    <3>1. [op[h] EXCEPT !.pc = "replay"] \in Ops
      BY <1>1 DEF Ops
    <3>2. [op[h] EXCEPT !.pc = "replay"].pc = "replay"
      BY <1>1 DEF Ops
    <3> QED  BY <3>1, <3>2
  <2>2. op' = [op EXCEPT ![h] = o]
    BY <1>1, <1>3, <2>1 DEF Types
  <2> QED  BY <2>1, <2>2, Requests DEF LastMessage, store
<1> QED  BY <1>2, <1>3 DEF LastMessage

LEMMA DeleteAnswerKeeps ==
    ASSUME IInv, NEW h \in Handlers, DeleteAnswer(h)
    PROVE  IInv'
<1>1. Types /\ op[h] \in Ops
  BY DEF IInv, Types
<1>2. PICK o \in Ops : o = [op[h] EXCEPT !.pc = "replay", !.message = 0] /\ o.pc = "replay"
  <2>1. [op[h] EXCEPT !.pc = "replay", !.message = 0] \in Ops
    BY <1>1 DEF Ops
  <2>2. [op[h] EXCEPT !.pc = "replay", !.message = 0].pc = "replay"
    BY <1>1 DEF Ops
  <2> QED  BY <2>1, <2>2
<1>3. op' = [op EXCEPT ![h] = o]
  BY <1>1, <1>2 DEF DeleteAnswer, Types
<1>4. thread' \subseteq thread
  BY DEF DeleteAnswer, Without
<1> QED  BY <1>2, <1>3, <1>4, Requests DEF DeleteAnswer

LEMMA FindStaleKeeps ==
    ASSUME IInv, NEW h \in Handlers, FindStale(h)
    PROVE  IInv'
<1>1. Types /\ op[h] \in Ops
  BY DEF IInv, Types
<1>2. PICK t \in Turns : Stale(t) /\ op' = [op EXCEPT ![h].pc = "settle", ![h].turn = t]
  BY DEF FindStale
<1>3. PICK o \in Ops : o = [op[h] EXCEPT !.pc = "settle", !.turn = t] /\ o.turn = t
  <2>1. [op[h] EXCEPT !.pc = "settle", !.turn = t] \in Ops
    BY <1>1, TurnKnown DEF Ops
  <2>2. [op[h] EXCEPT !.pc = "settle", !.turn = t].turn = t
    BY <1>1, TurnKnown DEF Ops
  <2> QED  BY <2>1, <2>2
<1>4. row[t] # "none" /\ ~Live(t)
  BY <1>2 DEF Stale
<1>5. op' = [op EXCEPT ![h] = o]
  BY <1>1, <1>2, <1>3 DEF Types
<1> QED  BY <1>3, <1>4, <1>5, Requests DEF FindStale, store

\* cancel_turn is a step of the runner; the handler waits.
LEMMA CancelTurnKeeps ==
    ASSUME IInv, NEW h \in Handlers, CancelTurn(h)
    PROVE  IInv'
<1>1. Types /\ op[h] \in Ops
  BY DEF IInv, Types
<1>2. PICK t \in Turns : Interrupt(t) /\ op' = [op EXCEPT ![h].pc = "await", ![h].turn = t]
  BY DEF CancelTurn
<1>3. PICK o \in Ops : o = [op[h] EXCEPT !.pc = "await", !.turn = t] /\ o.pc = "await"
  <2>1. [op[h] EXCEPT !.pc = "await", !.turn = t] \in Ops
    BY <1>1, TurnKnown DEF Ops
  <2>2. [op[h] EXCEPT !.pc = "await", !.turn = t].pc = "await"
    BY <1>1, TurnKnown DEF Ops
  <2> QED  BY <2>1, <2>2
<1>4. op' = [op EXCEPT ![h] = o]
  BY <1>1, <1>2, <1>3 DEF Types
<1>5. Aside
  BY <1>1, <1>3, <1>4 DEF Aside, Types, CancelTurn
<1> QED  BY <1>2, <1>5, UnwoundKeeps, InterruptedKeeps

\* The row of a turn that nobody works on is settled.
LEMMA SettlesRow ==
    ASSUME IInv, NEW t \in Turns, row[t] # "none", ~Live(t),
           NEW status \in {"interrupted", "cancelled"}, SetStatus(t, status),
           UNCHANGED <<exists, stored, kept, thread, lastId, process, bounds>>
    PROVE  /\ row' \in [Turns -> {"none", "running", "gone"} \cup Final]
           /\ InTurn' /\ AtMostOne' /\ TurnsOK'
           /\ UNCHANGED <<runner, published, cap, bus, deletions, restarts>>
           /\ \A u \in Turns : row[u] # "none" => row'[u] # "none"
           /\ \A u : Live(u)' <=> Live(u)
<1>1. Types /\ TurnsOK
  BY DEF IInv
<1>2. UNCHANGED <<runner, published, cap, bus, deletions, restarts>>
  BY DEF process, bounds
<1>3. \A u : Live(u)' <=> Live(u)
  BY <1>2 DEF Live
<1>4. /\ row' \in [Turns -> {"none", "running", "gone"} \cup Final]
      /\ \A u \in Turns \ {t} : row'[u] = row[u]
      /\ row'[t] \in {row[t], status}
      /\ row'[t] = "running" => row[t] = "running"
  BY <1>1 DEF SetStatus, Types, Final
<1>5. \A u \in Turns : /\ row'[u] = "none" <=> row[u] = "none"
                       /\ row'[u] = "running" => row[u] = "running"
  BY <1>4
<1>6. InTurn' /\ AtMostOne'
  BY <1>5, RowsSame DEF IInv
<1>7. TurnOK(t)'
  <2>1. TurnOK(t) /\ runner[t].pc = "ended"
    BY <1>1 DEF TurnsOK, TurnOK, RowOK, Live
  <2>2. RowOK(t)'
    <3>1. Upsets(t)' = Upsets(t)
      BY <1>2 DEF Upsets, Published
    <3> QED  BY <1>2, <1>4, <1>5, <2>1, <3>1 DEF TurnOK, RowOK, Live, Before, Failed
  <2>3. UpsetOK(t)' /\ EventsOK(t)' /\ AnswerOK(t)'
    BY <1>2, <2>1, SamePublished
       DEF TurnOK, UpsetOK, EventsOK, AnswerOK, Before, Cancelled, Failed
  <2> QED  BY <2>2, <2>3 DEF TurnOK
<1>8. \A u \in Turns \ {t} : TurnOK(u)'
  BY <1>1, <1>2, <1>4, TurnSame DEF TurnsOK
<1> QED  BY <1>2, <1>3, <1>4, <1>5, <1>6, <1>7, <1>8 DEF TurnsOK

\* .. by a request,
LEMMA RequestSettles ==
    ASSUME IInv, NEW h \in Handlers, op[h].pc \in {"recover", "settle"},
           NEW status \in {"interrupted", "cancelled"}, SetStatus(op[h].turn, status),
           UNCHANGED <<exists, stored, kept, thread, lastId, process, view, bounds>>,
           NEW o \in Ops, o.pc \notin {"recover", "settle"}, op' = [op EXCEPT ![h] = o]
    PROVE  IInv'
<1>1. PICK t \in Turns : t = op[h].turn /\ row[t] # "none" /\ ~Live(t)
  BY DEF IInv, OpsOK, OpOK
<1>2. SetStatus(t, status)
  BY <1>1
<1>3. /\ row' \in [Turns -> {"none", "running", "gone"} \cup Final]
      /\ InTurn' /\ AtMostOne' /\ TurnsOK'
      /\ UNCHANGED <<runner, published, cap, bus, deletions, restarts>>
      /\ \A u \in Turns : row[u] # "none" => row'[u] # "none"
      /\ \A u : Live(u)' <=> Live(u)
  BY <1>1, <1>2, SettlesRow
<1>4. OpsOK' /\ op' \in [Handlers -> Ops]
  BY <1>3, OpsMove DEF IInv
<1>5. ViewsOK'
  BY <1>3, ViewsSame DEF IInv
<1>6. Types'
  BY <1>3, <1>4 DEF IInv, Types
<1> QED  BY <1>3, <1>4, <1>5, <1>6 DEF IInv

LEMMA RecoverOrphanKeeps ==
    ASSUME IInv, NEW h \in Handlers, RecoverOrphan(h)
    PROVE  IInv'
<1>1. Types /\ op[h] \in Ops
  BY DEF IInv, Types
<1>2. PICK o \in Ops : o = [op[h] EXCEPT !.pc = "create", !.turn = NoTurn] /\ o.pc = "create"
  <2>1. NoTurn \in 0..MaxTurns
    BY TurnAssumption DEF NoTurn
  <2>2. [op[h] EXCEPT !.pc = "create", !.turn = NoTurn] \in Ops
    BY <1>1, <2>1 DEF Ops
  <2>3. [op[h] EXCEPT !.pc = "create", !.turn = NoTurn].pc = "create"
    BY <1>1 DEF Ops
  <2> QED  BY <2>2, <2>3
<1>3. op' = [op EXCEPT ![h] = o]
  BY <1>1, <1>2 DEF RecoverOrphan, Types
<1> QED  BY <1>2, <1>3, RequestSettles DEF RecoverOrphan, Doing

LEMMA CancelStaleKeeps ==
    ASSUME IInv, NEW h \in Handlers, CancelStale(h)
    PROVE  IInv'
<1>1. NoOp \in Ops /\ NoOp.pc = "idle"
  BY TurnAssumption DEF NoOp, NoTurn, Ops
<1> QED  BY <1>1, RequestSettles DEF CancelStale, Doing, Answer

LEMMA CreateTurnKeeps ==
    ASSUME IInv, NEW h \in Handlers, CreateTurn(h)
    PROVE  IInv'
<1>1. Types /\ InTurn /\ TurnsOK /\ OpsOK /\ ViewsOK
  BY DEF IInv
<1>2. PICK t \in Turns :
        /\ t = Created + 1
        /\ MayCreate
        /\ row' = [row EXCEPT ![t] = "running"]
        /\ published' = [published EXCEPT ![t] = <<"session">>]
        /\ runner' = [runner EXCEPT ![t].pc = "prepare", ![t].regenerate = op[h].regenerate]
  BY DEF CreateTurn
<1>3. /\ Created \in 0..MaxTurns /\ row[t] = "none"
      /\ \A u \in Turns : row[u] # "none" <=> u <= Created
  <2>1. Created \in 0..MaxTurns /\ \A u \in Turns : row[u] # "none" <=> u <= Created
    BY <1>1, CreatedIs
  <2> QED  BY <1>2, <2>1
<1>4. UNCHANGED <<exists, stored, kept, thread, lastId, cap, bus, view, deletions, restarts>>
  BY DEF CreateTurn, bounds
<1>5. TurnOK(t) /\ runner[t] \in Runners /\ runner[t].pc = "none" /\ published[t] = <<>>
  BY <1>1, <1>3, RunnerIs DEF TurnsOK, TurnOK, RowOK
<1>6. PICK r \in Runners : /\ r = [runner[t] EXCEPT !.pc = "prepare", !.regenerate = op[h].regenerate]
                           /\ r.pc = "prepare" /\ r.snapshot = runner[t].snapshot
                           /\ r.doneSent = runner[t].doneSent
  <2>1. PICK g \in BOOLEAN : g = op[h].regenerate
    BY <1>1 DEF Types, Ops
  <2> DEFINE r == [runner[t] EXCEPT !.pc = "prepare", !.regenerate = g]
  <2>2. r \in Runners
    BY <1>5 DEF Runners, Before
  <2>3. r.pc = "prepare" /\ r.snapshot = runner[t].snapshot /\ r.doneSent = runner[t].doneSent
    BY <1>5 DEF Runners
  <2> QED  BY <2>1, <2>2, <2>3
<1>7. /\ runner'[t] = r /\ row'[t] = "running" /\ published'[t] = <<"session">>
      /\ runner' = [runner EXCEPT ![t] = r]
      /\ \A u \in Turns \ {t} : /\ row'[u] = row[u] /\ runner'[u] = runner[u]
                               /\ published'[u] = published[u]
  BY <1>1, <1>2, <1>6 DEF Types
<1>8. \A u \in Turns \ {t} : TurnOK(u)'
  BY <1>1, <1>4, <1>7, TurnSame DEF TurnsOK
<1>9. TurnOK(t)'
  <2>1. /\ \A x : Published(t, x)' <=> x = "session"
        /\ Len(published'[t]) = 1 /\ DOMAIN published'[t] = {1}
    BY <1>7 DEF Published
  <2>2. stored[t] = 0 /\ runner[t].snapshot = 0 /\ ~runner[t].doneSent
    <3>1. stored[t] \in Nat /\ runner[t].snapshot \in Nat /\ Len(published[t]) = 0
      BY <1>1, <1>5 DEF Types, Runners
    <3> QED  BY <1>5, <3>1 DEF TurnOK, EventsOK
  <2>3. RowOK(t)'
    BY <1>6, <1>7 DEF RowOK
  <2>4. UpsetOK(t)' /\ AnswerOK(t)'
    BY <1>6, <1>7, <2>1 DEF UpsetOK, AnswerOK, Cancelled, Failed, Produced
  <2>5. EventsOK(t)'
    BY <1>4, <1>6, <1>7, <2>1, <2>2 DEF EventsOK, Cancelled, Failed
  <2> QED  BY <2>3, <2>4, <2>5 DEF TurnOK
<1>10. TurnsOK'
  BY <1>8, <1>9 DEF TurnsOK
<1>11. InTurn'
  <2>1. \A u \in Turns : row'[u] # "none" <=> u <= t
    <3> TAKE u \in Turns
    <3>1. CASE u = t
      BY <1>7, <3>1 DEF Turns
    <3>2. CASE u # t
      <4>1. row'[u] = row[u] /\ (row[u] # "none" <=> u <= Created)
        BY <1>3, <1>7, <3>2
      <4> QED  BY <1>2, <1>3, <3>2, <4>1 DEF Turns
    <3> QED  BY <3>1, <3>2
  <2> QED  BY <2>1, TurnKnown DEF InTurn
<1>12. AtMostOne'
  <2>1. \A u \in Turns : row[u] # "running"
    BY <1>2 DEF MayCreate, RunningRows
  <2> QED  BY <1>7, <2>1 DEF AtMostOne
<1>13. \A u \in Turns : row[u] # "none" =>
        row'[u] # "none" /\ published'[u] = published[u] /\ (Live(u)' <=> Live(u))
  <2> TAKE u \in Turns
  <2> HAVE row[u] # "none"
  <2>1. u # t
    BY <1>3
  <2> QED  BY <1>7, <2>1 DEF Live
<1>14. OpsOK' /\ op' \in [Handlers -> Ops]
  <2>1. NoOp \in Ops /\ NoOp.pc = "idle"
    BY TurnAssumption DEF NoOp, NoTurn, Ops
  <2>2. op' = [op EXCEPT ![h] = NoOp]
    BY DEF CreateTurn, Answer
  <2> QED  BY <1>1, <1>13, <2>1, <2>2, OpsMove
<1>15. ViewsOK'
  BY <1>1, <1>4, <1>13, ViewsSame
<1>16. Types'
  <2>1. <<"session">> \in Seq(Events)
    BY DEF Events
  <2> QED  BY <1>1, <1>2, <1>4, <1>7, <1>14, <2>1 DEF Types
<1> QED  BY <1>10, <1>11, <1>12, <1>14, <1>15, <1>16 DEF IInv

LEMMA HandleKeeps ==
    ASSUME IInv, NEW h \in Handlers, Handle(h)
    PROVE  IInv'
BY StartTurnKeeps, RecoverOrphanKeeps, CreateTurnKeeps, RefuseTurnKeeps, RegenerateKeeps,
   LastUserKeeps, LastMessageKeeps, DeleteAnswerKeeps, CancelTurnKeeps, TurnCancelledKeeps,
   FindStaleKeeps, CancelStaleKeeps DEF Handle

(***************************************************************************)
(* Deletions and restarts.                                                 *)
(***************************************************************************)
\* Rows go, and the events stored with them.
LEMMA Deletes ==
    ASSUME IInv, exists' \in BOOLEAN, exists' => exists, thread' \subseteq thread,
           deletions' \in Nat,
           row' \in [Turns -> {"none", "running", "gone"} \cup Final],
           stored' \in [Turns -> Nat],
           \A t \in Turns : /\ row'[t] = row[t] \/ (row'[t] = "gone" /\ row[t] # "none")
                            /\ stored'[t] \in {0, stored[t]},
           UNCHANGED <<kept, lastId, process, op, view, restarts>>
    PROVE  IInv'
<1>1. Types /\ TurnsOK
  BY DEF IInv
<1>2. UNCHANGED <<runner, published, cap, bus>>
  BY DEF process
<1>3. Types'
  BY <1>1, <1>2 DEF Types
<1>4. InTurn' /\ AtMostOne'
  BY RowsSame DEF IInv
<1>5. \A u : Live(u)' <=> Live(u)
  BY <1>2 DEF Live
<1>6. OpsOK' /\ ViewsOK'
  BY <1>2, <1>5, OpsSame, ViewsSame DEF IInv
<1>7. ASSUME NEW t \in Turns
      PROVE  TurnOK(t)'
  <2>1. TurnOK(t)
    BY <1>1 DEF TurnsOK
  <2>2. Upsets(t)' = Upsets(t) /\ (Produced(t)' <=> Produced(t))
    BY <1>2, SamePublished DEF Upsets, Published
  <2>3. RowOK(t)'
    BY <1>2, <2>1, <2>2 DEF TurnOK, RowOK, Live
  <2>4. UpsetOK(t)' /\ AnswerOK(t)'
    BY <1>2, <2>1, <2>2, SamePublished DEF TurnOK, UpsetOK, AnswerOK
  <2>5. EventsOK(t)'
    <3>1. stored[t] \in Nat /\ Len(published[t]) \in Nat
      BY <1>1 DEF Types
    <3>2. stored'[t] <= Len(published[t])
      BY <2>1, <3>1 DEF TurnOK, EventsOK
    <3> QED  BY <1>2, <2>1, <3>2, SamePublished DEF TurnOK, EventsOK
  <2> QED  BY <2>3, <2>4, <2>5 DEF TurnOK
<1> QED  BY <1>3, <1>4, <1>6, <1>7 DEF IInv, TurnsOK

LEMMA DeleteSessionKeeps ==
    ASSUME IInv, DeleteSession
    PROVE  IInv'
<1>1. Types
  BY DEF IInv
<1>2. /\ row' \in [Turns -> {"none", "running", "gone"} \cup Final]
      /\ stored' \in [Turns -> Nat] /\ deletions' \in Nat /\ exists' = FALSE /\ thread' = {}
      /\ \A t \in Turns : /\ row'[t] = row[t] \/ (row'[t] = "gone" /\ row[t] # "none")
                          /\ stored'[t] \in {0, stored[t]}
  BY <1>1 DEF DeleteSession, HasRow, Types
<1>3. UNCHANGED <<kept, lastId, process, op, view, restarts>>
  BY DEF DeleteSession
<1> QED  BY <1>2, <1>3, Deletes

LEMMA DeleteByMessageKeeps ==
    ASSUME IInv, NEW m \in thread, DeleteByMessage(m)
    PROVE  IInv'
<1>1. Types
  BY DEF IInv
<1>2. TurnsFrom(m) \subseteq {t \in Turns : HasRow(t)}
  BY DEF TurnsFrom
<1>3. /\ row' \in [Turns -> {"none", "running", "gone"} \cup Final]
      /\ \A t \in Turns : row'[t] = row[t] \/ (row'[t] = "gone" /\ row[t] # "none")
  BY <1>1, <1>2 DEF DeleteByMessage, HasRow, Types
<1>4. stored' \in [Turns -> Nat] /\ \A t \in Turns : stored'[t] \in {0, stored[t]}
  BY <1>1 DEF DeleteByMessage, Types
<1>5. deletions' \in Nat /\ thread' \subseteq thread /\ exists' = exists
  BY <1>1 DEF DeleteByMessage, Without, Types
<1>6. UNCHANGED <<kept, lastId, process, op, view, restarts>>
  BY DEF DeleteByMessage
<1>7. exists' \in BOOLEAN
  BY <1>1, <1>5 DEF Types
<1> QED  BY <1>3, <1>4, <1>5, <1>6, <1>7, Deletes

LEMMA RestartKeeps ==
    ASSUME IInv, Restart
    PROVE  IInv'
<1>1. Types /\ TurnsOK /\ ViewsOK
  BY DEF IInv
<1>2. UNCHANGED <<exists, row, stored, kept, thread, lastId, published, deletions>>
  BY DEF Restart, store
<1>3. restarts' \in Nat /\ restarts' # 0
  <2>1. restarts \in Nat /\ restarts' = restarts + 1
    BY <1>1 DEF Restart, Types
  <2> QED  BY <2>1
<1>4. ASSUME NEW t \in Turns
      PROVE  /\ runner'[t] \in Runners /\ runner'[t].pc \in {"none", "ended"}
             /\ runner'[t].pc = "none" <=> runner[t].pc = "none"
             /\ \/ runner'[t] = runner[t]
                \/ runner'[t].pc = "ended" /\ runner'[t].snapshot = 0
             /\ ~Live(t)'
  <2>1. runner[t] \in Runners
    BY <1>1, RunnerIs
  <2>2. CASE Live(t)
    <3>1. runner'[t] = Ended(t, runner[t].cancels)
      BY <2>2 DEF Restart
    <3>2. PICK c \in Nat : c = runner[t].cancels
      BY <2>1 DEF Runners
    <3>3. Ended(t, c) \in Runners /\ Ended(t, c).pc = "ended" /\ Ended(t, c).snapshot = 0
      BY <2>1, EndedIs
    <3> QED  BY <2>2, <3>1, <3>2, <3>3 DEF Live
  <2>3. CASE ~Live(t)
    <3>1. runner'[t] = runner[t]
      BY <2>3 DEF Restart
    <3> QED  BY <2>1, <2>3, <3>1 DEF Live
  <2> QED  BY <2>2, <2>3
<1>5. runner' \in [Turns -> Runners]
  BY <1>4 DEF Restart
<1>6. cap' \in [Turns -> Caps] /\ bus' \in [Turns -> Seq(Emitted)]
  <2>1. OverCap \in Caps /\ <<>> \in Seq(Emitted)
    BY DEF OverCap, NoCap, Caps
  <2> QED  BY <1>1, <2>1 DEF Restart, Types
<1>7. op' \in [Handlers -> Ops] /\ OpsOK'
  <2>1. NoOp \in Ops /\ NoOp.pc = "idle"
    BY TurnAssumption DEF NoOp, NoTurn, Ops
  <2> QED  BY <2>1 DEF Restart, OpsOK, OpOK
<1>8. ASSUME NEW v \in Viewers
      PROVE  view'[v] \in Views /\ ViewOK(v)'
  <2>1. view[v] \in Views /\ ViewOK(v)
    BY <1>1 DEF Types, ViewsOK
  <2>2. CASE view[v].pc \in {"idle", "closed"}
    <3>1. view'[v] = view[v]
      BY <2>2 DEF Restart
    <3>2. \A t, i : IsDone(t, i)' <=> IsDone(t, i)
      BY <1>2 DEF IsDone
    <3> QED  BY <1>2, <2>1, <2>2, <3>1, <3>2 DEF ViewOK
  <2>3. CASE view[v].pc \notin {"idle", "closed"}
    <3>1. view'[v] = [view[v] EXCEPT !.pc = "left", !.queue = <<>>]
      BY <2>3 DEF Restart
    <3>2. <<>> \in Seq(Nat)
      OBVIOUS
    <3>3. view'[v] \in Views /\ view'[v].pc = "left" /\ view'[v].got = view[v].got
          /\ view'[v].turn = view[v].turn
      BY <2>1, <3>1, <3>2 DEF Views
    <3> QED  BY <1>2, <2>1, <2>3, <3>3 DEF ViewOK
  <2> QED  BY <2>2, <2>3
<1>9. view' \in [Viewers -> Views] /\ ViewsOK'
  BY <1>8 DEF Restart, ViewsOK
<1>10. Types'
  BY <1>1, <1>2, <1>3, <1>5, <1>6, <1>7, <1>9 DEF Types
<1>11. InTurn' /\ AtMostOne'
  BY <1>2, RowsSame DEF IInv
<1>12. ASSUME NEW t \in Turns
       PROVE  TurnOK(t)'
  <2>1. TurnOK(t)
    BY <1>1 DEF TurnsOK
  <2>2. RowOK(t)'
    BY <1>2, <1>3, <1>4, <2>1 DEF TurnOK, RowOK, Before, Failed
  <2>3. UpsetOK(t)' /\ AnswerOK(t)'
    BY <1>2, <1>4, <2>1, SamePublished DEF TurnOK, UpsetOK, AnswerOK, Cancelled, Failed
  <2>4. EventsOK(t)'
    <3>1. Len(published[t]) \in Nat
      BY <1>1 DEF Types
    <3> QED  BY <1>2, <1>4, <2>1, <3>1, SamePublished
             DEF TurnOK, EventsOK, Before, Cancelled, Failed
  <2> QED  BY <2>2, <2>3, <2>4 DEF TurnOK
<1> QED  BY <1>7, <1>9, <1>10, <1>11, <1>12 DEF IInv, TurnsOK

(***************************************************************************)
(* Viewers.                                                                *)
(***************************************************************************)
LEMMA SeqsBehind ==
    ASSUME NEW a \in Nat, NEW b \in Nat, b <= a
    PROVE  Seqs(a, b) = <<>>
<1>1. 1..(b - a) = {}
  OBVIOUS
<1>2. DOMAIN Seqs(a, b) = {} /\ Seqs(a, b) \in Seq(Nat)
  <2>1. b - a <= 0 /\ 1..(b - a) = 1..0
    BY <1>1
  <2>2. Seqs(a, b) = [i \in 1..0 |-> a + i]
    BY <2>1 DEF Seqs
  <2>3. [i \in 1..0 |-> a + i] \in Seq(Nat)
    OBVIOUS
  <2> QED  BY <2>2, <2>3
<1> QED  BY <1>2

LEMMA SeqsOne ==
    ASSUME NEW n \in Nat
    PROVE  Seqs(n, n + 1) = <<n + 1>>
<1>1. n + 1 \in Nat /\ n <= n + 1 /\ (n + 1) - n = 1
  OBVIOUS
<1>2. PICK m \in Nat : m = n + 1
  BY <1>1
<1>3. Seqs(n, m) \in Seq(Nat) /\ Len(Seqs(n, m)) = 1 /\ Seqs(n, m)[1] = n + 1
  <2>1. /\ Seqs(n, m) \in Seq(Nat) /\ Len(Seqs(n, m)) = m - n
        /\ \A i \in 1..(m - n) : Seqs(n, m)[i] = n + i
    BY <1>1, <1>2, SeqsIs
  <2>2. m - n = 1
    BY <1>2
  <2> QED  BY <2>1, <2>2
<1> QED  BY <1>2, <1>3

\* What a viewer's state has to be, whoever the viewer is.
Fits(w) ==
    LET t == w.turn
    IN  /\ w.pc = "idle" => w.got = <<>>
        /\ w.pc # "idle" =>
            /\ t \in Turns /\ row[t] # "none"
            /\ w.got = Seqs(0, Len(w.got)) /\ Len(w.got) <= Len(published[t])
        /\ w.pc \in {"catchUp", "status", "recover", "drained"} => ~Live(t)
        /\ w.pc = "live" =>
            w.queue = IF Live(t) THEN Seqs(Len(w.got), Len(published[t]))
                      ELSE Append(Seqs(Len(w.got), Len(published[t])), End)
        /\ w.pc \in {"live", "drained"} /\ ~Live(t) => Published(t, "done")
        /\ w.pc = "drained" => Len(w.got) = Len(published[t])
        /\ w.pc = "closed" => w.done \/ \E i \in DOMAIN w.got : IsDone(t, w.got[i])

LEMMA ViewMoves ==
    ASSUME IInv, NEW v \in Viewers, NEW w \in Views, Fits(w), Becomes(v, w)
    PROVE  IInv'
<1>1. Types /\ ViewsOK /\ OpsOK
  BY DEF IInv
<1>2. /\ view' = [view EXCEPT ![v] = w]
      /\ UNCHANGED <<exists, row, stored, kept, thread, lastId, runner, published, cap, bus, op,
                     deletions, restarts>>
  BY DEF Becomes, store, process, bounds
<1>3. view'[v] = w /\ \A x \in Viewers \ {v} : view'[x] = view[x]
  BY <1>1, <1>2 DEF Types
<1>4. /\ \A u : Live(u)' <=> Live(u)
      /\ \A u, x : Published(u, x)' <=> Published(u, x)
      /\ \A u, i : IsDone(u, i)' <=> IsDone(u, i)
  BY <1>2 DEF Live, Published, IsDone
<1>5. ViewOK(v)'
  BY <1>2, <1>3, <1>4 DEF ViewOK, Fits
<1>6. \A x \in Viewers \ {v} : ViewOK(x)'
  BY <1>1, <1>2, <1>3, <1>4, ViewSame DEF ViewsOK
<1>7. ViewsOK'
  BY <1>5, <1>6 DEF ViewsOK
<1>8. OpsOK'
  BY <1>1, <1>2, <1>4, OpsSame
<1>9. Types'
  BY <1>1, <1>2 DEF Types
<1> QED  BY <1>2, <1>7, <1>8, <1>9, Elsewhere

\* A viewer that is following a turn.
LEMMA Follows ==
    ASSUME IInv, NEW v \in Viewers, view[v].pc # "idle"
    PROVE  /\ view[v] \in Views /\ Fits(view[v])
           /\ view[v].turn \in Turns /\ row[view[v].turn] # "none"
           /\ Last(v) = Len(view[v].got) /\ Last(v) \in Nat
           /\ view[v].got = Seqs(0, Last(v))
           /\ Last(v) <= Len(published[view[v].turn])
           /\ Len(published[view[v].turn]) \in Nat /\ stored[view[v].turn] \in Nat
           /\ stored[view[v].turn] <= Len(published[view[v].turn])
<1>1. view[v] \in Views /\ ViewOK(v) /\ view[v].turn \in Turns
  BY DEF IInv, Types, ViewsOK, ViewOK
<1>2. Fits(view[v])
  BY <1>1 DEF ViewOK, Fits
<1>3. /\ row[view[v].turn] # "none" /\ Len(view[v].got) \in Nat
      /\ view[v].got = Seqs(0, Len(view[v].got))
      /\ Len(view[v].got) <= Len(published[view[v].turn])
  BY <1>1 DEF ViewOK, Views
<1>4. Last(v) = Len(view[v].got)
  <2>1. CASE view[v].got = <<>>
    BY <2>1 DEF Last
  <2>2. CASE view[v].got # <<>>
    <3> DEFINE n == Len(view[v].got)
    <3>1. n \in 1..n /\ n \in Nat
      BY <1>1, <2>2 DEF Views
    <3>2. Seqs(0, n)[n] = n
      BY <3>1, SeqsFromStart
    <3>3. view[v].got[n] = n
      BY <1>3, <3>2
    <3> QED  BY <2>2, <3>3 DEF Last
  <2> QED  BY <2>1, <2>2
<1>5. /\ Len(published[view[v].turn]) \in Nat /\ stored[view[v].turn] \in Nat
      /\ stored[view[v].turn] <= Len(published[view[v].turn])
  BY <1>1 DEF IInv, Types, TurnsOK, TurnOK, EventsOK
<1> QED  BY <1>1, <1>2, <1>3, <1>4, <1>5

\* It has the first n events afterwards, or more if it had.
LEMMA ReceivesIs ==
    ASSUME IInv, NEW v \in Viewers, view[v].pc # "idle",
           NEW n \in Nat, n <= Len(published[view[v].turn])
    PROVE  \E w \in Views :
            /\ w = Receives(v, Seqs(Last(v), n))
            /\ w.pc = view[v].pc /\ w.turn = view[v].turn /\ w.queue = view[v].queue
            /\ Len(w.got) = (IF Last(v) <= n THEN n ELSE Last(v))
            /\ w.got = Seqs(0, Len(w.got)) /\ Len(w.got) <= Len(published[view[v].turn])
            /\ Len(w.got) \in Nat
<1>1. /\ view[v] \in Views /\ Last(v) \in Nat /\ view[v].got = Seqs(0, Last(v))
      /\ Last(v) <= Len(published[view[v].turn]) /\ Len(published[view[v].turn]) \in Nat
  BY Follows
<1>2. PICK max \in Nat : /\ max = IF Last(v) <= n THEN n ELSE Last(v)
                         /\ max <= Len(published[view[v].turn])
  BY <1>1
<1>3. view[v].got \o Seqs(Last(v), n) = Seqs(0, max)
  <2>1. CASE Last(v) <= n
    <3>1. 0 <= Last(v) /\ 0 \in Nat
      BY <1>1
    <3>2. Seqs(0, Last(v)) \o Seqs(Last(v), n) = Seqs(0, n)
      BY <1>1, <2>1, <3>1, SeqsJoin
    <3> QED  BY <1>1, <1>2, <2>1, <3>2
  <2>2. CASE ~ (Last(v) <= n)
    <3>1. n <= Last(v)
      BY <1>1, <2>2
    <3>2. Seqs(Last(v), n) = <<>>
      BY <1>1, <3>1, SeqsBehind
    <3>3. view[v].got \in Seq(Nat)
      BY <1>1 DEF Views
    <3>4. view[v].got \o <<>> = view[v].got
      BY <3>3, ConcatEmptySeq
    <3> QED  BY <1>1, <1>2, <2>2, <3>2, <3>4
  <2> QED  BY <2>1, <2>2
<1>4. Seqs(0, max) \in Seq(Nat) /\ Len(Seqs(0, max)) = max
  BY SeqsFromStart
<1>5. PICK d \in BOOLEAN :
        d = (view[v].done \/ \E i \in DOMAIN Seqs(Last(v), n) :
                                IsDone(view[v].turn, Seqs(Last(v), n)[i]))
  BY <1>1 DEF Views
<1>6. Receives(v, Seqs(Last(v), n)) = [view[v] EXCEPT !.got = Seqs(0, max), !.done = d]
  BY <1>3, <1>5 DEF Receives
<1> DEFINE w == [view[v] EXCEPT !.got = Seqs(0, max), !.done = d]
<1>7. /\ w \in Views /\ w.pc = view[v].pc /\ w.turn = view[v].turn
      /\ w.queue = view[v].queue /\ w.got = Seqs(0, max)
  BY <1>1, <1>4 DEF Views
<1> HIDE DEF w
<1>8. Len(w.got) = max /\ w.got = Seqs(0, Len(w.got))
  BY <1>4, <1>7
<1>9. w = Receives(v, Seqs(Last(v), n))
  BY <1>6 DEF w
<1> QED  BY <1>2, <1>7, <1>8, <1>9

LEMMA SubscribeKeeps ==
    ASSUME IInv, NEW v \in Viewers, NEW t \in Turns, Subscribe(v, t)
    PROVE  IInv'
<1>1. PICK w : w = [NoView EXCEPT !.pc = "backlog", !.turn = t]
  OBVIOUS
<1>2. w.pc = "backlog" /\ w.turn = t /\ w.got = <<>>
  BY <1>1 DEF NoView
<1>3. w \in Views
  <2>1. <<>> \in Seq(Nat)
    OBVIOUS
  <2> QED  BY <1>1, <2>1, TurnKnown DEF NoView, Views
<1>4. <<>> = Seqs(0, 0) /\ Len(<<>>) = 0 /\ 0 <= Len(published[t])
  <2>1. Seqs(0, 0) = <<>>
    BY SeqsBehind
  <2>2. Len(published[t]) \in Nat
    BY DEF IInv, Types
  <2> QED  BY <2>1, <2>2
<1>5. Fits(w)
  <2>1. row[t] # "none"
    BY DEF Subscribe, HasRow
  <2> QED  BY <1>2, <1>4, <2>1 DEF Fits
<1>6. Becomes(v, w)
  BY <1>1 DEF Subscribe
<1> QED  BY <1>3, <1>5, <1>6, ViewMoves

\* A viewer that reads nothing from the queue or the store.
LEMMA MovesOn ==
    ASSUME IInv, NEW v \in Viewers, view[v].pc # "idle", NEW w \in Views,
           w.pc \in {"backlog", "recover", "left", "catchUp", "status"},
           w.pc \in {"catchUp", "status", "recover"} => ~Live(view[v].turn),
           w.turn = view[v].turn, w.got = view[v].got, Becomes(v, w)
    PROVE  IInv'
<1>1. Fits(view[v])
  BY Follows
<1>2. Fits(w)
  BY <1>1 DEF Fits
<1> QED  BY <1>2, ViewMoves

LEMMA ResumeKeeps ==
    ASSUME IInv, NEW v \in Viewers, Resume(v)
    PROVE  IInv'
<1>1. view[v].pc = "left" /\ Becomes(v, [view[v] EXCEPT !.pc = "backlog", !.done = FALSE])
  BY DEF Resume
<1>2. view[v] \in Views
  BY <1>1, Follows
<1>3. PICK w \in Views : /\ w = [view[v] EXCEPT !.pc = "backlog", !.done = FALSE]
                         /\ w.pc = "backlog" /\ w.turn = view[v].turn /\ w.got = view[v].got
  <2> DEFINE w == [view[v] EXCEPT !.pc = "backlog", !.done = FALSE]
  <2>1. w \in Views
    BY <1>2 DEF Views
  <2>2. w.pc = "backlog" /\ w.turn = view[v].turn /\ w.got = view[v].got
    BY <1>2 DEF Views
  <2> QED  BY <2>1, <2>2
<1> QED  BY <1>1, <1>3, MovesOn

LEMMA LeaveKeeps ==
    ASSUME IInv, NEW v \in Viewers, Leave(v)
    PROVE  IInv'
<1>1. view[v].pc # "idle" /\ Becomes(v, [view[v] EXCEPT !.pc = "left", !.queue = <<>>])
  BY DEF Leave
<1>2. view[v] \in Views
  BY <1>1, Follows
<1>3. PICK w \in Views : /\ w = [view[v] EXCEPT !.pc = "left", !.queue = <<>>]
                         /\ w.pc = "left" /\ w.turn = view[v].turn /\ w.got = view[v].got
  <2> DEFINE w == [view[v] EXCEPT !.pc = "left", !.queue = <<>>]
  <2>1. <<>> \in Seq(Nat)
    OBVIOUS
  <2>2. w \in Views
    BY <1>2, <2>1 DEF Views
  <2>3. w.pc = "left" /\ w.turn = view[v].turn /\ w.got = view[v].got
    BY <1>2 DEF Views
  <2> QED  BY <2>2, <2>3
<1> QED  BY <1>1, <1>3, MovesOn

\* The three places where a viewer takes the events there are.
LEMMA Receiving ==
    ASSUME IInv, NEW v \in Viewers, view[v].pc # "idle",
           NEW n \in Nat, n <= Len(published[view[v].turn]),
           NEW pc \in {"register", "status"}, pc = "status" => ~Live(view[v].turn),
           Becomes(v, [Receives(v, Seqs(Last(v), n)) EXCEPT !.pc = pc])
    PROVE  IInv'
<1>1. PICK x \in Views :
        /\ x = Receives(v, Seqs(Last(v), n)) /\ x.turn = view[v].turn
        /\ x.got = Seqs(0, Len(x.got)) /\ Len(x.got) <= Len(published[view[v].turn])
  BY ReceivesIs
<1>2. view[v].turn \in Turns /\ row[view[v].turn] # "none"
  BY Follows
<1>3. PICK w \in Views : /\ w = [x EXCEPT !.pc = pc]
                         /\ w.pc = pc /\ w.turn = view[v].turn /\ w.got = x.got
  <2> DEFINE w == [x EXCEPT !.pc = pc]
  <2>1. w \in Views
    BY DEF Views
  <2>2. w.pc = pc /\ w.turn = view[v].turn /\ w.got = x.got
    BY <1>1 DEF Views
  <2> QED  BY <2>1, <2>2
<1>4. Fits(w)
  BY <1>1, <1>2, <1>3 DEF Fits
<1>5. Becomes(v, w)
  BY <1>1, <1>3
<1> QED  BY <1>4, <1>5, ViewMoves

LEMMA ReadBacklogKeeps ==
    ASSUME IInv, NEW v \in Viewers, ReadBacklog(v)
    PROVE  IInv'
<1>1. view[v].pc # "idle"
  BY DEF ReadBacklog
<1>2. PICK n \in Nat : n = stored[view[v].turn] /\ n <= Len(published[view[v].turn])
  BY <1>1, Follows
<1> QED  BY <1>1, <1>2, Receiving DEF ReadBacklog, StoredAfter

LEMMA CatchUpKeeps ==
    ASSUME IInv, NEW v \in Viewers, CatchUp(v)
    PROVE  IInv'
<1>1. view[v].pc = "catchUp"
  BY DEF CatchUp
<1>2. PICK n \in Nat : n = stored[view[v].turn] /\ n <= Len(published[view[v].turn])
  BY <1>1, Follows
<1>3. ~Live(view[v].turn)
  BY <1>1, Follows DEF Fits
<1> QED  BY <1>1, <1>2, <1>3, Receiving DEF CatchUp, StoredAfter

LEMMA RegisterKeeps ==
    ASSUME IInv, NEW v \in Viewers, Register(v)
    PROVE  IInv'
<1>1. view[v].pc = "register"
  BY DEF Register
<1>2. PICK u \in Turns : u = view[v].turn /\ row[u] # "none" /\ view[v] \in Views
  BY <1>1, Follows
<1>3. CASE Live(u)
  <2>1. PICK n \in Nat : n = Len(published[u]) /\ Last(v) <= n
    BY <1>1, <1>2, Follows
  <2>2. PICK x \in Views :
          /\ x = Receives(v, Seqs(Last(v), n)) /\ x.turn = u /\ Len(x.got) = n
          /\ x.got = Seqs(0, n)
    <3>1. n <= Len(published[view[v].turn])
      BY <1>2, <2>1
    <3> QED  BY <1>1, <1>2, <2>1, <3>1, ReceivesIs
  <2>3. PICK w \in Views :
          /\ w = [x EXCEPT !.pc = "live", !.queue = <<>>]
          /\ w.pc = "live" /\ w.turn = u /\ w.got = x.got /\ w.queue = <<>>
    <3> DEFINE w == [x EXCEPT !.pc = "live", !.queue = <<>>]
    <3>1. <<>> \in Seq(Nat)
      OBVIOUS
    <3>2. w \in Views
      BY <3>1 DEF Views
    <3>3. w.pc = "live" /\ w.turn = u /\ w.got = x.got /\ w.queue = <<>>
      BY <2>2 DEF Views
    <3> QED  BY <3>2, <3>3
  <2>4. Becomes(v, w)
    BY <1>2, <1>3, <2>1, <2>2, <2>3 DEF Register, PublishedAfter
  <2>5. Seqs(n, n) = <<>>
    <3>1. n <= n
      OBVIOUS
    <3> QED  BY <3>1, SeqsBehind
  <2>6. Fits(w)
    <3>1. /\ Len(w.got) = Len(published[u]) /\ w.got = Seqs(0, Len(w.got))
          /\ w.queue = Seqs(Len(w.got), Len(published[u]))
      BY <2>1, <2>2, <2>3, <2>5
    <3>2. Len(w.got) <= Len(published[u])
      BY <2>1, <3>1
    <3> QED  BY <1>2, <1>3, <2>3, <3>1, <3>2 DEF Fits
  <2> QED  BY <2>4, <2>6, ViewMoves
<1>4. CASE ~Live(u)
  <2>1. PICK w \in Views : /\ w = [view[v] EXCEPT !.pc = "catchUp"]
                           /\ w.pc = "catchUp" /\ w.turn = u /\ w.got = view[v].got
    <3> DEFINE w == [view[v] EXCEPT !.pc = "catchUp"]
    <3>1. w \in Views
      BY <1>2 DEF Views
    <3>2. w.pc = "catchUp" /\ w.turn = u /\ w.got = view[v].got
      BY <1>2 DEF Views
    <3> QED  BY <3>1, <3>2
  <2>2. Becomes(v, w)
    BY <1>2, <1>4, <2>1 DEF Register
  <2> QED  BY <1>1, <1>2, <1>4, <2>1, <2>2, MovesOn
<1> QED  BY <1>3, <1>4

\* The subscription is over.
LEMMA Closes ==
    ASSUME IInv, NEW v \in Viewers, view[v].pc # "idle", NEW done \in BOOLEAN,
           done \/ \E i \in DOMAIN view[v].got : IsDone(view[v].turn, view[v].got[i]),
           Becomes(v, [view[v] EXCEPT !.pc = "closed", !.queue = <<>>, !.done = done])
    PROVE  IInv'
<1>1. view[v] \in Views /\ Fits(view[v])
  BY Follows
<1>2. PICK w \in Views :
        /\ w = [view[v] EXCEPT !.pc = "closed", !.queue = <<>>, !.done = done]
        /\ w.pc = "closed" /\ w.turn = view[v].turn /\ w.got = view[v].got /\ w.done = done
  <2> DEFINE w == [view[v] EXCEPT !.pc = "closed", !.queue = <<>>, !.done = done]
  <2>1. <<>> \in Seq(Nat)
    OBVIOUS
  <2>2. w \in Views
    BY <1>1, <2>1 DEF Views
  <2>3. w.pc = "closed" /\ w.turn = view[v].turn /\ w.got = view[v].got /\ w.done = done
    BY <1>1 DEF Views
  <2> QED  BY <2>2, <2>3
<1>3. Fits(w)
  BY <1>1, <1>2 DEF Fits
<1> QED  BY <1>2, <1>3, ViewMoves

LEMMA CloseKeeps ==
    ASSUME IInv, NEW v \in Viewers, view[v].pc # "idle", Close(v)
    PROVE  IInv'
<1>1. view[v] \in Views
  BY Follows
<1>2. [Closed(view[v]) EXCEPT !.done = TRUE]
        = [view[v] EXCEPT !.pc = "closed", !.queue = <<>>, !.done = TRUE]
  BY DEF Closed
<1> QED  BY <1>2, Closes DEF Close

LEMMA StatusKeeps ==
    ASSUME IInv, NEW v \in Viewers, Status(v)
    PROVE  IInv'
<1>1. view[v].pc = "status"
  BY DEF Status
<1>2. view[v] \in Views /\ ~Live(view[v].turn)
  BY <1>1, Follows DEF Fits
<1>3. CASE Stale(view[v].turn)
  <2>1. PICK w \in Views : /\ w = [view[v] EXCEPT !.pc = "recover"]
                           /\ w.pc = "recover" /\ w.turn = view[v].turn /\ w.got = view[v].got
    <3> DEFINE w == [view[v] EXCEPT !.pc = "recover"]
    <3>1. w \in Views
      BY <1>2 DEF Views
    <3>2. w.pc = "recover" /\ w.turn = view[v].turn /\ w.got = view[v].got
      BY <1>2 DEF Views
    <3> QED  BY <3>1, <3>2
  <2>2. Becomes(v, w)
    BY <1>3, <2>1 DEF Status
  <2> QED  BY <1>1, <1>2, <2>1, <2>2, MovesOn
<1>4. CASE ~Stale(view[v].turn)
  BY <1>1, <1>4, CloseKeeps DEF Status
<1> QED  BY <1>3, <1>4

LEMMA DrainedKeeps ==
    ASSUME IInv, NEW v \in Viewers, Drained(v)
    PROVE  IInv'
<1>1. view[v].pc = "drained"
  BY DEF Drained
<1>2. PICK u \in Turns :
        /\ u = view[v].turn /\ view[v] \in Views /\ ~Live(u)
        /\ view[v].got = Seqs(0, Last(v)) /\ Last(v) = Len(published[u])
        /\ Published(u, "done") /\ Len(published[u]) \in Nat
  BY <1>1, Follows DEF Fits
<1>3. \E i \in DOMAIN view[v].got : IsDone(view[v].turn, view[v].got[i])
  <2>1. PICK i \in DOMAIN published[u] : published[u][i] = "done"
    BY <1>2 DEF Published
  <2>2. DOMAIN published[u] = 1..Last(v)
    BY <1>2 DEF IInv, Types
  <2>3. i \in DOMAIN view[v].got /\ view[v].got[i] = i
    <3>1. /\ Seqs(0, Last(v)) \in Seq(Nat) /\ Len(Seqs(0, Last(v))) = Last(v)
          /\ \A j \in 1..Last(v) : Seqs(0, Last(v))[j] = j
      BY <1>2, SeqsFromStart
    <3> QED  BY <1>2, <2>1, <2>2, <3>1
  <2> QED  BY <1>2, <2>1, <2>3 DEF IsDone
<1>4. CASE row[view[v].turn] = "running"
  <2>1. PICK done \in BOOLEAN : done = view[v].done
    BY <1>2 DEF Views
  <2>2. Closed(view[v]) = [view[v] EXCEPT !.pc = "closed", !.queue = <<>>, !.done = done]
    BY <1>2, <2>1 DEF Closed, Views
  <2> QED  BY <1>1, <1>3, <1>4, <2>2, Closes DEF Drained
<1>5. CASE row[view[v].turn] # "running"
  BY <1>1, <1>5, CloseKeeps DEF Drained
<1> QED  BY <1>4, <1>5

\* A queue whose first item is the next event of the turn.
LEMMA TakesNext ==
    ASSUME IInv, NEW v \in Viewers, view[v].pc = "live",
           Last(v) < Len(published[view[v].turn]),
           Head(view[v].queue) = Last(v) + 1,
           Tail(view[v].queue) =
            IF Live(view[v].turn) THEN Seqs(Last(v) + 1, Len(published[view[v].turn]))
            ELSE Append(Seqs(Last(v) + 1, Len(published[view[v].turn])), End),
           Tail(view[v].queue) \in Seq(Nat), Take(v)
    PROVE  IInv'
<1>1. PICK u \in Turns, n \in Nat :
        /\ u = view[v].turn /\ row[u] # "none" /\ n = Last(v) + 1 /\ n <= Len(published[u])
        /\ (~Live(u) => Published(u, "done")) /\ view[v] \in Views
        /\ Last(v) \in Nat /\ Last(v) < n /\ n # 0
  BY Follows DEF Fits
<1>2. <<n>> = Seqs(Last(v), n)
  BY <1>1, SeqsOne
<1>3. PICK x \in Views :
        /\ x = Receives(v, <<n>>) /\ x.pc = "live" /\ x.turn = u /\ Len(x.got) = n
        /\ x.got = Seqs(0, n) /\ x.queue = view[v].queue
  <2>1. /\ view[v].pc # "idle" /\ n <= Len(published[view[v].turn]) /\ Last(v) <= n
    BY <1>1
  <2>2. PICK x \in Views :
          /\ x = Receives(v, Seqs(Last(v), n))
          /\ x.pc = view[v].pc /\ x.turn = view[v].turn /\ x.queue = view[v].queue
          /\ Len(x.got) = (IF Last(v) <= n THEN n ELSE Last(v))
          /\ x.got = Seqs(0, Len(x.got))
    BY <2>1, ReceivesIs
  <2>3. Len(x.got) = n
    BY <2>1, <2>2
  <2>4. x = Receives(v, <<n>>)
    BY <1>2, <2>2
  <2> QED  BY <1>1, <2>2, <2>3, <2>4
<1>4. PICK q \in Seq(Nat) : /\ q = Tail(view[v].queue)
                            /\ q = IF Live(u) THEN Seqs(n, Len(published[u]))
                                   ELSE Append(Seqs(n, Len(published[u])), End)
  BY <1>1
<1>5. PICK w \in Views : /\ w = [x EXCEPT !.queue = q]
                         /\ w.pc = "live" /\ w.turn = u /\ w.got = x.got /\ w.queue = q
  <2> DEFINE w == [x EXCEPT !.queue = q]
  <2>1. w \in Views
    BY DEF Views
  <2>2. w.pc = "live" /\ w.turn = u /\ w.got = x.got /\ w.queue = q
    BY <1>3 DEF Views
  <2> QED  BY <2>1, <2>2
<1>6. Becomes(v, w)
  <2>1. Head(view[v].queue) # End /\ IsNew(v, Head(view[v].queue))
    BY <1>1 DEF End, IsNew
  <2>2. [Receives(v, <<Head(view[v].queue)>>) EXCEPT !.queue = Tail(@)] = w
    <3>1. Receives(v, <<Head(view[v].queue)>>) = x /\ x.queue = view[v].queue
      BY <1>1, <1>3
    <3> QED  BY <1>4, <1>5, <3>1
  <2> QED  BY <2>1, <2>2 DEF Take
<1>7. Fits(w)
  BY <1>1, <1>3, <1>4, <1>5 DEF Fits
<1> QED  BY <1>6, <1>7, ViewMoves

\* A queue with the sentinel alone.
LEMMA TakesEnd ==
    ASSUME IInv, NEW v \in Viewers, view[v].pc = "live", ~Live(view[v].turn),
           Last(v) = Len(published[view[v].turn]),
           Head(view[v].queue) = End, Tail(view[v].queue) \in Seq(Nat), Take(v)
    PROVE  IInv'
<1>1. PICK u \in Turns :
        /\ u = view[v].turn /\ row[u] # "none" /\ Published(u, "done") /\ view[v] \in Views
        /\ Len(view[v].got) = Len(published[u]) /\ Len(published[u]) \in Nat
        /\ view[v].got = Seqs(0, Len(view[v].got))
  BY Follows DEF Fits
<1>2. PICK w \in Views :
        /\ w = [view[v] EXCEPT !.queue = Tail(view[v].queue), !.pc = "drained"]
        /\ w.pc = "drained" /\ w.turn = u /\ w.got = view[v].got
  <2> DEFINE w == [view[v] EXCEPT !.queue = Tail(view[v].queue), !.pc = "drained"]
  <2>1. w \in Views
    BY <1>1 DEF Views
  <2>2. w.pc = "drained" /\ w.turn = u /\ w.got = view[v].got
    BY <1>1 DEF Views
  <2> QED  BY <2>1, <2>2
<1>3. Becomes(v, w)
  <2>1. [[view[v] EXCEPT !.queue = Tail(@)] EXCEPT !.pc = "drained"] = w
    BY <1>1, <1>2 DEF Views
  <2> QED  BY <2>1 DEF Take
<1>4. Fits(w)
  BY <1>1, <1>2 DEF Fits
<1> QED  BY <1>3, <1>4, ViewMoves

LEMMA TakeKeeps ==
    ASSUME IInv, NEW v \in Viewers, Take(v)
    PROVE  IInv'
<1>1. view[v].pc = "live" /\ view[v].queue # <<>>
  BY DEF Take
<1>2. PICK u \in Turns, P \in Nat, L \in Nat :
        /\ u = view[v].turn /\ P = Len(published[u]) /\ L = Last(v) /\ L <= P
        /\ view[v] \in Views
        /\ view[v].queue = IF Live(u) THEN Seqs(L, P) ELSE Append(Seqs(L, P), End)
  BY <1>1, Follows DEF Fits
<1>3. Tail(view[v].queue) \in Seq(Nat)
  <2>1. PICK q \in Seq(Nat) : q = view[v].queue /\ q # <<>>
    BY <1>1, <1>2 DEF Views
  <2> QED  BY <2>1, HeadTailProperties
<1>4. End \in Nat /\ Seqs(L, P) \in Seq(Nat)
  BY <1>2, SeqsIs DEF End
<1>5. /\ Append(Seqs(L, P), End) # <<>>
      /\ Seqs(L, P) = <<>> => Head(Append(Seqs(L, P), End)) = End
      /\ Seqs(L, P) # <<>> => /\ Head(Append(Seqs(L, P), End)) = Head(Seqs(L, P))
                              /\ Tail(Append(Seqs(L, P), End)) = Append(Tail(Seqs(L, P)), End)
  BY <1>4, AppendHeadTail
<1>6. CASE L < P
  <2>1. /\ Seqs(L, P) # <<>> /\ Head(Seqs(L, P)) = L + 1
        /\ Tail(Seqs(L, P)) = Seqs(L + 1, P)
    BY <1>6, SeqsHeadTail
  <2>2. /\ Head(view[v].queue) = L + 1
        /\ Tail(view[v].queue) = IF Live(u) THEN Seqs(L + 1, P) ELSE Append(Seqs(L + 1, P), End)
    BY <1>2, <1>5, <2>1
  <2> QED  BY <1>1, <1>2, <1>3, <1>6, <2>2, TakesNext
<1>7. CASE L = P
  <2>1. Seqs(L, P) = <<>>
    <3>1. P <= L
      BY <1>7
    <3> QED  BY <3>1, SeqsBehind
  <2>2. ~Live(u) /\ Head(view[v].queue) = End
    BY <1>1, <1>2, <1>5, <2>1
  <2> QED  BY <1>1, <1>2, <1>3, <1>7, <2>2, TakesEnd
<1> QED  BY <1>2, <1>6, <1>7

LEMMA RecoverViewedKeeps ==
    ASSUME IInv, NEW v \in Viewers, RecoverViewed(v)
    PROVE  IInv'
<1>1. view[v].pc = "recover" /\ view' = [view EXCEPT ![v].pc = "status"]
  BY DEF RecoverViewed
<1>2. PICK t \in Turns : /\ t = view[v].turn /\ row[t] # "none" /\ ~Live(t)
                        /\ view[v] \in Views /\ ViewOK(v)
  BY <1>1, Follows DEF Fits, IInv, ViewsOK
<1>3. SetStatus(t, "interrupted")
  BY <1>2 DEF RecoverViewed
<1>4. /\ row' \in [Turns -> {"none", "running", "gone"} \cup Final]
      /\ InTurn' /\ AtMostOne' /\ TurnsOK'
      /\ UNCHANGED <<runner, published, cap, bus, deletions, restarts>>
      /\ \A u \in Turns : row[u] # "none" => row'[u] # "none"
      /\ \A u : Live(u)' <=> Live(u)
  BY <1>2, <1>3, SettlesRow DEF RecoverViewed
<1>5. UNCHANGED <<exists, stored, kept, thread, lastId, op>>
  BY DEF RecoverViewed
<1>6. OpsOK'
  BY <1>4, <1>5, OpsSame DEF IInv
<1>7. /\ view'[v] = [view[v] EXCEPT !.pc = "status"] /\ view'[v] \in Views
      /\ \A x \in Viewers \ {v} : view'[x] = view[x]
      /\ view' \in [Viewers -> Views]
  <2>1. [view[v] EXCEPT !.pc = "status"] \in Views
    BY <1>2 DEF Views
  <2> QED  BY <1>1, <2>1 DEF IInv, Types
<1>8. ViewOK(v)'
  <2>1. view'[v].pc = "status" /\ view'[v].turn = t /\ view'[v].got = view[v].got
    BY <1>2, <1>7 DEF Views
  <2>2. view[v].got = Seqs(0, Len(view[v].got)) /\ Len(view[v].got) <= Len(published[t])
    BY <1>1, <1>2 DEF ViewOK
  <2> QED  BY <1>2, <1>4, <2>1, <2>2 DEF ViewOK
<1>9. \A x \in Viewers \ {v} : ViewOK(x)'
  BY <1>4, <1>7, ViewSame DEF IInv, ViewsOK
<1>10. Types'
  BY <1>4, <1>5, <1>7 DEF IInv, Types
<1> QED  BY <1>4, <1>6, <1>8, <1>9, <1>10 DEF IInv, ViewsOK

LEMMA ViewerStepKeeps ==
    ASSUME IInv, NEW v \in Viewers, ViewerStep(v)
    PROVE  IInv'
BY ReadBacklogKeeps, RegisterKeeps, CatchUpKeeps, StatusKeeps, RecoverViewedKeeps, TakeKeeps,
   DrainedKeeps DEF ViewerStep

(***************************************************************************)
(* The invariant.                                                          *)
(***************************************************************************)
LEMMA InitGood ==
    ASSUME Init
    PROVE  IInv
<1>1. Types
  <2>1. NoRunner \in Runners /\ NoCap \in Caps
    BY DEF NoRunner, NoCap, Runners, Caps
  <2>2. NoOp \in Ops /\ NoView \in Views
    <3>1. <<>> \in Seq(Nat) /\ NoTurn \in 0..MaxTurns
      BY TurnAssumption DEF NoTurn
    <3> QED  BY <3>1 DEF NoOp, NoView, Ops, Views
  <2>3. <<>> \in Seq(Events) /\ <<>> \in Seq(Emitted)
    OBVIOUS
  <2> QED  BY <2>1, <2>2, <2>3 DEF Init, Types
<1>2. InTurn /\ AtMostOne
  <2>1. 0 \in 0..MaxTurns /\ \A t \in Turns : ~ (t <= 0)
    BY TurnAssumption DEF Turns
  <2> QED  BY <2>1 DEF Init, InTurn, AtMostOne
<1>3. TurnsOK
  <2> SUFFICES ASSUME NEW t \in Turns
               PROVE  TurnOK(t)
    BY DEF TurnsOK
  <2>1. /\ runner[t].pc = "none" /\ runner[t].snapshot = 0 /\ runner[t].doneSent = FALSE
        /\ row[t] = "none" /\ published[t] = <<>> /\ stored[t] = 0
    BY DEF Init, NoRunner
  <2>2. (\A type : ~Published(t, type)) /\ Len(published[t]) = 0 /\ DOMAIN published[t] = {}
    BY <2>1 DEF Published
  <2> QED  BY <2>1, <2>2 DEF TurnOK, RowOK, UpsetOK, EventsOK, AnswerOK, Live, Produced, Before,
                             Cancelled, Failed
<1>4. OpsOK /\ ViewsOK
  BY DEF Init, OpsOK, OpOK, NoOp, ViewsOK, ViewOK, NoView
<1> QED  BY <1>1, <1>2, <1>3, <1>4 DEF IInv

LEMMA NextKeeps ==
    ASSUME IInv, [Next]_vars
    PROVE  IInv'
<1>1. CASE UNCHANGED vars
  <2>1. /\ UNCHANGED <<exists, row, stored, kept, thread, lastId>>
        /\ UNCHANGED <<runner, published, cap, bus, op, view, deletions, restarts>>
    BY <1>1 DEF vars, store, process, bounds
  <2>2. Types'
    BY <2>1 DEF IInv, Types
  <2> QED  BY <2>1, <2>2, ElsewhereStill
<1>2. CASE \E t \in Turns : Run(t) /\ UNCHANGED <<answered, op, bounds>>
  BY <1>2, RunKeeps
<1>3. CASE \E t \in Turns : Capability(t) \/ Reply(t)
  BY <1>3, CapabilityKeeps, ReplyKeeps
<1>4. CASE \E h \in Handlers : Handle(h)
  BY <1>4, HandleKeeps
<1>5. CASE \E v \in Viewers : ViewerStep(v) \/ Leave(v) \/ Resume(v)
  BY <1>5, ViewerStepKeeps, LeaveKeeps, ResumeKeeps
<1>6. CASE \E v \in Viewers, t \in Turns : Subscribe(v, t)
  BY <1>6, SubscribeKeeps
<1>7. CASE DeleteSession
  BY <1>7, DeleteSessionKeeps
<1>8. CASE \E m \in thread : DeleteByMessage(m)
  BY <1>8, DeleteByMessageKeeps
<1>9. CASE Restart
  BY <1>9, RestartKeeps
<1> QED  BY <1>1, <1>2, <1>3, <1>4, <1>5, <1>6, <1>7, <1>8, <1>9 DEF Next

\* The invariant holds of every behaviour of the session.
THEOREM Invariance == Spec => []IInv
<1>1. Init => IInv
  BY InitGood
<1>2. IInv /\ [Next]_vars => IInv'
  BY NextKeeps
<1> QED  BY <1>1, <1>2, PTL DEF Spec

(***************************************************************************)
(* The properties.                                                         *)
(***************************************************************************)
\* The variables have their types in every reachable state.
THEOREM TypeCorrect == Spec => []TypeOK
<1>1. IInv => TypeOK
  <2> SUFFICES ASSUME IInv
               PROVE  TypeOK
    OBVIOUS
  <2>1. \A t \in Turns : runner[t] \in Runners /\ cap[t] \in Caps /\ stored[t] <= Len(published[t])
    BY DEF IInv, Types, TurnsOK, TurnOK, EventsOK
  <2>2. \A v \in Viewers : view[v] \in Views
    BY DEF IInv, Types
  <2>3. \A t \in Turns : runner[t].pc \in {"none", "title", "ended"} \cup Before \cup Cancelled
                                             \cup Failed
    BY <2>1 DEF Runners
  <2>4. \A t \in Turns : cap[t].pc \in {"none", "working", "asking", "over"}
    BY <2>1 DEF Caps
  <2>5. \A v \in Viewers :
          view[v].pc \in {"idle", "backlog", "register", "catchUp", "status", "recover",
                          "live", "drained", "closed", "left"}
    BY <2>2 DEF Views
  <2> QED  BY <2>1, <2>3, <2>4, <2>5 DEF IInv, Types, TypeOK, Before, Cancelled, Failed
<1> QED  BY <1>1, Invariance, PTL

\* A session has one running turn at most, however the requests interleave.
THEOREM OneRunningHolds == Spec => []OneRunning
<1>1. IInv => OneRunning
  <2> SUFFICES ASSUME AtMostOne
               PROVE  Cardinality(RunningRows) <= 1
    BY DEF IInv, OneRunning
  <2>1. CASE RunningRows = {}
    BY <2>1, FS_EmptySet
  <2>2. CASE RunningRows # {}
    <3>1. PICK t \in RunningRows : TRUE
      BY <2>2
    <3>2. RunningRows = {t}
      BY <3>1 DEF AtMostOne, RunningRows
    <3> QED  BY <3>2, FS_Singleton
  <2> QED  BY <2>1, <2>2
<1> QED  BY <1>1, Invariance, PTL

\* Nobody settles the row of a turn that its runner still works on.
THEOREM LiveIsRunningHolds == Spec => []LiveIsRunning
<1>1. IInv => LiveIsRunning
  <2> SUFFICES ASSUME IInv, NEW t \in Turns, Live(t)
               PROVE  /\ row[t] \notin {"interrupted", "cancelled"}
                      /\ runner[t].pc # "title" /\ runner[t].cancels = 0
                            => row[t] \in {"running", "gone"}
    BY DEF LiveIsRunning
  <2>1. RowOK(t) /\ UpsetOK(t) /\ runner[t] \in Runners
    BY RunnerIs DEF IInv, TurnsOK, TurnOK
  <2>2. runner[t].cancels = 0 => runner[t].pc \notin Cancelled
    BY <2>1 DEF UpsetOK, Runners
  <2>3. runner[t].pc \in {"title"} \cup Before \cup Cancelled \cup Failed
    BY <2>1 DEF Runners, Live
  <2> QED  BY <2>1, <2>2, <2>3 DEF RowOK
<1> QED  BY <1>1, Invariance, PTL

\* A runner that ends, upset once at most, leaves a settled row.
THEOREM EndedIsSettledHolds == Spec => []EndedIsSettled
<1>1. IInv => EndedIsSettled
  BY DEF IInv, TurnsOK, TurnOK, RowOK, EndedIsSettled
<1> QED  BY <1>1, Invariance, PTL

\* Every viewer has the first events of its turn, in order and without a gap.
THEOREM InOrderHolds == Spec => []InOrder
<1>1. IInv => InOrder
  <2> SUFFICES ASSUME IInv, NEW v \in Viewers
               PROVE  view[v].got = Seqs(0, Len(view[v].got))
    BY DEF InOrder
  <2>1. ViewOK(v)
    BY DEF IInv, ViewsOK
  <2>2. CASE view[v].pc = "idle"
    <3>1. view[v].got = <<>> /\ Len(<<>>) = 0 /\ 0 <= 0
      BY <2>1, <2>2 DEF ViewOK
    <3>2. Seqs(0, 0) = <<>>
      BY <3>1, SeqsBehind
    <3> QED  BY <3>1, <3>2
  <2>3. CASE view[v].pc # "idle"
    BY <2>1, <2>3 DEF ViewOK
  <2> QED  BY <2>2, <2>3
<1> QED  BY <1>1, Invariance, PTL

\* A subscription ends with a DONE, and a turn publishes one only.
THEOREM DoneOnceHolds == Spec => []DoneOnce
<1>1. IInv => DoneOnce
  BY DEF IInv, ViewsOK, ViewOK, TurnsOK, TurnOK, EventsOK, DoneOnce
<1> QED  BY <1>1, Invariance, PTL

\* A turn ends with its answer stored when its runner returns by itself, ..
LEMMA RunEnds ==
    ASSUME IInv, NEW t \in Turns, NEW u \in Turns, Run(u), Live(t), ~Live(t)', Produced(t), exists
    PROVE  kept'[t] > 0
<1>1. Types /\ InTurn /\ TurnOK(u) /\ runner[u] \in Runners /\ kept[u] \in Nat
  BY RunnerIs DEF IInv, TurnsOK, Types
<1>2. ASSUME NEW pc, Goto(u, pc), pc \notin {"none", "ended"}
      PROVE  FALSE
  <2>1. runner'[t].pc = IF t = u THEN pc ELSE runner[t].pc
    BY <1>1, <1>2 DEF Goto, Types, Runners
  <2> QED  BY <1>2, <2>1 DEF Live
<1>3. ASSUME NEW pc, Buffer(u, pc), pc \notin {"none", "ended"}
      PROVE  FALSE
  <2>1. runner'[t].pc = IF t = u THEN pc ELSE runner[t].pc
    BY <1>1, <1>3 DEF Buffer, Types, Runners
  <2> QED  BY <1>3, <2>1 DEF Live
<1>4. ASSUME NEW types, PublishAndEnd(u, types)
      PROVE  t = u
  BY <1>1, <1>4 DEF PublishAndEnd, Types, Live
<1>5. CASE Prepared(u)
  BY <1>2, <1>5 DEF Prepared
<1>6. CASE Relay(u)
  <2>1. CASE Goto(u, "save")
    BY <1>2, <2>1
  <2>2. CASE UNCHANGED runner
    BY <2>2 DEF Live
  <2> QED  BY <1>6, <2>1, <2>2 DEF Relay
<1>7. CASE SaveAnswer(u)
  BY <1>3, <1>7 DEF SaveAnswer
<1>8. CASE Flush(u)
  <2>1. PICK pc : /\ Goto(u, pc)
                  /\ pc \in {"settle", "failSettle", AfterFlush(u)}
    BY <1>8 DEF Flush, Flushes
  <2>2. pc \in {"settle", "failSettle", "keep", "cancelSettle"}
    BY <2>1, AfterFlushIs
  <2> QED  BY <1>2, <2>1, <2>2
<1>9. CASE Settle(u)
  <2>1. runner[u].pc = "settle" /\ kept[u] > 0
    BY <1>1, <1>9 DEF Settle, TurnOK, AnswerOK
  <2>2. t = u
    <3>1. CASE PublishAndEnd(u, <<"done">>)
      BY <1>4, <3>1
    <3>2. CASE runner' = [runner EXCEPT ![u].pc = "title", ![u].doneSent = TRUE]
      <4>1. runner'[t].pc = IF t = u THEN "title" ELSE runner[t].pc
        BY <1>1, <3>2 DEF Types, Runners
      <4> QED  BY <4>1 DEF Live
    <3> QED  BY <1>9, <3>1, <3>2 DEF Settle
  <2>3. kept'[t] >= kept[t] /\ kept'[t] \in Nat
    BY <1>1, <1>9, <2>2, LandsWrites DEF Settle, Wrote
  <2> QED  BY <1>1, <2>1, <2>2, <2>3
<1>10. CASE Title(u)
  <2>1. t = u
    BY <1>4, <1>10 DEF Title
  <2>2. kept[u] > 0 /\ kept' = kept
    BY <1>1, <1>10 DEF Title, TurnOK, AnswerOK, store
  <2> QED  BY <2>1, <2>2
<1>11. CASE KeepPartial(u)
  BY <1>2, <1>11 DEF KeepPartial
<1>12. CASE SettleFault(u)
  <2>1. t = u
    BY <1>4, <1>12 DEF SettleFault
  <2>2. kept[u] > 0
    BY <1>1, <1>12, <2>1 DEF SettleFault, TurnOK, AnswerOK, Failed
  <2>3. kept'[t] >= kept[t] /\ kept'[t] \in Nat
    BY <1>1, <1>12, <2>1, LandsWrites DEF SettleFault, Wrote
  <2> QED  BY <1>1, <2>1, <2>2, <2>3
<1>13. CASE Fault(u)
  BY <1>3, <1>13 DEF Fault
<1> QED  BY <1>5, <1>6, <1>7, <1>8, <1>9, <1>10, <1>11, <1>12, <1>13 DEF Run, RunnerStep

\* .. and one cancellation never ends it.
LEMMA CancelEnds ==
    ASSUME IInv, NEW t \in Turns, NEW u \in Turns, Interrupt(u), Live(t), ~Live(t)',
           runner'[t].cancels <= 1, exists
    PROVE  ~Produced(t)
<1>1. Types /\ TurnOK(u) /\ runner[u] \in Runners
  BY RunnerIs DEF IInv, TurnsOK
<1>2. CASE Handling(u)
  <2>1. runner' = [runner EXCEPT ![u] = Ended(u, runner[u].cancels + 1)]
    BY <1>1, <1>2 DEF Interrupt, Unwound, Types
  <2>2. t = u
    BY <1>1, <2>1 DEF Types, Live
  <2>3. PICK c \in Nat : c = runner[u].cancels + 1
    BY <1>1 DEF Runners
  <2>4. runner'[t].cancels = c
    <3>1. Ended(u, c).cancels = c
      BY <1>1, EndedIs
    <3> QED  BY <1>1, <2>1, <2>2, <2>3, <3>1 DEF Types
  <2>5. runner[u].cancels = 0
    BY <1>1, <2>3, <2>4 DEF Runners
  <2>6. runner[u].pc \in Failed
    BY <1>1, <1>2, <2>5 DEF Handling, TurnOK, UpsetOK, Cancelled, Failed
  <2> QED  BY <1>1, <2>2, <2>6 DEF TurnOK, AnswerOK
<1>3. CASE ~Handling(u)
  <2>1. PICK pc : /\ pc = (IF runner[u].flushed THEN AfterFlush(u) ELSE "cancelFlush")
                  /\ runner'[t].pc = IF t = u THEN pc ELSE runner[t].pc
    BY <1>1, <1>3 DEF Interrupt, Interrupted, Types, Runners
  <2>2. pc \in {"keep", "cancelSettle", "cancelFlush"}
    BY <2>1, AfterFlushIs
  <2> QED  BY <2>1, <2>2 DEF Live
<1> QED  BY <1>2, <1>3

\* A turn does not end before a message holds the work its viewers have seen.
THEOREM WorkKeptHolds == Spec => WorkKept
<1>1. IInv /\ [Next]_vars =>
        [\A t \in Turns : /\ Live(t) /\ ~Live(t)' /\ Produced(t)
                          /\ exists /\ runner'[t].cancels <= 1 /\ restarts' = restarts
                          => kept'[t] > 0]_vars
  <2> SUFFICES ASSUME IInv, [Next]_vars, NEW t \in Turns, Live(t), ~Live(t)', Produced(t), exists,
                      runner'[t].cancels <= 1, restarts' = restarts
               PROVE  kept'[t] > 0
    OBVIOUS
  <2>1. runner' # runner
    BY DEF Live
  <2>2. CASE \E u \in Turns : Run(u) /\ UNCHANGED <<answered, op, bounds>>
    BY <2>2, RunEnds
  <2>3. CASE \E u \in Turns : Capability(u) \/ Reply(u)
    BY <2>1, <2>3 DEF Capability, Reply
  <2>4. ASSUME NEW h \in Handlers, Handle(h)
        PROVE  kept'[t] > 0
    <3>1. CASE CreateTurn(h)
      <4>1. PICK u : /\ u = Created + 1 /\ u \in Turns
                     /\ runner' = [runner EXCEPT ![u].pc = "prepare",
                                                 ![u].regenerate = op[h].regenerate]
        BY <3>1 DEF CreateTurn
      <4>2. runner'[t].pc = IF t = u THEN "prepare" ELSE runner[t].pc
        BY <4>1 DEF IInv, Types, Runners
      <4> QED  BY <4>2 DEF Live
    <3>2. CASE CancelTurn(h)
      BY <3>2, CancelEnds DEF CancelTurn
    <3>3. CASE UNCHANGED process
      BY <2>1, <3>3 DEF process
    <3>4. Handle(h) => CreateTurn(h) \/ CancelTurn(h) \/ UNCHANGED process
      BY DEF Handle, StartTurn, RecoverOrphan, RefuseTurn, Regenerate, LastUser, LastMessage,
             DeleteAnswer, TurnCancelled, FindStale, CancelStale
    <3> QED  BY <2>4, <3>1, <3>2, <3>3, <3>4
  <2>5. CASE \E v \in Viewers : ViewerStep(v) \/ Leave(v) \/ Resume(v)
    <3>1. UNCHANGED process
      BY <2>5 DEF ViewerStep, Leave, Resume, ReadBacklog, Register, CatchUp, Status, RecoverViewed,
                  Take, Drained, Close, Becomes
    <3> QED  BY <2>1, <3>1 DEF process
  <2>6. CASE \E v \in Viewers, u \in Turns : Subscribe(v, u)
    BY <2>1, <2>6 DEF Subscribe, Becomes, process
  <2>7. CASE DeleteSession \/ \E m \in thread : DeleteByMessage(m)
    BY <2>1, <2>7 DEF DeleteSession, DeleteByMessage, process
  <2>8. CASE Restart
    <3>1. restarts \in Nat
      BY DEF IInv, Types
    <3>2. restarts' = restarts + 1
      BY <2>8 DEF Restart
    <3> QED  BY <3>1, <3>2
  <2>9. CASE UNCHANGED vars
    BY <2>1, <2>9 DEF vars, process
  <2> QED  BY <2>2, <2>3, <2>4, <2>5, <2>6, <2>7, <2>8, <2>9 DEF Next
<1> QED  BY <1>1, Invariance, PTL DEF Spec, WorkKept

=============================================================================
