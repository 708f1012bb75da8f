-------------------------- MODULE SlotLocksProofs --------------------------
(* Proofs about SlotLocks, for any finite numbers of writers and slots. *)
EXTENDS SlotLocks, FiniteSetTheorems, TLAPS

(***************************************************************************)
(* The inductive invariant.                                                *)
(***************************************************************************)
N == Cardinality(Slots)
Steps == {"archived", "current", "next", "check"}
Outside == {"idle", "refused", "done"}

Transactions ==
    [pc : Outside \cup {"decide", "apply", "commit"}, at : 1..N, read : Nat,
     plan : Seq(Steps), recomputed : 0..MaxRecompute, pending : SUBSET Slots]

Types ==
    /\ order \in [Writers -> SetToSeqs(Slots)]
    /\ changes \in [Slots -> Nat]
    /\ holder \in [Rows -> Writers \cup {Nobody}]
    /\ tx \in [Writers -> Transactions]

\* The row that every change of a slot which has seen n changes has to hold.
Key(n) == IF n = 0 THEN "next" ELSE "current"

\* A transaction that is over, or has not begun, holds and has changed nothing.
Clean(w) ==
    tx[w].pc \in Outside => tx[w].pending = {} /\ \A r \in Rows : holder[r] # w

\* What it has changed lies behind it: a savepoint that is rolled back gives up
\* no row of those slots.
Behind(w) ==
    tx[w].pc \in {"decide", "apply"} =>
        \A s \in tx[w].pending : \E i \in 1..(tx[w].at - 1) : s = order[w][i]

\* The row is locked before the row version is compared, ..
LockedFirst(w) ==
    tx[w].pc = "apply" =>
        \A i \in 1..Len(tx[w].plan) : tx[w].plan[i] = "check" =>
            \/ \E j \in 1..(i - 1) : tx[w].plan[j] = Key(tx[w].read)
            \/ holder[<<Slot(w), Key(tx[w].read)>>] = w

\* .. and held from then on.
KeepsLock(w) == \A s \in Changing(w) : holder[<<s, Key(changes[s])>>] = w

WriterOK(w) == Clean(w) /\ Behind(w) /\ LockedFirst(w) /\ KeepsLock(w)

IInv == Types /\ \A w \in Writers : WriterOK(w)

(***************************************************************************)
(* Lemmas.                                                                 *)
(***************************************************************************)
LEMMA SlotsCounted == N \in Nat /\ N >= 1
<1>1. N \in Nat
  BY SlotLocksAssumption, FS_CardinalityType DEF N
<1>2. N # 0
  BY SlotLocksAssumption, FS_EmptySet DEF N
<1> QED  BY <1>1, <1>2

LEMMA Orders ==
    ASSUME Types, NEW w \in Writers
    PROVE  /\ Len(order[w]) = N
           /\ \A i \in 1..N : order[w][i] \in Slots
           /\ \A i, j \in 1..N : order[w][i] = order[w][j] => i = j
<1>1. PICK o \in SetToSeqs(Slots) : order[w] = o
  BY DEF Types
<1>2. o \in [1..N -> Slots] /\ \A i, j \in 1..N : i # j => o[i] # o[j]
  BY <1>1 DEF SetToSeqs, N
<1>3. Len(o) = N
  BY <1>2, SlotsCounted
<1> QED  BY <1>1, <1>2, <1>3

LEMMA SlotIs ==
    ASSUME Types, NEW w \in Writers
    PROVE  Slot(w) \in Slots /\ tx[w] \in Transactions
BY Orders DEF Slot, Types, Transactions

LEMMA ScansCurrent ==
    ASSUME NEW s, NEW scan \in Scans(s)
    PROVE  /\ scan \in Seq(Steps)
           /\ \A i \in 1..Len(scan) : scan[i] # "check"
           /\ \E i \in 1..Len(scan) : scan[i] = "current"
<1>1. CASE scan = <<"current">>
  BY <1>1 DEF Steps
<1>2. CASE scan = <<"archived", "current">>
  BY <1>2 DEF Steps
<1>3. CASE scan = <<"current", "archived">>
  BY <1>3 DEF Steps
<1> QED  BY <1>1, <1>2, <1>3 DEF Scans

LEMMA PlansLockFirst ==
    ASSUME Types, NEW s \in Slots, NEW plan \in Plans(s)
    PROVE  /\ plan \in Seq(Steps)
           /\ \E i \in 1..Len(plan) : plan[i] = "check"
           /\ \A i \in 1..Len(plan) : plan[i] = "check" =>
                \E j \in 1..(i - 1) : plan[j] = Key(changes[s])
<1>1. CASE changes[s] = 0
  <2>1. plan = <<"next", "check">>
    BY <1>1 DEF Plans
  <2>2. Key(changes[s]) = "next"
    BY <1>1 DEF Key
  <2> QED  BY <2>1, <2>2 DEF Steps
<1>2. ASSUME changes[s] # 0, NEW scan \in Scans(s), plan = scan \o <<"check", "next">>
      PROVE  /\ plan \in Seq(Steps)
             /\ \E i \in 1..Len(plan) : plan[i] = "check"
             /\ \A i \in 1..Len(plan) : plan[i] = "check" =>
                  \E j \in 1..(i - 1) : plan[j] = "current"
  <2>1. /\ scan \in Seq(Steps)
        /\ \A i \in 1..Len(scan) : scan[i] # "check"
    BY ScansCurrent
  <2>2. PICK j \in 1..Len(scan) : scan[j] = "current"
    BY ScansCurrent
  <2>3. <<"check", "next">> \in Seq(Steps) /\ Len(<<"check", "next">>) = 2
    BY DEF Steps
  <2>4. plan \in Seq(Steps) /\ Len(plan) = Len(scan) + 2
    BY <1>2, <2>1, <2>3
  <2>5. /\ \A i \in 1..Len(scan) : plan[i] = scan[i]
        /\ plan[Len(scan) + 1] = "check"
    BY <1>2, <2>1, <2>3
  <2>6. Len(scan) \in Nat
    BY <2>1
  <2>7. \A i \in 1..Len(plan) : plan[i] = "check" => j < i
    BY <2>1, <2>2, <2>4, <2>5, <2>6
  <2>8. \A i \in 1..Len(plan) : plan[i] = "check" => \E m \in 1..(i - 1) : plan[m] = "current"
    BY <2>2, <2>5, <2>6, <2>7, <2>4
  <2> QED  BY <2>4, <2>5, <2>6, <2>8
<1>3. ASSUME changes[s] # 0, NEW scan \in Scans(s),
             plan = <<"current", "check">> \o scan \o <<"next">>
      PROVE  /\ plan \in Seq(Steps)
             /\ \E i \in 1..Len(plan) : plan[i] = "check"
             /\ \A i \in 1..Len(plan) : plan[i] = "check" =>
                  \E j \in 1..(i - 1) : plan[j] = "current"
  <2> DEFINE first == <<"current", "check">> \o scan
  <2>1. scan \in Seq(Steps) /\ Len(scan) \in Nat
    BY ScansCurrent
  <2>2. /\ <<"current", "check">> \in Seq(Steps) /\ Len(<<"current", "check">>) = 2
        /\ <<"next">> \in Seq(Steps) /\ Len(<<"next">>) = 1
    BY DEF Steps
  <2>3. first \in Seq(Steps) /\ Len(first) = Len(scan) + 2
        /\ first[1] = "current" /\ first[2] = "check"
    BY <2>1, <2>2
  <2> HIDE DEF first
  <2>4. plan \in Seq(Steps) /\ Len(plan) = Len(scan) + 3
        /\ plan[1] = "current" /\ plan[2] = "check"
    <3>1. plan = first \o <<"next">>
      BY <1>3 DEF first
    <3> QED  BY <3>1, <2>1, <2>2, <2>3
  <2>5. \A i \in 1..Len(plan) : plan[i] = "check" => i >= 2
    BY <2>1, <2>4
  <2>6. \A i \in 1..Len(plan) : plan[i] = "check" => \E m \in 1..(i - 1) : plan[m] = "current"
    BY <2>1, <2>4, <2>5
  <2> QED  BY <2>1, <2>4, <2>6
<1>4. CASE changes[s] # 0
  <2>1. Key(changes[s]) = "current"
    BY <1>4 DEF Key
  <2> QED  BY <1>2, <1>3, <1>4, <2>1 DEF Plans
<1> QED  BY <1>1, <1>4

\* Two transactions never change the same slot: both would hold its key row.
LEMMA Exclusion ==
    ASSUME NEW u \in Writers, NEW w \in Writers, u # w, KeepsLock(u), KeepsLock(w),
           NEW s, s \in Changing(u)
    PROVE  s \notin Changing(w)
BY DEF KeepsLock

\* A step of another writer that takes no row of u and changes no slot that u
\* is changing.
LEMMA Frame ==
    ASSUME Types, Types', NEW u \in Writers, WriterOK(u),
           tx'[u] = tx[u], order' = order,
           \A r \in Rows : holder[r] = u <=> holder'[r] = u,
           \A s \in Changing(u) : changes'[s] = changes[s]
    PROVE  WriterOK(u)'
<1>1. Slot(u)' = Slot(u) /\ Slot(u) \in Slots /\ Left(u)' = Left(u)
  BY SlotIs DEF Slot, Left
<1>2. Changing(u)' = Changing(u) /\ Changing(u) \subseteq Slots
  BY <1>1 DEF Changing
<1>3. \A s \in Slots, n \in Nat : <<s, Key(n)>> \in Rows
  BY DEF Rows, Key
<1>4. Clean(u)' /\ Behind(u)'
  BY DEF WriterOK, Clean, Behind
<1>5. LockedFirst(u)'
  <2>1. tx[u].read \in Nat
    BY SlotIs DEF Transactions
  <2>2. <<Slot(u), Key(tx[u].read)>> \in Rows
    BY <1>1, <1>3, <2>1
  <2>3. holder'[<<Slot(u), Key(tx[u].read)>>] = u <=> holder[<<Slot(u), Key(tx[u].read)>>] = u
    BY <2>2
  <2> QED  BY <1>1, <2>3 DEF WriterOK, LockedFirst
<1>6. KeepsLock(u)'
  BY <1>2, <1>3 DEF WriterOK, KeepsLock, Types
<1> QED  BY <1>4, <1>5, <1>6 DEF WriterOK

\* The others, when w takes a row nobody else holds or gives rows of its own up.
LEMMA Others ==
    ASSUME Types, Types', NEW w \in Writers, \A u \in Writers : WriterOK(u),
           order' = order, tx' = [tx EXCEPT ![w] = tx'[w]],
           \A r \in Rows : holder'[r] = holder[r] \/ {holder[r], holder'[r]} \subseteq {w, Nobody},
           \A s \in Slots : changes'[s] = changes[s] \/ s \in Changing(w)
    PROVE  \A u \in Writers \ {w} : WriterOK(u)'
<1> SUFFICES ASSUME NEW u \in Writers, u # w
             PROVE  WriterOK(u)'
  OBVIOUS
<1>1. tx'[u] = tx[u]
  BY DEF Types
<1>2. \A r \in Rows : holder[r] = u <=> holder'[r] = u
  BY SlotLocksAssumption
<1>3. \A s \in Changing(u) : changes'[s] = changes[s]
  BY Exclusion DEF Changing, WriterOK
<1> QED  BY <1>1, <1>2, <1>3, Frame

(***************************************************************************)
(* The steps.                                                              *)
(***************************************************************************)
LEMMA BeginKeeps ==
    ASSUME IInv, NEW w \in Writers, Begin(w)
    PROVE  IInv'
<1>1. Types /\ WriterOK(w)
  BY DEF IInv
<1>2. tx[w] \in Transactions
  BY SlotIs, <1>1
<1>3. tx'[w] = [tx[w] EXCEPT !.pc = "decide"] /\ tx' = [tx EXCEPT ![w] = tx'[w]]
  BY <1>1 DEF Begin, Types
<1>4. Types'
  BY <1>1, <1>2, <1>3 DEF Begin, Types, Transactions
<1>5. WriterOK(w)'
  <2>1. tx[w].pending = {}
    BY <1>1 DEF WriterOK, Clean, Begin, Outside
  <2>2. tx'[w].pc = "decide" /\ tx'[w].pending = {}
    BY <1>2, <1>3, <2>1 DEF Transactions
  <2> QED  BY <2>2 DEF WriterOK, Clean, Behind, LockedFirst, KeepsLock, Changing, Outside
<1>6. \A u \in Writers \ {w} : WriterOK(u)'
  BY <1>1, <1>3, <1>4, Others DEF IInv, Begin
<1> QED  BY <1>4, <1>5, <1>6 DEF IInv, Begin

LEMMA DecideKeeps ==
    ASSUME IInv, NEW w \in Writers, Decide(w)
    PROVE  IInv'
<1>1. Types /\ WriterOK(w)
  BY DEF IInv
<1>2. tx[w] \in Transactions /\ Slot(w) \in Slots
  BY SlotIs, <1>1
<1>3. PICK plan \in Plans(Slot(w)) :
        tx' = [tx EXCEPT ![w].pc = "apply", ![w].read = changes[Slot(w)], ![w].plan = plan]
  BY DEF Decide
<1>4. /\ plan \in Seq(Steps)
      /\ \E i \in 1..Len(plan) : plan[i] = "check"
      /\ \A i \in 1..Len(plan) : plan[i] = "check" =>
            \E j \in 1..(i - 1) : plan[j] = Key(changes[Slot(w)])
  BY <1>1, <1>2, PlansLockFirst
<1>5. /\ tx'[w] = [tx[w] EXCEPT !.pc = "apply", !.read = changes[Slot(w)], !.plan = plan]
      /\ tx' = [tx EXCEPT ![w] = tx'[w]]
  BY <1>1, <1>3 DEF Types
<1>6. Types'
  <2>1. changes[Slot(w)] \in Nat
    BY <1>1, <1>2 DEF Types
  <2>2. tx'[w] \in Transactions
    BY <1>2, <1>4, <1>5, <2>1 DEF Transactions
  <2> QED  BY <1>1, <1>5, <2>2 DEF Decide, Types
<1>7. Slot(w)' = Slot(w)
  BY <1>2, <1>5 DEF Slot, Decide, Transactions
<1>8. WriterOK(w)'
  <2>1. /\ tx[w].pc = "decide" /\ tx'[w].pc = "apply" /\ tx'[w].plan = plan
        /\ tx'[w].pending = tx[w].pending /\ tx'[w].at = tx[w].at
        /\ tx'[w].read = changes[Slot(w)]
    BY <1>2, <1>5 DEF Transactions, Decide
  <2>2. Clean(w)' /\ Behind(w)'
    BY <1>1, <2>1 DEF WriterOK, Clean, Behind, Decide, Outside
  <2>3. LockedFirst(w)'
    BY <1>4, <2>1 DEF LockedFirst
  <2>4. "check" \in Left(w)'
    BY <1>4, <2>1 DEF Left
  <2>5. Changing(w)' \subseteq Changing(w)
    BY <2>1, <2>4 DEF Changing
  <2>6. KeepsLock(w)'
    BY <1>1, <2>5 DEF WriterOK, KeepsLock, Decide
  <2> QED  BY <2>2, <2>3, <2>6 DEF WriterOK
<1>9. \A u \in Writers \ {w} : WriterOK(u)'
  BY <1>1, <1>5, <1>6, Others DEF IInv, Decide
<1> QED  BY <1>6, <1>8, <1>9 DEF IInv, Decide

\* To the next slot or to COMMIT, with what is changed so far.
LEMMA GoesOn ==
    ASSUME Types, NEW w \in Writers, NEW t \in Transactions,
           t.at = tx[w].at,
           NEW next, next = GoOn(w, t)
    PROVE  /\ next \in Transactions /\ next.pending = t.pending
           /\ next.pc \in {"decide", "commit"}
           /\ next.pc = "decide" => next.at = t.at + 1
<1>1. Len(order[w]) = N /\ N \in Nat
  BY Orders, SlotsCounted
<1>2. t.at \in 1..N
  BY DEF Transactions
<1>3. CASE t.at = Len(order[w])
  BY <1>3 DEF GoOn, Transactions
<1>4. CASE t.at # Len(order[w])
  <2>1. t.at + 1 \in 1..N
    BY <1>1, <1>2, <1>4
  <2>2. next = [t EXCEPT !.pc = "decide", !.at = t.at + 1, !.recomputed = 0]
    BY <1>4 DEF GoOn
  <2>3. 0 \in 0..MaxRecompute
    BY SlotLocksAssumption
  <2>4. next \in Transactions
    BY <2>1, <2>2, <2>3 DEF Transactions
  <2> QED  BY <2>2, <2>4 DEF Transactions
<1> QED  BY <1>3, <1>4

LEMMA MovesOn ==
    ASSUME Types, NEW w \in Writers, NEW t \in Transactions,
           t.at = tx[w].at, tx' = [tx EXCEPT ![w] = GoOn(w, t)],
           UNCHANGED <<order, changes>>,
           holder' \in [Rows -> Writers \cup {Nobody}],
           \A s \in t.pending : /\ \E i \in 1..t.at : s = order[w][i]
                                /\ holder'[<<s, Key(changes[s])>>] = w
    PROVE  Types' /\ WriterOK(w)'
<1>1. PICK next : next = GoOn(w, t)
  OBVIOUS
<1>2. /\ next \in Transactions /\ next.pending = t.pending
      /\ next.pc \in {"decide", "commit"}
      /\ next.pc = "decide" => next.at = t.at + 1
  BY <1>1, GoesOn
<1>3. tx'[w] = next /\ Types'
  BY <1>1, <1>2 DEF Types
<1>4. Clean(w)' /\ LockedFirst(w)'
  BY <1>2, <1>3 DEF Clean, LockedFirst, Outside
<1>5. Behind(w)'
  <2>1. t.at \in Nat /\ (t.at + 1) - 1 = t.at
    BY SlotsCounted DEF Transactions
  <2>2. CASE next.pc = "decide"
    <3>1. next.at - 1 = t.at
      BY <1>2, <2>1, <2>2
    <3>2. \A s \in next.pending : \E i \in 1..(next.at - 1) : s = order[w][i]
      BY <1>2, <3>1
    <3> QED  BY <1>3, <3>2 DEF Behind
  <2>3. CASE next.pc = "commit"
    BY <1>3, <2>3 DEF Behind
  <2> QED  BY <1>2, <2>2, <2>3
<1>6. KeepsLock(w)'
  <2>1. Changing(w)' \subseteq t.pending
    BY <1>2, <1>3 DEF Changing
  <2> QED  BY <2>1 DEF KeepsLock
<1> QED  BY <1>3, <1>4, <1>5, <1>6 DEF WriterOK

LEMMA DecideNothingKeeps ==
    ASSUME IInv, NEW w \in Writers, DecideNothing(w)
    PROVE  IInv'
<1>1. Types /\ WriterOK(w)
  BY DEF IInv
<1>2. PICK t \in Transactions : t = tx[w]
  BY SlotIs, <1>1
<1>3. tx' = [tx EXCEPT ![w] = GoOn(w, t)] /\ UNCHANGED <<order, changes, holder>>
  BY <1>1, <1>2 DEF DecideNothing, Types
<1>4. t.pc = "decide"
  BY <1>2 DEF DecideNothing
<1>5. \A s \in t.pending : /\ \E i \in 1..t.at : s = order[w][i]
                           /\ holder'[<<s, Key(changes[s])>>] = w
  <2>1. \A s \in t.pending : \E i \in 1..(t.at - 1) : s = order[w][i]
    BY <1>1, <1>2, <1>4 DEF WriterOK, Behind
  <2>2. t.pending \subseteq Changing(w)
    BY <1>2 DEF Changing, Transactions
  <2>3. t.at \in Nat
    BY SlotsCounted DEF Transactions
  <2> QED  BY <1>1, <1>3, <2>1, <2>2, <2>3 DEF WriterOK, KeepsLock
<1>6. Types' /\ WriterOK(w)'
  BY <1>1, <1>2, <1>3, <1>4, <1>5, MovesOn DEF Types
<1>7. tx' = [tx EXCEPT ![w] = tx'[w]]
  BY <1>1, <1>3 DEF Types
<1>8. \A u \in Writers \ {w} : WriterOK(u)'
  BY <1>1, <1>3, <1>6, <1>7, Others DEF IInv
<1> QED  BY <1>3, <1>6, <1>8 DEF IInv

LEMMA LockKeeps ==
    ASSUME IInv, NEW w \in Writers, Lock(w)
    PROVE  IInv'
<1>1. Types /\ WriterOK(w)
  BY DEF IInv
<1>2. tx[w] \in Transactions /\ Slot(w) \in Slots
  BY SlotIs, <1>1
<1> DEFINE plan == tx[w].plan
<1>3. /\ plan \in Seq(Steps) /\ plan # <<>> /\ tx[w].pc = "apply"
      /\ Head(plan) # "check" /\ Head(plan) = plan[1]
      /\ Target(w) = <<Slot(w), plan[1]>>
  BY <1>2 DEF Lock, Applying, Transactions, Target
<1>4. Len(plan) \in Nat /\ Len(plan) >= 1 /\ plan[1] \in Steps
  BY <1>3
<1>5. Target(w) \in Rows
  BY <1>2, <1>3, <1>4 DEF Rows, Steps
<1>6. /\ tx'[w] = [tx[w] EXCEPT !.plan = Tail(@)] /\ tx' = [tx EXCEPT ![w] = tx'[w]]
      /\ holder' = [holder EXCEPT ![Target(w)] = w]
      /\ holder[Target(w)] \in {w, Nobody}
      /\ UNCHANGED <<order, changes>>
  BY <1>1 DEF Lock, Types
<1>7. /\ Tail(plan) \in Seq(Steps) /\ Len(Tail(plan)) = Len(plan) - 1
      /\ \A i \in 1..Len(Tail(plan)) : Tail(plan)[i] = plan[i + 1]
  BY <1>3, <1>4
<1>8. /\ tx'[w].pc = "apply" /\ tx'[w].plan = Tail(plan) /\ tx'[w].at = tx[w].at
      /\ tx'[w].read = tx[w].read /\ tx'[w].pending = tx[w].pending
  BY <1>2, <1>3, <1>6 DEF Transactions
<1>9. Types'
  <2>1. tx'[w] \in Transactions
    BY <1>2, <1>6, <1>7 DEF Transactions
  <2> QED  BY <1>1, <1>5, <1>6, <2>1 DEF Types
<1>10. WriterOK(w)'
  <2>1. Slot(w)' = Slot(w)
    BY <1>6, <1>8 DEF Slot
  <2>2. Clean(w)' /\ Behind(w)'
    BY <1>1, <1>3, <1>6, <1>8 DEF WriterOK, Clean, Behind, Outside
  <2>3. LockedFirst(w)'
    <3> SUFFICES ASSUME NEW i \in 1..Len(Tail(plan)), Tail(plan)[i] = "check"
                 PROVE  \/ \E j \in 1..(i - 1) : Tail(plan)[j] = Key(tx[w].read)
                        \/ holder'[<<Slot(w), Key(tx[w].read)>>] = w
      BY <1>8, <2>1 DEF LockedFirst
    <3> HIDE DEF plan
    <3>1. i + 1 \in 1..Len(plan) /\ plan[i + 1] = "check"
      BY <1>4, <1>7
    <3>2. \/ \E j \in 1..i : plan[j] = Key(tx[w].read)
          \/ holder[<<Slot(w), Key(tx[w].read)>>] = w
      BY <1>1, <1>3, <3>1 DEF WriterOK, LockedFirst, plan
    <3>3. CASE holder[<<Slot(w), Key(tx[w].read)>>] = w
      BY <3>3, <1>1, <1>2, <1>6 DEF Types, Rows, Key
    <3>4. CASE plan[1] = Key(tx[w].read)
      BY <3>4, <1>1, <1>3, <1>5, <1>6 DEF Types
    <3>5. ASSUME NEW j \in 2..i, plan[j] = Key(tx[w].read)
          PROVE  \E m \in 1..(i - 1) : Tail(plan)[m] = Key(tx[w].read)
      <4>1. i \in Nat /\ j \in Nat /\ i <= Len(Tail(plan)) /\ Len(Tail(plan)) \in Nat
        BY <1>4, <1>7
      <4>2. j - 1 \in 1..(i - 1) /\ j - 1 \in 1..Len(Tail(plan)) /\ (j - 1) + 1 = j
        BY <4>1
      <4>3. Tail(plan)[j - 1] = plan[j]
        BY <4>2, <1>7
      <4> QED  BY <4>2, <4>3, <3>5
    <3>6. \A j \in 1..i : j = 1 \/ j \in 2..i
      OBVIOUS
    <3> QED  BY <3>2, <3>3, <3>4, <3>5, <3>6
  <2>4. Changing(w)' \subseteq Changing(w)
    <3>1. "check" \in Left(w) => "check" \in Left(w)'
      <4>a. DOMAIN plan = 1..Len(plan) /\ DOMAIN Tail(plan) = 1..Len(Tail(plan))
        BY <1>3, <1>7
      <4>b. /\ Left(w) = {plan[i] : i \in 1..Len(plan)}
            /\ Left(w)' = {Tail(plan)[i] : i \in 1..Len(Tail(plan))}
        BY <4>a, <1>8 DEF Left
      <4> HIDE DEF plan
      <4> SUFFICES ASSUME NEW i \in 1..Len(plan), plan[i] = "check"
                   PROVE  \E m \in 1..Len(Tail(plan)) : Tail(plan)[m] = "check"
        BY <4>b
      <4>1. i # 1
        BY <1>3
      <4>2. i - 1 \in 1..Len(Tail(plan)) /\ (i - 1) + 1 = i
        BY <1>4, <1>7, <4>1
      <4> QED  BY <4>2, <1>7
    <3> QED  BY <1>3, <1>8, <2>1, <3>1 DEF Changing
  <2>5. KeepsLock(w)'
    <3> SUFFICES ASSUME NEW s \in Changing(w)
                 PROVE  holder'[<<s, Key(changes[s])>>] = w
      BY <1>6, <2>4 DEF KeepsLock
    <3>1. <<s, Key(changes[s])>> \in Rows /\ holder[<<s, Key(changes[s])>>] = w
      BY <1>1 DEF WriterOK, KeepsLock, Rows, Key, Changing
    <3> QED  BY <3>1, <1>1, <1>6 DEF Types
  <2> QED  BY <2>2, <2>3, <2>5 DEF WriterOK
<1>11. \A r \in Rows : holder'[r] = holder[r] \/ {holder[r], holder'[r]} \subseteq {w, Nobody}
  BY <1>1, <1>5, <1>6 DEF Types
<1>12. \A u \in Writers \ {w} : WriterOK(u)'
  BY <1>1, <1>6, <1>9, <1>11, Others DEF IInv
<1> QED  BY <1>6, <1>9, <1>10, <1>12 DEF IInv

LEMMA CompareAndSetKeeps ==
    ASSUME IInv, NEW w \in Writers, CompareAndSet(w)
    PROVE  IInv'
<1>1. Types /\ WriterOK(w)
  BY DEF IInv
<1>2. tx[w] \in Transactions /\ Slot(w) \in Slots
  BY SlotIs, <1>1
<1> DEFINE plan == tx[w].plan
<1>3. /\ plan \in Seq(Steps) /\ plan # <<>> /\ tx[w].pc = "apply"
      /\ Head(plan) = "check" /\ Head(plan) = plan[1]
      /\ changes[Slot(w)] = tx[w].read
  BY <1>2 DEF CompareAndSet, Comparing, Fresh, Applying, Transactions
<1>4. Len(plan) \in Nat /\ Len(plan) >= 1
  BY <1>3
<1>5. /\ tx'[w] = [tx[w] EXCEPT !.plan = Tail(@)] /\ tx' = [tx EXCEPT ![w] = tx'[w]]
      /\ UNCHANGED <<order, changes, holder>>
  BY <1>1 DEF CompareAndSet, Types
<1>6. /\ Tail(plan) \in Seq(Steps) /\ Len(Tail(plan)) = Len(plan) - 1
      /\ \A i \in 1..Len(Tail(plan)) : Tail(plan)[i] = plan[i + 1]
  BY <1>3, <1>4
<1>7. /\ tx'[w].pc = "apply" /\ tx'[w].plan = Tail(plan) /\ tx'[w].at = tx[w].at
      /\ tx'[w].read = tx[w].read /\ tx'[w].pending = tx[w].pending
  BY <1>2, <1>3, <1>5 DEF Transactions
<1>8. Types'
  <2>1. tx'[w] \in Transactions
    BY <1>2, <1>5, <1>6 DEF Transactions
  <2> QED  BY <1>1, <1>5, <2>1 DEF Types
<1>9. holder[<<Slot(w), Key(tx[w].read)>>] = w
  <2>1. 1 \in 1..Len(plan) /\ ~ \E j \in 1..(1 - 1) : TRUE
    BY <1>4
  <2> QED  BY <1>1, <1>3, <2>1 DEF WriterOK, LockedFirst
<1>10. WriterOK(w)'
  <2>1. Slot(w)' = Slot(w)
    BY <1>5, <1>7 DEF Slot
  <2>2. Clean(w)' /\ Behind(w)'
    BY <1>1, <1>3, <1>5, <1>7 DEF WriterOK, Clean, Behind, Outside
  <2>3. LockedFirst(w)'
    BY <1>5, <1>7, <1>9, <2>1 DEF LockedFirst
  <2>4. Changing(w)' \subseteq Changing(w) \cup {Slot(w)}
    BY <1>7, <2>1 DEF Changing
  <2>5. KeepsLock(w)'
    BY <1>1, <1>3, <1>5, <1>9, <2>4 DEF WriterOK, KeepsLock
  <2> QED  BY <2>2, <2>3, <2>5 DEF WriterOK
<1>11. \A u \in Writers \ {w} : WriterOK(u)'
  BY <1>1, <1>5, <1>8, Others DEF IInv
<1> QED  BY <1>5, <1>8, <1>10, <1>11 DEF IInv

\* A savepoint that is rolled back, with the change of the current slot.
LEMMA FreedSlot ==
    ASSUME Types, NEW w \in Writers, WriterOK(w), tx[w].pc = "apply",
           holder' = Freed(InSlot(w)), changes' = changes
    PROVE  /\ holder' \in [Rows -> Writers \cup {Nobody}]
           /\ \A r \in Rows : holder'[r] = holder[r] \/ {holder[r], holder'[r]} \subseteq {w, Nobody}
           /\ \A s \in tx[w].pending :
                /\ \E i \in 1..(tx[w].at - 1) : s = order[w][i]
                /\ holder'[<<s, Key(changes[s])>>] = w
<1>1. tx[w] \in Transactions /\ Slot(w) \in Slots /\ tx[w].at \in 1..N /\ N \in Nat
  BY SlotIs, SlotsCounted DEF Transactions
<1>2. InSlot(w) \subseteq Rows /\ \A r \in InSlot(w) : holder[r] = w /\ r[1] = Slot(w)
  BY DEF InSlot, HeldBy
<1>3. holder' \in [Rows -> Writers \cup {Nobody}]
  BY DEF Types, Freed
<1>4. \A r \in Rows : holder'[r] = IF r \in InSlot(w) THEN Nobody ELSE holder[r]
  BY DEF Freed
<1>5. ASSUME NEW s \in tx[w].pending
      PROVE  /\ \E i \in 1..(tx[w].at - 1) : s = order[w][i]
             /\ holder'[<<s, Key(changes[s])>>] = w
  <2>1. PICK i \in 1..(tx[w].at - 1) : s = order[w][i]
    BY DEF WriterOK, Behind
  <2>2. s # Slot(w) /\ s \in Slots
    BY <1>1, <2>1, Orders DEF Slot
  <2>3. holder[<<s, Key(changes[s])>>] = w
    BY <2>2 DEF WriterOK, KeepsLock, Changing
  <2>4. <<s, Key(changes[s])>> \in Rows /\ <<s, Key(changes[s])>>[1] = s
    BY <2>2 DEF Rows, Key
  <2> QED  BY <1>2, <1>4, <2>1, <2>2, <2>3, <2>4
<1> QED  BY <1>2, <1>3, <1>4, <1>5

LEMMA RecomputeKeeps ==
    ASSUME IInv, NEW w \in Writers, Recompute(w)
    PROVE  IInv'
<1>1. Types /\ WriterOK(w)
  BY DEF IInv
<1>2. tx[w] \in Transactions /\ Slot(w) \in Slots
  BY SlotIs, <1>1
<1>3. /\ tx[w].pc = "apply" /\ tx[w].recomputed < MaxRecompute
      /\ holder' = Freed(InSlot(w)) /\ UNCHANGED <<order, changes>>
  BY DEF Recompute, Comparing, Applying
<1>4. /\ tx'[w] = [tx[w] EXCEPT !.pc = "decide", !.plan = <<>>, !.recomputed = @ + 1]
      /\ tx' = [tx EXCEPT ![w] = tx'[w]]
  BY <1>1 DEF Recompute, Types
<1>5. /\ tx'[w].pc = "decide" /\ tx'[w].at = tx[w].at /\ tx'[w].pending = tx[w].pending
  BY <1>2, <1>4 DEF Transactions
<1>6. /\ holder' \in [Rows -> Writers \cup {Nobody}]
      /\ \A r \in Rows : holder'[r] = holder[r] \/ {holder[r], holder'[r]} \subseteq {w, Nobody}
      /\ \A s \in tx[w].pending :
            /\ \E i \in 1..(tx[w].at - 1) : s = order[w][i]
            /\ holder'[<<s, Key(changes[s])>>] = w
  BY <1>1, <1>3, FreedSlot
<1>7. Types'
  <2>1. tx[w].recomputed + 1 \in 0..MaxRecompute
    BY <1>2, <1>3, SlotLocksAssumption DEF Transactions
  <2>2. <<>> \in Seq(Steps)
    OBVIOUS
  <2>3. tx'[w] \in Transactions
    BY <1>2, <1>4, <2>1, <2>2 DEF Transactions
  <2> QED  BY <1>1, <1>3, <1>4, <1>6, <2>3 DEF Types
<1>8. WriterOK(w)'
  <2>1. Clean(w)' /\ LockedFirst(w)'
    BY <1>5 DEF Clean, LockedFirst, Outside
  <2>2. Behind(w)'
    BY <1>3, <1>5, <1>6 DEF Behind
  <2>4. Changing(w)' \subseteq tx[w].pending
    BY <1>5 DEF Changing
  <2>5. KeepsLock(w)'
    BY <1>3, <1>6, <2>4 DEF KeepsLock
  <2> QED  BY <2>1, <2>2, <2>5 DEF WriterOK
<1>9. \A u \in Writers \ {w} : WriterOK(u)'
  BY <1>1, <1>3, <1>4, <1>6, <1>7, Others DEF IInv
<1> QED  BY <1>3, <1>7, <1>8, <1>9 DEF IInv

LEMMA GiveUpKeeps ==
    ASSUME IInv, NEW w \in Writers, GiveUp(w)
    PROVE  IInv'
<1>1. Types /\ WriterOK(w)
  BY DEF IInv
<1>2. tx[w] \in Transactions /\ Slot(w) \in Slots
  BY SlotIs, <1>1
<1>3. /\ tx[w].pc = "apply" /\ holder' = Freed(InSlot(w))
      /\ UNCHANGED <<order, changes>>
  BY DEF GiveUp, Comparing, Applying
<1>4. PICK t \in Transactions : t = [tx[w] EXCEPT !.plan = <<>>]
  <2>1. <<>> \in Seq(Steps)
    OBVIOUS
  <2> QED  BY <1>2, <2>1 DEF Transactions
<1>5. t.at = tx[w].at /\ t.pending = tx[w].pending /\ t.at \in 1..N
  BY <1>2, <1>4 DEF Transactions
<1>6. tx' = [tx EXCEPT ![w] = GoOn(w, t)]
  BY <1>1, <1>4 DEF GiveUp, Types
<1>8. /\ holder' \in [Rows -> Writers \cup {Nobody}]
      /\ \A r \in Rows : holder'[r] = holder[r] \/ {holder[r], holder'[r]} \subseteq {w, Nobody}
      /\ \A s \in tx[w].pending :
            /\ \E i \in 1..(tx[w].at - 1) : s = order[w][i]
            /\ holder'[<<s, Key(changes[s])>>] = w
  BY <1>1, <1>3, FreedSlot
<1>9. \A s \in t.pending : /\ \E i \in 1..t.at : s = order[w][i]
                           /\ holder'[<<s, Key(changes[s])>>] = w
  BY <1>5, <1>8, SlotsCounted
<1>10. Types' /\ WriterOK(w)'
  BY <1>1, <1>3, <1>5, <1>6, <1>8, <1>9, MovesOn
<1>11. tx' = [tx EXCEPT ![w] = tx'[w]]
  BY <1>1, <1>6 DEF Types
<1>12. \A u \in Writers \ {w} : WriterOK(u)'
  BY <1>1, <1>3, <1>8, <1>10, <1>11, Others DEF IInv
<1> QED  BY <1>3, <1>10, <1>12 DEF IInv

LEMMA AppliedKeeps ==
    ASSUME IInv, NEW w \in Writers, Applied(w)
    PROVE  IInv'
<1>1. Types /\ WriterOK(w)
  BY DEF IInv
<1>2. tx[w] \in Transactions /\ Slot(w) \in Slots
  BY SlotIs, <1>1
<1>3. /\ tx[w].pc = "apply" /\ tx[w].plan = <<>>
      /\ UNCHANGED <<order, changes, holder>>
  BY DEF Applied
<1>4. PICK t \in Transactions : t = [tx[w] EXCEPT !.pending = @ \cup {Slot(w)}]
  BY <1>2 DEF Transactions
<1>5. t.at = tx[w].at /\ t.pending = tx[w].pending \cup {Slot(w)} /\ t.at \in 1..N
  BY <1>2, <1>4 DEF Transactions
<1>6. tx' = [tx EXCEPT ![w] = GoOn(w, t)]
  BY <1>1, <1>4 DEF Applied, Types
<1>8. "check" \notin Left(w)
  BY <1>3 DEF Left
<1>9. Changing(w) = t.pending
  BY <1>2, <1>3, <1>5, <1>8 DEF Changing, Transactions
<1>10. ASSUME NEW s \in t.pending
       PROVE  /\ \E i \in 1..t.at : s = order[w][i]
              /\ holder'[<<s, Key(changes[s])>>] = w
  <2>1. holder[<<s, Key(changes[s])>>] = w
    BY <1>1, <1>9 DEF WriterOK, KeepsLock
  <2>2. CASE s = Slot(w)
    BY <1>3, <1>5, <2>1, <2>2, SlotsCounted DEF Slot
  <2>3. CASE s \in tx[w].pending
    BY <1>1, <1>3, <1>5, <2>1, <2>3, SlotsCounted DEF WriterOK, Behind
  <2> QED  BY <1>5, <2>2, <2>3
<1>11. Types' /\ WriterOK(w)'
  BY <1>1, <1>3, <1>5, <1>6, <1>10, MovesOn DEF Types
<1>12. tx' = [tx EXCEPT ![w] = tx'[w]]
  BY <1>1, <1>6 DEF Types
<1>13. \A u \in Writers \ {w} : WriterOK(u)'
  BY <1>1, <1>3, <1>11, <1>12, Others DEF IInv
<1> QED  BY <1>3, <1>11, <1>13 DEF IInv

\* A transaction that ends gives up every row.
LEMMA FreedAll ==
    ASSUME Types, NEW w \in Writers, holder' = Freed(HeldBy(w))
    PROVE  /\ holder' \in [Rows -> Writers \cup {Nobody}]
           /\ \A r \in Rows : holder'[r] # w
           /\ \A r \in Rows : holder'[r] = holder[r] \/ {holder[r], holder'[r]} \subseteq {w, Nobody}
BY SlotLocksAssumption DEF Types, Freed, HeldBy

LEMMA RollbackKeeps ==
    ASSUME IInv, NEW w \in Writers, Rollback(w), tx[w].pc = "apply"
    PROVE  IInv'
<1>1. Types /\ WriterOK(w)
  BY DEF IInv
<1>2. changes' = changes
  BY DEF Rollback
<1>3. /\ holder' = Freed(HeldBy(w)) /\ order' = order
      /\ tx'[w] = AfterRollback /\ tx' = [tx EXCEPT ![w] = tx'[w]]
  BY <1>1 DEF Rollback, Types
<1>4. /\ holder' \in [Rows -> Writers \cup {Nobody}]
      /\ \A r \in Rows : holder'[r] # w
      /\ \A r \in Rows : holder'[r] = holder[r] \/ {holder[r], holder'[r]} \subseteq {w, Nobody}
  BY <1>1, <1>3, FreedAll
<1>5. /\ AfterRollback \in Transactions /\ AfterRollback.pc = "refused"
      /\ AfterRollback.pending = {}
  <2>1. 1 \in 1..N /\ 0 \in 0..MaxRecompute /\ <<>> \in Seq(Steps)
    BY SlotsCounted, SlotLocksAssumption
  <2> QED  BY <2>1 DEF AfterRollback, Idle, Transactions, Outside
<1>6. Types'
  BY <1>1, <1>2, <1>3, <1>4, <1>5 DEF Types
<1>7. WriterOK(w)'
  BY <1>3, <1>4, <1>5 DEF WriterOK, Clean, Behind, LockedFirst, KeepsLock, Changing
<1>8. \A u \in Writers \ {w} : WriterOK(u)'
  BY <1>1, <1>2, <1>3, <1>4, <1>6, Others DEF IInv
<1> QED  BY <1>2, <1>3, <1>6, <1>7, <1>8 DEF IInv

LEMMA CommitKeeps ==
    ASSUME IInv, NEW w \in Writers, Commit(w)
    PROVE  IInv'
<1>1. Types /\ WriterOK(w)
  BY DEF IInv
<1>2. tx[w] \in Transactions
  BY SlotIs, <1>1
<1> DEFINE done == [Idle EXCEPT !.pc = "done"]
           pending == tx[w].pending
<1>3. /\ tx[w].pc = "commit" /\ changes' = Counted(pending)
      /\ holder' = Freed(HeldBy(w)) /\ order' = order
      /\ tx'[w] = done /\ tx' = [tx EXCEPT ![w] = tx'[w]]
  BY <1>1 DEF Commit, Types
<1>4. /\ holder' \in [Rows -> Writers \cup {Nobody}]
      /\ \A r \in Rows : holder'[r] # w
      /\ \A r \in Rows : holder'[r] = holder[r] \/ {holder[r], holder'[r]} \subseteq {w, Nobody}
  BY <1>1, <1>3, FreedAll
<1>5. done \in Transactions /\ done.pc = "done" /\ done.pending = {}
  <2>1. 1 \in 1..N /\ 0 \in 0..MaxRecompute /\ <<>> \in Seq(Steps)
    BY SlotsCounted, SlotLocksAssumption
  <2> QED  BY <2>1 DEF Idle, Transactions, Outside
<1>6. pending \subseteq Slots /\ pending \subseteq Changing(w)
  BY <1>2 DEF Transactions, Changing
<1> HIDE DEF done, pending
<1>7. /\ changes' \in [Slots -> Nat]
      /\ \A s \in Slots : changes'[s] = changes[s] + (IF s \in pending THEN 1 ELSE 0)
  BY <1>1, <1>3 DEF Counted, Types
<1>8. Types'
  BY <1>1, <1>3, <1>4, <1>5, <1>6, <1>7 DEF Types
<1>9. WriterOK(w)'
  BY <1>3, <1>4, <1>5
     DEF WriterOK, Clean, Behind, LockedFirst, KeepsLock, Changing
<1>10. \A u \in Writers \ {w} : WriterOK(u)'
  <2>1. \A s \in Slots : changes'[s] = changes[s] \/ s \in Changing(w)
    BY <1>1, <1>6, <1>7 DEF Types
  <2> QED  BY <1>1, <1>3, <1>4, <1>8, <2>1, Others DEF IInv
<1> QED  BY <1>8, <1>9, <1>10 DEF IInv

LEMMA InitGood == Init => IInv
<1> SUFFICES ASSUME Init PROVE IInv
  OBVIOUS
<1>1. /\ Idle \in Transactions /\ Idle.pc = "idle" /\ Idle.pending = {}
  BY SlotsCounted, SlotLocksAssumption DEF Idle, Transactions, Outside
<1>2. Types
  BY <1>1 DEF Init, Types, Before
<1>3. ASSUME NEW w \in Writers
      PROVE  WriterOK(w)
  BY <1>1, SlotLocksAssumption
     DEF Init, WriterOK, Clean, Behind, LockedFirst, KeepsLock, Changing
<1> QED  BY <1>2, <1>3 DEF IInv

LEMMA NextKeeps == IInv /\ [Next]_vars => IInv'
<1> SUFFICES ASSUME IInv, [Next]_vars
             PROVE  IInv'
  OBVIOUS
<1>1. CASE UNCHANGED vars
  <2>1. Types'
    BY <1>1 DEF IInv, Types, vars
  <2>2. \A w \in Writers : WriterOK(w)'
    BY <1>1, <2>1, Frame DEF IInv, vars
  <2> QED  BY <2>1, <2>2 DEF IInv
<1>2. ASSUME NEW w \in Writers, Work(w)
      PROVE  IInv'
  <2>1. ASSUME Conflict(w)
        PROVE  IInv'
    BY <2>1, RollbackKeeps DEF Conflict, Comparing, Applying
  <2> QED  BY <1>2, <2>1, BeginKeeps, DecideKeeps, DecideNothingKeeps, CompareAndSetKeeps,
              RecomputeKeeps, GiveUpKeeps, AppliedKeeps, CommitKeeps DEF Work
<1>3. ASSUME NEW w \in Writers, Deadlocked(w)
      PROVE  IInv'
  <2>1. tx[w].pc = "apply"
    BY <1>3 DEF Deadlocked, InCycle, Blockers, Applying
  <2> QED  BY <1>3, <2>1, RollbackKeeps DEF Deadlocked
<1> QED  BY <1>1, <1>2, <1>3, LockKeeps DEF Next

LEMMA Invariance == Spec => []IInv
<1> QED  BY InitGood, NextKeeps, PTL DEF Spec

(***************************************************************************)
(* The theorems.                                                           *)
(***************************************************************************)
\* The stored values have their types, and only a transaction at work holds
\* rows: COMMIT and ROLLBACK leave none behind.
THEOREM TypeCorrect == Spec => []TypeOK
<1>1. IInv => TypeOK
  <2> SUFFICES ASSUME IInv PROVE TypeOK
    OBVIOUS
  <2>1. Types
    BY DEF IInv
  <2>2. ASSUME NEW w \in Writers
        PROVE  /\ tx[w].pc \in {"idle", "decide", "apply", "commit", "refused", "done"}
               /\ tx[w].at \in 1..Len(order[w])
               /\ tx[w].recomputed <= MaxRecompute
               /\ tx[w].pending \subseteq Slots
               /\ HeldBy(w) # {} => tx[w].pc \in {"decide", "apply", "commit"}
    <3>1. tx[w] \in Transactions /\ Len(order[w]) = N
      BY <2>1, SlotIs, Orders
    <3>2. tx[w].pc \in Outside => HeldBy(w) = {}
      BY DEF IInv, WriterOK, Clean, HeldBy
    <3> QED  BY <3>1, <3>2, SlotLocksAssumption DEF Transactions, Outside
  <2> QED  BY <2>1, <2>2 DEF TypeOK, Types
<1> QED  BY <1>1, Invariance, PTL

\* From a compare-and-set of a slot to the end of its transaction no other
\* transaction changes that slot: all of them hold its key row for it.
THEOREM ChangeIsOneStepHolds == Spec => ChangeIsOneStep
<1>1. ASSUME IInv, [Next]_vars, NEW w \in Writers, NEW s \in Changing(w),
             changes'[s] # changes[s]
      PROVE  tx'[w].pc = "done"
  <2>1. Types /\ s \in Slots
    BY <1>1 DEF IInv, Changing
  <2>2. ASSUME NEW u \in Writers, Commit(u)
        PROVE  tx'[w].pc = "done"
    <3>1. s \in tx[u].pending
      BY <1>1, <2>1, <2>2 DEF Commit, Counted, Types
    <3>2. s \in Changing(u)
      BY <2>1, <3>1 DEF Changing
    <3>3. u = w
      BY <1>1, <3>2, Exclusion DEF IInv, WriterOK
    <3> QED  BY <2>1, <2>2, <3>3 DEF Commit, Types, Idle
  <2>3. ASSUME NEW u \in Writers, Rollback(u)
        PROVE  changes'[s] = changes[s]
    BY <2>3 DEF Rollback
  <2> QED  BY <1>1, <2>2, <2>3
           DEF Next, vars, Work, Begin, Decide, DecideNothing, CompareAndSet, Recompute,
               GiveUp, Applied, Conflict, Lock, Deadlocked
<1>2. IInv /\ [Next]_vars =>
        [\A w \in Writers : \A s \in Changing(w) :
            changes'[s] # changes[s] => tx'[w].pc = "done"]_vars
  BY <1>1
<1> QED  BY <1>2, Invariance, PTL DEF Spec, ChangeIsOneStep
=============================================================================
