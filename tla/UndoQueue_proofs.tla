---------------------------- MODULE UndoQueue_proofs ----------------------------
(***************************************************************************)
(* Proofs about UndoQueue, for every set of snapshots and every limit on   *)
(* the number of records: the queue and its counter implement a history.   *)
(***************************************************************************)
EXTENDS UndoQueue, BasicFacts

LEMMA LimitType == Limit \in Nat /\ Limit >= 2
BY StepsAssumption DEF Limit

-----------------------------------------------------------------------------
(* Appending to a slice that reaches the end of the sequence.              *)
LEMMA AppendToSlice ==
    ASSUME NEW S, NEW s \in Seq(S), NEW e \in S, NEW k \in 0 .. Len(s)
    PROVE  Append(SubSeq(s, k + 1, Len(s)), e)
             = SubSeq(Append(s, e), k + 1, Len(Append(s, e)))
<1> DEFINE a == SubSeq(s, k + 1, Len(s))
           t == Append(s, e)
           b == SubSeq(t, k + 1, Len(t))
<1>1. Len(s) \in Nat /\ k \in Nat /\ k <= Len(s)
  BY LenProperties
<1>2. /\ t \in Seq(S) /\ Len(t) = Len(s) + 1
      /\ \A i \in 1 .. Len(s) : t[i] = s[i]
      /\ t[Len(s) + 1] = e
  BY AppendProperties
<1> HIDE DEF t
<1>4. a \in Seq(S) /\ Len(a) = Len(s) - k /\ \A i \in 1 .. (Len(s) - k) : a[i] = s[k + i]
  BY Suffix
<1>5. k \in 0 .. Len(t)
  BY <1>1, <1>2
<1>6. b \in Seq(S) /\ Len(b) = Len(t) - k /\ \A i \in 1 .. (Len(t) - k) : b[i] = t[k + i]
  BY <1>2, <1>5, Suffix
<1> HIDE DEF a, b
<1>7. /\ Append(a, e) \in Seq(S) /\ Len(Append(a, e)) = Len(a) + 1
      /\ \A i \in 1 .. Len(a) : Append(a, e)[i] = a[i]
      /\ Append(a, e)[Len(a) + 1] = e
  BY <1>4, AppendProperties
<1>8. Len(Append(a, e)) = Len(b)
  BY <1>1, <1>2, <1>4, <1>6, <1>7
<1>9. ASSUME NEW i \in 1 .. Len(Append(a, e)) PROVE Append(a, e)[i] = b[i]
  <2>1. i \in 1 .. Len(t) - k
    BY <1>1, <1>2, <1>4, <1>7
  <2> b[i] = t[k + i]
    BY <1>6, <2>1
  <2>2. CASE i = Len(a) + 1
    <3>1. k + i = Len(s) + 1
      BY <1>1, <1>4, <2>2
    <3> QED
      BY <1>2, <1>7, <2>1, <2>2, <3>1
  <2>3. CASE i # Len(a) + 1
    <3>1. i \in 1 .. Len(a) /\ i \in 1 .. Len(s) - k /\ k + i \in 1 .. Len(s)
      BY <1>1, <1>4, <1>7, <2>3
    <3> QED
      BY <1>2, <1>4, <1>7, <2>1, <3>1
  <2> QED
    BY <2>2, <2>3
<1>10. Append(a, e) = b
  BY <1>6, <1>7, <1>8, <1>9, SeqEqual
<1> QED
  BY <1>10 DEF a, b, t

-----------------------------------------------------------------------------
(* The helpers of addToUndoQueue().                                        *)

(* What trimming drops, it drops in front; it keeps Limit - 1 records.     *)
LEMMA TrimIsSuffix ==
    ASSUME NEW q \in Seq(States)
    PROVE  \E k \in 0 .. Len(q) :
              /\ Trim(q) = SubSeq(q, k + 1, Len(q))
              /\ k > 0 => Len(q) - k = Limit - 1
              /\ k = 0 => Len(q) <= Limit
<1>1. Len(q) \in Nat /\ Limit \in Nat /\ Limit >= 2
  BY LenProperties, LimitType
<1>2. CASE Len(q) > Limit
  <2> DEFINE k == Len(q) - Limit + 1
  <2>1. k \in 0 .. Len(q) /\ k > 0 /\ Len(q) - k = Limit - 1
    BY <1>1, <1>2
  <2>2. k + 1 = Len(q) - Limit + 2
    BY <1>1
  <2>3. Trim(q) = SubSeq(q, Len(q) - Limit + 2, Len(q))
    BY <1>2 DEF Trim
  <2>4. Trim(q) = SubSeq(q, k + 1, Len(q))
    BY <2>2, <2>3, Zenon
  <2>5. k > 0 => Len(q) - k = Limit - 1
    BY <2>1
  <2>6. k = 0 => Len(q) <= Limit
    BY <2>1
  <2> HIDE DEF k
  <2> QED
    BY <2>1, <2>4, <2>5, <2>6, Zenon
<1>3. CASE ~(Len(q) > Limit)
  <2>1. Trim(q) = SubSeq(q, 0 + 1, Len(q))
    BY <1>3, SubSeqFull DEF Trim
  <2> QED
    BY <1>1, <1>3, <2>1
<1> QED
  BY <1>2, <1>3

(* Recording a state in a queue that keeps to the limit.                   *)
LEMMA RecordFacts ==
    ASSUME NEW q \in Seq(States), Len(q) <= Limit + 1, NEW e \in States
    PROVE  LET r == Append(Trim(q), e)
           IN  /\ r \in Seq(States)
               /\ Len(r) \in 1 .. Limit + 1
               /\ r[Len(r)] = e
               /\ q # <<>> => Len(r) >= 2 /\ r[Len(r) - 1] = q[Len(q)]
<1> DEFINE t == Trim(q)
           r == Append(t, e)
<1>1. PICK k \in 0 .. Len(q) : /\ t = SubSeq(q, k + 1, Len(q))
                               /\ k > 0 => Len(q) - k = Limit - 1
                               /\ k = 0 => Len(q) <= Limit
  BY TrimIsSuffix
<1>2. Len(q) \in Nat /\ Limit \in Nat /\ Limit >= 2
  BY LenProperties, LimitType
<1>3. t \in Seq(States) /\ Len(t) = Len(q) - k /\ \A i \in 1 .. (Len(q) - k) : t[i] = q[k + i]
  BY <1>1, Suffix
<1>4. Len(t) \in 0 .. Limit
  BY <1>1, <1>2, <1>3
<1> HIDE DEF t
<1>5. /\ r \in Seq(States) /\ Len(r) = Len(t) + 1
      /\ \A i \in 1 .. Len(t) : r[i] = t[i]
      /\ r[Len(t) + 1] = e
  BY <1>3, AppendProperties
<1> HIDE DEF r
<1>6. ASSUME q # <<>> PROVE Len(r) >= 2 /\ r[Len(r) - 1] = q[Len(q)]
  <2>1. Len(q) > 0
    BY <1>2, <1>6, EmptySeq
  <2>2. Len(t) \in 1 .. (Len(q) - k) /\ Len(t) \in 1 .. Len(t) /\ k + Len(t) = Len(q)
    BY <1>1, <1>2, <1>3, <2>1
  <2>3. Len(r) >= 2 /\ Len(r) - 1 = Len(t)
    BY <1>5, <2>2
  <2>4. r[Len(t)] = t[Len(t)] /\ t[Len(t)] = q[k + Len(t)]
    BY <1>3, <1>5, <2>2
  <2> QED
    BY <2>2, <2>3, <2>4
<1>7. Len(r) \in 1 .. Limit + 1
  BY <1>2, <1>4, <1>5
<1> QED
  BY <1>5, <1>6, <1>7 DEF r, t

(* The dead branch is what lies behind the present state.                  *)
LEMMA CutDeadFacts ==
    ASSUME TypeOK, PresentIsRecorded
    PROVE  LET d == CutDead(undoQueue, undo_counter)
           IN  /\ d \in Seq(States)
               /\ Len(d) <= Limit + 1
               /\ \/ d = Past
                  \/ Past \in Seq(States) /\ d = Append(Past, current)
<1> DEFINE q == undoQueue
           c == undo_counter
<1>1. /\ q \in Seq(States) /\ Len(q) \in Nat /\ Len(q) <= Limit + 1
      /\ Limit \in Nat /\ c \in Nat /\ current \in States
  BY LenProperties, LimitType DEF TypeOK
<1>2. CASE c = 0 \/ q = <<>>
  <2>1. CutDead(q, c) = q
    BY <1>2, EmptySeq DEF CutDead
  <2> QED
    BY <1>1, <1>2, <2>1 DEF Past, AtTheTip
<1>3. CASE c = 1 /\ q # <<>>
  <2>1. CutDead(q, c) = q
    BY <1>3 DEF CutDead
  <2>2. Past = SubSeq(q, 1, Len(q) - 1) /\ Len(q) >= 1
    BY <1>1, <1>3, EmptySeq DEF Past, AtTheTip
  <2>3. Past \in Seq(States) /\ Len(Past) = Len(q) - 1
        /\ \A i \in 1 .. (Len(q) - 1) : Past[i] = q[i]
    <3>1. 1 \in 1 .. Len(q) + 1 /\ Len(q) - 1 \in 1 - 1 .. Len(q)
      BY <1>1, <2>2
    <3>2. Len(q) - 1 - 1 + 1 = Len(q) - 1 /\ \A i \in 1 .. (Len(q) - 1) : 1 + i - 1 = i
      BY <1>1
    <3> QED
      BY <1>1, <2>2, <3>1, <3>2, Slice
  <2>4. q[Len(q)] = current
    <3>1. Len(q) - 1 + 1 = Len(q)
      BY <1>1
    <3> QED
      BY <1>3, <3>1 DEF PresentIsRecorded
  <2>5. q = Append(Past, current)
    <3> DEFINE p == Append(Past, current)
    <3> HIDE DEF q, c
    <3>1. /\ p \in Seq(States) /\ Len(p) = Len(Past) + 1
          /\ \A i \in 1 .. Len(Past) : p[i] = Past[i]
          /\ p[Len(Past) + 1] = current
      BY <1>1, <2>3, AppendProperties
    <3> HIDE DEF p
    <3>2. Len(p) = Len(q)
      BY <1>1, <2>3, <3>1
    <3>3. ASSUME NEW i \in 1 .. Len(q) PROVE q[i] = p[i]
      <4>1. i \in 1 .. (Len(q) - 1) \/ i = Len(q)
        BY <1>1
      <4>2. Len(Past) + 1 = Len(q)
        BY <1>1, <2>3
      <4> QED
        BY <2>3, <2>4, <3>1, <4>1, <4>2
    <3> QED
      BY <1>1, <3>1, <3>2, <3>3, SeqEqual DEF p
  <2> QED
    BY <1>1, <2>1, <2>3, <2>5
<1>4. CASE c > 1 /\ q # <<>>
  <2>1. c <= Len(q)
    BY <1>1, <1>4 DEF PresentIsRecorded
  <2>2. CutDead(q, c) = SubSeq(q, 1, Len(q) - c) /\ Past = SubSeq(q, 1, Len(q) - c)
    BY <1>1, <1>4, <2>1 DEF CutDead, Past, AtTheTip
  <2>3. 1 \in 1 .. Len(q) + 1 /\ Len(q) - c \in 1 - 1 .. Len(q)
    BY <1>1, <2>1
  <2>4. SubSeq(q, 1, Len(q) - c) \in Seq(States) /\ Len(SubSeq(q, 1, Len(q) - c)) = Len(q) - c - 1 + 1
    BY <1>1, <2>3, Slice
  <2>5. Len(q) - c - 1 + 1 <= Limit + 1
    BY <1>1
  <2> QED
    BY <2>2, <2>4, <2>5
<1> QED
  BY <1>1, <1>2, <1>3, <1>4

-----------------------------------------------------------------------------
(* What undo() works on: the queue with the present state in it.           *)
LEMMA UndoBaseFacts ==
    ASSUME TypeOK, PresentIsRecorded, CanUndo(undoQueue, undo_counter)
    PROVE  /\ UndoBase \in Seq(States)
           /\ Len(UndoBase) <= Limit + 1
           /\ UndoCounter \in 1 .. Len(UndoBase) - 1
           /\ UndoTarget \in States
           /\ undo_counter = 0 => UndoTarget = undoQueue[Len(undoQueue)]
<1> DEFINE q == undoQueue
           c == undo_counter
<1>1. /\ q \in Seq(States) /\ Len(q) \in Nat /\ Len(q) <= Limit + 1
      /\ Limit \in Nat /\ Limit >= 2 /\ c \in Nat /\ current \in States
      /\ q # <<>> /\ Len(q) >= c + 1
  BY LenProperties, LimitType DEF TypeOK, CanUndo
<1>2. CASE c = 0
  <2>1. UndoBase = Append(Trim(q), current) /\ UndoCounter = 1
    BY <1>2 DEF UndoBase, UndoCounter, Recorded, CutDead
  <2>2. /\ UndoBase \in Seq(States) /\ Len(UndoBase) \in 1 .. Limit + 1
        /\ Len(UndoBase) >= 2 /\ UndoBase[Len(UndoBase) - 1] = q[Len(q)]
    BY <1>1, <2>1, RecordFacts
  <2>3. UndoTarget = q[Len(q)]
    BY <2>1, <2>2 DEF UndoTarget
  <2>4. q[Len(q)] \in States
    <3>1. Len(q) \in 1 .. Len(q)
      BY <1>1
    <3> QED
      BY <1>1, <3>1, ElementOfSeq
  <2>5. 1 \in 1 .. Len(UndoBase) - 1 /\ Len(UndoBase) <= Limit + 1
    BY <1>1, <2>2
  <2> QED
    BY <2>1, <2>2, <2>3, <2>4, <2>5
<1>3. CASE c > 0
  <2>1. UndoBase = q /\ UndoCounter = c
    BY <1>1, <1>3 DEF UndoBase, UndoCounter
  <2>2. UndoTarget = q[Len(q) - c] /\ Len(q) - c \in 1 .. Len(q) /\ c \in 1 .. Len(q) - 1
    BY <1>1, <1>3, <2>1 DEF UndoTarget
  <2>3. UndoTarget \in States
    BY <1>1, <2>2, ElementOfSeq
  <2> QED
    BY <1>1, <1>3, <2>1, <2>2, <2>3
<1> QED
  BY <1>1, <1>2, <1>3

(* The inductive invariant: types, bounds, and the present state where the *)
(* counter says it is recorded.                                            *)
Inv == TypeOK /\ PresentIsRecorded

LEMMA InvInit == Init => Inv
<1>1. Init => Len(undoQueue) = 0 /\ undoQueue \in Seq(States)
  BY EmptySeq DEF Init
<1> QED
  BY <1>1, LimitType DEF Init, Inv, TypeOK, PresentIsRecorded

LEMMA InvStep == Inv /\ [Next]_vars => Inv'
<1> SUFFICES ASSUME Inv, [Next]_vars PROVE Inv'
  OBVIOUS
<1> DEFINE q == undoQueue
           c == undo_counter
<1>1. /\ TypeOK /\ PresentIsRecorded
      /\ q \in Seq(States) /\ Len(q) \in Nat /\ Len(q) <= Limit + 1
      /\ Limit \in Nat /\ Limit >= 2 /\ c \in 0 .. Limit + 1 /\ current \in States
  BY LenProperties, LimitType DEF Inv, TypeOK
<1>2. CASE Edit
  <2>1. undoQueue' = Append(Trim(CutDead(q, c)), current)
    BY <1>2 DEF Edit, AddRecord, Recorded
  <2>2. undoQueue' \in Seq(States) /\ Len(undoQueue') \in 1 .. Limit + 1
    BY <1>1, <2>1, CutDeadFacts, RecordFacts
  <2>3. undo_counter' = 0 /\ current' \in States
    BY <1>2 DEF Edit, AddRecord
  <2>4. TypeOK'
    BY <1>1, <2>2, <2>3 DEF TypeOK, Limit
  <2>5. PresentIsRecorded'
    BY <2>3 DEF PresentIsRecorded
  <2> QED
    BY <2>4, <2>5 DEF Inv
<1>3. CASE Amend
  <2>1. TypeOK'
    BY <1>1, <1>3 DEF Amend, TypeOK, Limit
  <2>2. PresentIsRecorded'
    BY <1>3 DEF Amend, AtTheTip, PresentIsRecorded
  <2> QED
    BY <2>1, <2>2 DEF Inv
<1>4. CASE Undo
  <2>1. /\ CanUndo(q, c) /\ undoQueue' = UndoBase /\ undo_counter' = UndoCounter + 1
        /\ current' = UndoTarget
    BY <1>4 DEF Undo, UndoRecord
  <2>2. /\ UndoBase \in Seq(States) /\ Len(UndoBase) <= Limit + 1
        /\ UndoCounter \in 1 .. Len(UndoBase) - 1 /\ UndoTarget \in States
        /\ Len(UndoBase) \in Nat
    BY <1>1, <2>1, UndoBaseFacts, LenProperties
  <2>3. UndoCounter + 1 \in 0 .. Limit + 1 /\ UndoCounter + 1 <= Len(UndoBase)
    BY <1>1, <2>2
  <2>4. TypeOK'
    BY <1>1, <2>1, <2>2, <2>3 DEF TypeOK, Limit
  <2>5. Len(UndoBase) - (UndoCounter + 1) + 1 = Len(UndoBase) - UndoCounter
    BY <2>2
  <2>6. undoQueue'[Len(undoQueue') - undo_counter' + 1] = current'
    BY <2>1, <2>5 DEF UndoTarget
  <2>7. PresentIsRecorded'
    BY <2>1, <2>3, <2>6 DEF PresentIsRecorded
  <2> QED
    BY <2>4, <2>7 DEF Inv
<1>5. CASE Redo
  <2>1. /\ c >= 2 /\ Len(q) >= c /\ undoQueue' = q /\ undo_counter' = c - 1
        /\ current' = q[Len(q) - c + 2]
    BY <1>5 DEF Redo, RedoRecord, CanRedo, RedoTarget
  <2>2. Len(q) - c + 2 \in 1 .. Len(q) /\ c - 1 \in 0 .. Limit + 1 /\ c - 1 <= Len(q)
        /\ Len(q) - (c - 1) + 1 = Len(q) - c + 2
    BY <1>1, <2>1
  <2>3. current' \in States
    BY <1>1, <2>1, <2>2, ElementOfSeq
  <2>4. TypeOK'
    BY <1>1, <2>1, <2>2, <2>3 DEF TypeOK, Limit
  <2>5. PresentIsRecorded'
    BY <2>1, <2>2 DEF PresentIsRecorded
  <2> QED
    BY <2>4, <2>5 DEF Inv
<1>6. CASE Clear
  <2>1. undoQueue' = <<>> /\ undo_counter' = c /\ current' \in States
    BY <1>6 DEF Clear, ClearRecords
  <2>2. undoQueue' \in Seq(States) /\ Len(undoQueue') <= Limit + 1
    BY <1>1, <2>1, EmptySeq
  <2>3. TypeOK'
    BY <1>1, <2>1, <2>2 DEF TypeOK, Limit
  <2>4. PresentIsRecorded'
    BY <2>1 DEF PresentIsRecorded
  <2> QED
    BY <2>3, <2>4 DEF Inv
<1>7. CASE UNCHANGED vars
  BY <1>1, <1>7 DEF vars, Inv, TypeOK, PresentIsRecorded, Limit
<1> QED
  BY <1>2, <1>3, <1>4, <1>5, <1>6, <1>7 DEF Next

(* The queue never outgrows its limit by more than one record, and the     *)
(* counter never runs past it.                                             *)
THEOREM TypeCorrect == Spec => []TypeOK
<1> QED
  BY InvInit, InvStep, PTL DEF Spec, Inv

(* The present state is recorded where _undo_counter points: the indices   *)
(* of addToUndoQueue(), undo() and redo() are always in range.             *)
THEOREM Recording == Spec => []PresentIsRecorded
<1> QED
  BY InvInit, InvStep, PTL DEF Spec, Inv

-----------------------------------------------------------------------------
(* Past and Future, once the present state is recorded.                    *)
LEMMA Halves ==
    ASSUME NEW q \in Seq(States), NEW c \in Nat, c >= 1, c <= Len(q)
    PROVE  /\ SubSeq(q, 1, Len(q) - c) \in Seq(States)
           /\ Len(SubSeq(q, 1, Len(q) - c)) = Len(q) - c
           /\ \A i \in 1 .. (Len(q) - c) : SubSeq(q, 1, Len(q) - c)[i] = q[i]
           /\ SubSeq(q, Len(q) - c + 2, Len(q)) \in Seq(States)
           /\ Len(SubSeq(q, Len(q) - c + 2, Len(q))) = c - 1
           /\ \A i \in 1 .. (c - 1) :
                 SubSeq(q, Len(q) - c + 2, Len(q))[i] = q[Len(q) - c + 1 + i]
<1>1. Len(q) \in Nat
  BY LenProperties
<1>2. 1 \in 1 .. Len(q) + 1 /\ Len(q) - c \in (1 - 1) .. Len(q)
  BY <1>1
<1>3. Len(q) - c - 1 + 1 = Len(q) - c /\ \A i \in 1 .. (Len(q) - c) : 1 + i - 1 = i
  BY <1>1
<1>4. /\ SubSeq(q, 1, Len(q) - c) \in Seq(States)
      /\ Len(SubSeq(q, 1, Len(q) - c)) = Len(q) - c - 1 + 1
      /\ \A i \in 1 .. (Len(q) - c - 1 + 1) : SubSeq(q, 1, Len(q) - c)[i] = q[1 + i - 1]
  BY <1>2, Slice
<1> DEFINE k == Len(q) - c + 1
<1>5. k \in 0 .. Len(q) /\ Len(q) - k = c - 1 /\ k + 1 = Len(q) - c + 2
  BY <1>1
<1> HIDE DEF k
<1>6. /\ SubSeq(q, k + 1, Len(q)) \in Seq(States)
      /\ Len(SubSeq(q, k + 1, Len(q))) = Len(q) - k
      /\ \A i \in 1 .. (Len(q) - k) : SubSeq(q, k + 1, Len(q))[i] = q[k + i]
  BY <1>5, Suffix
<1>7. /\ SubSeq(q, Len(q) - c + 2, Len(q)) \in Seq(States)
      /\ Len(SubSeq(q, Len(q) - c + 2, Len(q))) = c - 1
      /\ \A i \in 1 .. (c - 1) : SubSeq(q, Len(q) - c + 2, Len(q))[i] = q[Len(q) - c + 1 + i]
  <2> DEFINE IsUpper(x, m) == x \in Seq(States) /\ Len(x) = m /\ \A i \in 1 .. m : x[i] = q[k + i]
  <2>1. IsUpper(SubSeq(q, k + 1, Len(q)), Len(q) - k)
    BY <1>6, Zenon
  <2> HIDE DEF IsUpper
  <2>2. IsUpper(SubSeq(q, Len(q) - c + 2, Len(q)), c - 1)
    BY <1>5, <2>1
  <2> QED
    BY <2>2, Zenon DEF IsUpper, k
<1>8. /\ SubSeq(q, 1, Len(q) - c) \in Seq(States)
      /\ Len(SubSeq(q, 1, Len(q) - c)) = Len(q) - c
      /\ \A i \in 1 .. (Len(q) - c) : SubSeq(q, 1, Len(q) - c)[i] = q[i]
  BY <1>3, <1>4, Zenon
<1> QED
  BY <1>7, <1>8, Zenon

(* The menu offers undo and redo exactly when they lead somewhere.         *)
THEOREM MenuCorrect == Spec => []MenuIsRight
<1>1. Inv => MenuIsRight
  <2> SUFFICES ASSUME Inv PROVE MenuIsRight
    OBVIOUS
  <2> DEFINE q == undoQueue
             c == undo_counter
  <2>1. /\ q \in Seq(States) /\ Len(q) \in Nat /\ c \in Nat
        /\ (q = <<>> <=> Len(q) = 0) /\ PresentIsRecorded
    BY LenProperties, LimitType, EmptySeq DEF Inv, TypeOK
  <2>2. CASE AtTheTip
    BY <2>1, <2>2 DEF AtTheTip, MenuIsRight, CanUndo, CanRedo, Past, Future
  <2>3. CASE ~AtTheTip
    <3>1. c >= 1 /\ c <= Len(q) /\ q # <<>>
      BY <2>1, <2>3 DEF AtTheTip, PresentIsRecorded
    <3>2. /\ Past \in Seq(States) /\ Len(Past) = Len(q) - c
          /\ Future \in Seq(States) /\ Len(Future) = c - 1
      BY <2>1, <2>3, <3>1, Halves DEF Past, Future
    <3>3. (Past = <<>> <=> Len(Past) = 0) /\ (Future = <<>> <=> Len(Future) = 0)
      BY <3>2, EmptySeq
    <3>4. CanUndo(q, c) <=> Past # <<>>
      BY <2>1, <3>1, <3>2, <3>3 DEF CanUndo
    <3>5. CanRedo(q, c) <=> Future # <<>>
      BY <2>1, <3>1, <3>2, <3>3 DEF CanRedo
    <3> QED
      BY <3>4, <3>5 DEF MenuIsRight
  <2> QED
    BY <2>2, <2>3
<1> QED
  BY <1>1, InvInit, InvStep, PTL DEF Spec

-----------------------------------------------------------------------------
(* Each operation of the queue is a step of the history.                   *)
LEMMA EditIsEdit == Inv /\ Edit => History!Edit
<1> SUFFICES ASSUME Inv, Edit PROVE History!Edit
  OBVIOUS
<1> DEFINE d == CutDead(undoQueue, undo_counter)
<1>1. TypeOK /\ PresentIsRecorded /\ current \in States /\ Limit \in Nat /\ Limit >= 2
  BY LimitType DEF Inv, TypeOK
<1>2. /\ d \in Seq(States)
      /\ d = Past \/ (Past \in Seq(States) /\ d = Append(Past, current))
  BY <1>1, CutDeadFacts
<1>3. PICK k \in 0 .. Len(d) : /\ Trim(d) = SubSeq(d, k + 1, Len(d))
                               /\ k > 0 => Len(d) - k = Limit - 1
  BY <1>2, TrimIsSuffix
<1> HIDE DEF d
<1>4. undo_counter' = 0 /\ undoQueue' = Append(Trim(d), current) /\ current' \in States
  BY DEF Edit, AddRecord, Recorded, d
<1>5. Past' = Append(Trim(d), current) /\ Future' = <<>>
  BY <1>4 DEF Past, Future, AtTheTip
<1> DEFINE h == Append(d, current)
<1>6. Past' = SubSeq(h, k + 1, Len(h))
  BY <1>1, <1>2, <1>3, <1>5, AppendToSlice
<1>7. Len(h) = Len(d) + 1 /\ Len(d) \in Nat
  BY <1>1, <1>2, AppendProperties, LenProperties
<1> HIDE DEF h
<1>8. k \in 0 .. Len(h) /\ (k > 0 => Len(h) - k >= Limit)
  BY <1>1, <1>3, <1>7
<1>9. History!Forgets(h, Limit)
  BY <1>6, <1>8 DEF History!Forgets
<1>10. h = Append(Past, current) \/ h = Append(Append(Past, current), current)
  BY <1>2 DEF h
<1> QED
  BY <1>4, <1>5, <1>9, <1>10 DEF History!Edit

LEMMA RedoIsRedo == Inv /\ Redo => History!Redo
<1> SUFFICES ASSUME Inv, Redo PROVE History!Redo
  OBVIOUS
<1> DEFINE q == undoQueue
           c == undo_counter
<1>1. /\ q \in Seq(States) /\ Len(q) \in Nat /\ c \in Nat /\ current \in States
      /\ PresentIsRecorded
  BY LenProperties, LimitType DEF Inv, TypeOK
<1>2. /\ c >= 2 /\ c <= Len(q) /\ undoQueue' = q /\ undo_counter' = c - 1
      /\ current' = q[Len(q) - c + 2] /\ q # <<>>
  BY <1>1, EmptySeq DEF Redo, RedoRecord, CanRedo, RedoTarget
<1>3. /\ Past = SubSeq(q, 1, Len(q) - c)
      /\ Future = SubSeq(q, Len(q) - c + 2, Len(q))
      /\ Past' = SubSeq(q, 1, Len(q) - (c - 1))
      /\ Future' = SubSeq(q, Len(q) - (c - 1) + 2, Len(q))
  BY <1>1, <1>2 DEF Past, Future, AtTheTip
<1>4. q[Len(q) - c + 1] = current
  BY <1>1, <1>2 DEF PresentIsRecorded
<1>5. /\ 1 \in 1 .. Len(q) /\ Len(q) - (c - 1) \in 1 .. Len(q)
      /\ Len(q) - (c - 1) - 1 = Len(q) - c /\ Len(q) - (c - 1) = Len(q) - c + 1
      /\ Len(q) - c + 2 \in 1 .. Len(q) /\ Len(q) \in Len(q) - c + 2 .. Len(q)
      /\ Len(q) - c + 2 + 1 = Len(q) - (c - 1) + 2
  BY <1>1, <1>2
<1>6. Past' = Past \o <<q[Len(q) - (c - 1)]>>
  BY <1>1, <1>3, <1>5, SubSeqRecursiveSecond
<1>0. q \in Seq(States) /\ c \in Nat /\ c >= 1 /\ c <= Len(q)
  BY <1>1, <1>2
<1>7. Past \in Seq(States)
  BY <1>0, <1>3, Halves, Zenon
<1>8. Past' = Append(Past, current)
  BY <1>1, <1>4, <1>5, <1>6, <1>7, AppendIsConcat
<1>9. Head(Future) = current' /\ Tail(Future) = Future'
  <2> DEFINE m == Len(q) - c + 2
  <2>1. q \in Seq(States) /\ m \in 1 .. Len(q) /\ Len(q) \in m .. Len(q)
    BY <1>1, <1>5, Zenon
  <2>2. Future = SubSeq(q, m, Len(q)) /\ q[m] = current' /\ SubSeq(q, m + 1, Len(q)) = Future'
    BY <1>2, <1>3, <1>5, Zenon
  <2> HIDE DEF m
  <2>3. /\ Head(SubSeq(q, m, Len(q))) = q[m]
        /\ Tail(SubSeq(q, m, Len(q))) = SubSeq(q, m + 1, Len(q))
    BY <2>1, HeadTailOfSubSeq, Zenon
  <2> QED
    BY <2>2, <2>3, Zenon
<1>10. Future # <<>>
  <2>1. Len(Future) = c - 1
    BY <1>0, <1>3, Halves, Zenon
  <2> QED
    BY <1>1, <1>2, <2>1, EmptySeq
<1> QED
  BY <1>8, <1>9, <1>10 DEF History!Redo

LEMMA ClearIsForget == Inv /\ Clear => History!Forget
  BY DEF Clear, ClearRecords, History!Forget, Past, Future, AtTheTip

LEMMA AmendIsAmend == Inv /\ Amend => History!Amend
  BY DEF Amend, History!Amend, Past, Future, AtTheTip

(* The first undo step after an edit records the present state itself.     *)
LEMMA FirstUndoIsUndo == Inv /\ Undo /\ undo_counter = 0 => History!Undo
<1> SUFFICES ASSUME Inv, Undo, undo_counter = 0 PROVE History!Undo
  OBVIOUS
<1> DEFINE q == undoQueue
           t == Trim(q)
           r == Append(t, current)
           f == SubSeq(q, 1, Len(q) - 1)
<1>1. /\ TypeOK /\ PresentIsRecorded
      /\ q \in Seq(States) /\ Len(q) \in Nat /\ Len(q) <= Limit + 1
      /\ Limit \in Nat /\ Limit >= 2 /\ current \in States
  BY LenProperties, LimitType DEF Inv, TypeOK
<1>2. /\ CanUndo(q, 0) /\ undoQueue' = r /\ undo_counter' = 2
      /\ current' = UndoTarget /\ Past = q /\ Future = <<>>
  BY DEF Undo, UndoRecord, UndoBase, UndoCounter, Recorded, CutDead, Past, Future, AtTheTip
<1>3. q # <<>> /\ Len(q) >= 1
  BY <1>1, <1>2 DEF CanUndo
<1>4. current' = q[Len(q)]
  BY <1>1, <1>2, UndoBaseFacts
<1>5. PICK k \in 0 .. Len(q) : /\ t = SubSeq(q, k + 1, Len(q))
                               /\ k > 0 => Len(q) - k = Limit - 1
                               /\ k = 0 => Len(q) <= Limit
  BY <1>1, TrimIsSuffix
<1>6. t \in Seq(States) /\ Len(t) = Len(q) - k /\ \A i \in 1 .. (Len(q) - k) : t[i] = q[k + i]
  BY <1>1, <1>5, Suffix
<1>7. k \in Nat /\ k <= Len(q) - 1
  BY <1>1, <1>3, <1>5
<1> HIDE DEF t
<1>8. /\ r \in Seq(States) /\ Len(r) = Len(t) + 1
      /\ \A i \in 1 .. Len(t) : r[i] = t[i]
      /\ r[Len(t) + 1] = current
  BY <1>1, <1>6, AppendProperties
<1> HIDE DEF r
<1>9. 2 \in Nat /\ 2 >= 1 /\ 2 <= Len(r) /\ r # <<>>
  BY <1>1, <1>6, <1>7, <1>8, EmptySeq
<1>10. Past' = SubSeq(r, 1, Len(r) - 2) /\ Future' = SubSeq(r, Len(r) - 2 + 2, Len(r))
  BY <1>2, <1>9 DEF Past, Future, AtTheTip
<1>11. /\ Past' \in Seq(States) /\ Len(Past') = Len(r) - 2
       /\ \A i \in 1 .. (Len(r) - 2) : Past'[i] = r[i]
  BY <1>8, <1>9, <1>10, Halves
<1>12. /\ Future' \in Seq(States) /\ Len(Future') = 2 - 1
       /\ \A i \in 1 .. (2 - 1) : Future'[i] = r[Len(r) - 2 + 1 + i]
  BY <1>8, <1>9, <1>10, Halves
<1>13. Future' = <<current>>
  <2>1. Len(Future') = 1 /\ Len(r) - 2 + 1 + 1 = Len(t) + 1
    BY <1>6, <1>7, <1>1, <1>8, <1>12
  <2>2. Future'[1] = current
    BY <1>8, <1>12, <2>1
  <2>3. <<current>> \in Seq(States) /\ Len(<<current>>) = 1 /\ <<current>>[1] = current
    BY <1>1
  <2>4. \A i \in 1 .. Len(Future') : Future'[i] = <<current>>[i]
    BY <2>1, <2>2, <2>3
  <2> QED
    BY <1>12, <2>1, <2>3, <2>4, SeqEqual
<1>14. <<current>> \o <<>> = <<current>>
  BY <1>1, ConcatEmptySeq
<1>15. f \in Seq(States) /\ Len(f) = Len(q) - 1 /\ \A i \in 1 .. (Len(q) - 1) : f[i] = q[i]
  <2>1. 1 \in 1 .. Len(q) + 1 /\ Len(q) - 1 \in 1 - 1 .. Len(q)
    BY <1>1, <1>3
  <2>2. Len(q) - 1 - 1 + 1 = Len(q) - 1 /\ \A i \in 1 .. (Len(q) - 1) : 1 + i - 1 = i
    BY <1>1
  <2> QED
    BY <1>1, <2>1, <2>2, Slice
<1> HIDE DEF f
<1>16. k \in 0 .. Len(f)
  BY <1>1, <1>7, <1>15
<1>17. /\ SubSeq(f, k + 1, Len(f)) \in Seq(States)
       /\ Len(SubSeq(f, k + 1, Len(f))) = Len(f) - k
       /\ \A i \in 1 .. (Len(f) - k) : SubSeq(f, k + 1, Len(f))[i] = f[k + i]
  BY <1>15, <1>16, Suffix
<1>18. Past' = SubSeq(f, k + 1, Len(f))
  <2>1. Len(Past') = Len(f) - k /\ Len(Past') \in Nat
    BY <1>1, <1>6, <1>7, <1>8, <1>11, <1>15
  <2>2. ASSUME NEW i \in 1 .. Len(Past') PROVE Past'[i] = SubSeq(f, k + 1, Len(f))[i]
    <3> DEFINE n == Len(q) - k
    <3>01. Len(r) = Len(t) + 1 /\ Len(t) = Len(q) - k /\ Len(f) = Len(q) - 1
      BY <1>6, <1>8, <1>15, Zenon
    <3>02. Len(q) \in Nat /\ k \in Nat /\ k <= Len(q) - 1
      BY <1>1, <1>7, Zenon
    <3>1. Len(r) - 2 = n - 1 /\ Len(t) = n /\ Len(f) - k = n - 1 /\ n \in Nat
      BY <3>01, <3>02
    <3>2. i \in 1 .. (n - 1) /\ i \in 1 .. n
      BY <2>1, <3>1
    <3>3. k + i \in 1 .. (Len(q) - 1)
      BY <1>1, <1>7, <3>2
    <3>4. /\ i \in 1 .. (Len(r) - 2) /\ i \in 1 .. Len(t) /\ i \in 1 .. (Len(q) - k)
          /\ i \in 1 .. (Len(f) - k) /\ k + i \in 1 .. (Len(q) - 1)
      BY <3>1, <3>2, <3>3
    <3>5. Past'[i] = q[k + i]
      BY <1>6, <1>8, <1>11, <3>4
    <3>6. SubSeq(f, k + 1, Len(f))[i] = q[k + i]
      BY <1>15, <1>17, <3>4
    <3> QED
      BY <3>5, <3>6
  <2> QED
    BY <1>11, <1>17, <2>1, <2>2, SeqEqual
<1>19. k > 0 => Len(f) - k >= Limit - 2
  BY <1>1, <1>5, <1>7, <1>15
<1>20. History!Forgets(f, Limit - 2)
  BY <1>16, <1>18, <1>19 DEF History!Forgets
<1>21. Front(Past) = f /\ Last(Past) = q[Len(q)]
  BY <1>2 DEF Front, Last, f
<1> QED
  BY <1>2, <1>3, <1>4, <1>13, <1>14, <1>20, <1>21 DEF History!Undo, History!Front, History!Last, Front, Last

LEMMA LaterUndoIsUndo == Inv /\ Undo /\ undo_counter > 0 => History!Undo
<1> SUFFICES ASSUME Inv, Undo, undo_counter > 0 PROVE History!Undo
  OBVIOUS
<1> DEFINE q == undoQueue
           c == undo_counter
           n == Len(q) - c
<1>1. /\ PresentIsRecorded /\ q \in Seq(States) /\ Len(q) \in Nat /\ c \in Nat
      /\ current \in States
  BY LenProperties, LimitType DEF Inv, TypeOK
<1>2. /\ q # <<>> /\ c >= 1 /\ Len(q) >= c + 1 /\ undoQueue' = q
      /\ undo_counter' = c + 1 /\ current' = q[n]
  BY <1>1 DEF Undo, UndoRecord, UndoBase, UndoCounter, UndoTarget, CanUndo
<1>3. q[Len(q) - c + 1] = current
  BY <1>1, <1>2 DEF PresentIsRecorded
<1>4. /\ Past = SubSeq(q, 1, n) /\ Future = SubSeq(q, n + 2, Len(q))
      /\ Past' = SubSeq(q, 1, Len(q) - (c + 1))
      /\ Future' = SubSeq(q, Len(q) - (c + 1) + 2, Len(q))
  BY <1>1, <1>2 DEF Past, Future, AtTheTip
<1>5. /\ Past \in Seq(States) /\ Len(Past) = n /\ \A i \in 1 .. n : Past[i] = q[i]
  <2>1. c <= Len(q)
    BY <1>1, <1>2
  <2> QED
    BY <1>1, <1>2, <1>4, <2>1, Halves, Zenon
<1>6. /\ n \in 1 .. Len(q) /\ n + 1 \in 1 .. Len(q) /\ Len(q) \in n + 1 .. Len(q)
      /\ Len(q) - (c + 1) = n - 1 /\ Len(q) - (c + 1) + 2 = n + 1 /\ n + 1 + 1 = n + 2
      /\ n = Len(q) - c
  BY <1>1, <1>2
<1> HIDE DEF n
<1>7. Future' = <<current>> \o Future
  <2>1. SubSeq(q, n + 1, Len(q)) = <<q[n + 1]>> \o SubSeq(q, n + 1 + 1, Len(q))
    BY <1>1, <1>6, SubSeqRecursiveFirst
  <2> QED
    BY <1>3, <1>4, <1>6, <2>1
<1>8. Past # <<>>
  BY <1>5, <1>6, EmptySeq
<1>9. Last(Past) = current'
  <2>1. Last(Past) = Past[n]
    BY <1>5, Zenon DEF Last
  <2>2. n \in 1 .. n
    BY <1>6
  <2> QED
    BY <1>2, <1>5, <1>6, <2>1, <2>2, Zenon
<1> DEFINE f == SubSeq(Past, 1, n - 1)
<1>10. f = Past'
  <2>1. /\ 1 \in 1 .. Len(q) /\ n \in 1 .. Len(q) /\ 1 \in 1 .. n - 1 + 1
        /\ 1 + (n - 1) - 1 = n - 1
    BY <1>1, <1>6
  <2>2. n - 1 \in 1 - 1 .. Len(Past) /\ 1 \in 1 .. Len(Past) + 1
        /\ n - 1 \in (1 - 1) .. Len(q) /\ 1 \in 1 .. Len(q) + 1
    BY <1>1, <1>5, <1>6
  <2>3. /\ f \in Seq(States) /\ Len(f) = n - 1 - 1 + 1
        /\ \A i \in 1 .. (n - 1 - 1 + 1) : f[i] = Past[1 + i - 1]
    BY <1>5, <2>2, Slice
  <2>4. /\ Past' \in Seq(States) /\ Len(Past') = n - 1 - 1 + 1
        /\ \A i \in 1 .. (n - 1 - 1 + 1) : Past'[i] = q[1 + i - 1]
    <3>1. Past' = SubSeq(q, 1, n - 1)
      BY <1>4, <1>6
    <3> QED
      BY <1>1, <2>2, <3>1, Slice
  <2>5. n - 1 - 1 + 1 = n - 1 /\ \A i \in 1 .. (n - 1) : 1 + i - 1 = i /\ i \in 1 .. n
    BY <1>6
  <2>6. \A i \in 1 .. (n - 1) : f[i] = Past'[i]
    BY <1>5, <2>3, <2>4, <2>5
  <2> HIDE DEF f
  <2> QED
    BY <2>3, <2>4, <2>5, <2>6, SeqEqual
<1>11. Len(f) \in Nat /\ SubSeq(f, 0 + 1, Len(f)) = f
  <2>1. f \in Seq(States)
    <3>1. n - 1 \in 1 - 1 .. Len(Past) /\ 1 \in 1 .. Len(Past) + 1
      BY <1>5, <1>6
    <3> QED
      BY <1>5, <3>1, Slice
  <2> QED
    BY <2>1, LenProperties, SubSeqFull
<1>12. Front(Past) = f
  BY <1>5 DEF Front
<1> HIDE DEF f
<1>13. History!Forgets(f, Limit - 2)
  <2>1. 0 \in 0 .. Len(f)
    BY <1>11
  <2> QED
    BY <1>10, <1>11, <2>1 DEF History!Forgets
<1> QED
  BY <1>7, <1>8, <1>9, <1>12, <1>13 DEF History!Undo, History!Front, History!Last, Front, Last

(* Undo and redo walk a history of which at least Limit states are kept.   *)
THEOREM Refinement == Spec => HistoryRefined
<1>1. Init => History!Init
  BY DEF Init, History!Init, Past, Future, AtTheTip
<1>2. Inv /\ [Next]_vars => [History!Next]_History!vars
  <2>1. CASE Undo
    <3>1. Inv => undo_counter \in Nat
      BY LimitType DEF Inv, TypeOK
    <3> QED
      BY <2>1, <3>1, FirstUndoIsUndo, LaterUndoIsUndo DEF History!Next
  <2>2. CASE Edit \/ Redo \/ Clear \/ Amend
    BY <2>2, EditIsEdit, RedoIsRedo, ClearIsForget, AmendIsAmend DEF History!Next
  <2>3. CASE UNCHANGED vars
    BY <2>3 DEF vars, History!vars, Past, Future, AtTheTip
  <2> QED
    BY <2>1, <2>2, <2>3 DEF Next
<1> QED
  BY <1>1, <1>2, InvInit, InvStep, PTL DEF Spec, HistoryRefined, History!Spec
=============================================================================
