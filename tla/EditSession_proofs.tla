--------------------------- MODULE EditSession_proofs ---------------------------
(***************************************************************************)
(* Proofs about the timeline of Segments and the sessions of EditSession,  *)
(* for all videos and any number of segments, records and edits.           *)
(***************************************************************************)
EXTENDS EditSession, BasicFacts

-----------------------------------------------------------------------------
(* The sums of updateStartTime().                                          *)
LEMMA UntilFacts ==
    ASSUME NEW segs, Len(segs) \in Nat, \A i \in 1 .. Len(segs) : segs[i].dur \in Nat
    PROVE  /\ Until(segs) \in [0 .. Len(segs) -> Nat]
           /\ Until(segs)[0] = 0
           /\ \A i \in 1 .. Len(segs) : Until(segs)[i] = Until(segs)[i - 1] + segs[i].dur
<1> DEFINE n == Len(segs)
           u == Until(segs)
           P(f) == f = [i \in 0 .. n |-> IF i = 0 THEN 0 ELSE f[i - 1] + segs[i].dur]
           h == [i \in 1 .. n |-> [x \in Nat |-> x + segs[i].dur]]
<1>1. u = CHOOSE f : P(f)
  BY Zenon DEF Until
<1>2. \A i \in 1 .. n, x \in Nat : h[i][x] = x + segs[i].dur /\ h[i][x] \in Nat
  OBVIOUS
<1>3. n \in Nat /\ 0 \in Nat
  OBVIOUS
<1> HIDE DEF h, n, u
<1>4. PICK f \in [0 .. n -> Nat] : f[0] = 0 /\ \A i \in 1 .. n : f[i] = h[i][f[i - 1]]
  <2>1. h \in [1 .. n -> [Nat -> Nat]]
    BY <1>2 DEF h
  <2>2. Stepwise(n, Nat, 0, h)
    BY <1>3, <2>1 DEF Stepwise
  <2> QED
    BY <2>2, Recursion
<1>5. \A i \in 1 .. n : i - 1 \in 0 .. n /\ i \in 0 .. n /\ i # 0
  BY <1>3
<1>6. \A i \in 1 .. n : f[i] = f[i - 1] + segs[i].dur
  BY <1>2, <1>4, <1>5
<1>7. \A i \in 0 .. n : i = 0 \/ i \in 1 .. n
  BY <1>3
<1>8. P(f)
  BY <1>4, <1>6, <1>7
<1>9. P(u)
  BY <1>1, <1>8, Zenon
<1>10. DOMAIN u = 0 .. n /\ u = [i \in 0 .. n |-> u[i]]
  BY <1>9
<1>11. \A i \in 0 .. n : u[i] = IF i = 0 THEN 0 ELSE u[i - 1] + segs[i].dur
  BY <1>9, Zenon
<1> HIDE DEF P
<1>12. u[0] = 0 /\ \A i \in 1 .. n : u[i] = u[i - 1] + segs[i].dur
  BY <1>3, <1>5, <1>11
<1>13. \A i \in 0 .. n : u[i] = f[i]
  <2>1. u[0] = f[0] /\ \A i \in 1 .. n : u[i - 1] = f[i - 1] => u[i] = f[i]
    BY <1>4, <1>6, <1>12
  <2> DEFINE Q == {i \in 0 .. n : u[i] = f[i]}
  <2>2. 0 \in Q /\ \A i \in 1 .. n : i - 1 \in Q => i \in Q
    BY <1>3, <1>5, <2>1
  <2> HIDE DEF Q
  <2>3. \A i \in 0 .. n : i \in Q
    BY <1>3, <2>2, Induction
  <2> QED
    BY <2>3 DEF Q
<1>14. u \in [0 .. n -> Nat]
  BY <1>4, <1>10, <1>13
<1> QED
  BY <1>12, <1>14 DEF u, n

LEMMA SegmentParts ==
    ASSUME NEW segs \in Seq(Segment)
    PROVE  /\ Len(segs) \in Nat /\ DOMAIN segs = 1 .. Len(segs)
           /\ \A i \in 1 .. Len(segs) :
                 /\ segs[i] \in Segment /\ segs[i].ref \in Videos /\ segs[i].refStart \in Nat
                 /\ segs[i].start \in Nat /\ segs[i].dur \in Nat
<1>1. Len(segs) \in Nat /\ DOMAIN segs = 1 .. Len(segs) /\ \A i \in 1 .. Len(segs) : segs[i] \in Segment
  BY LenProperties, ElementOfSeq
<1> QED
  BY <1>1 DEF Segment

LEMMA UntilParts ==
    ASSUME NEW segs \in Seq(Segment)
    PROVE  /\ \A i \in 0 .. Len(segs) : Until(segs)[i] \in Nat
           /\ Total(segs) \in Nat
           /\ Until(segs)[0] = 0
           /\ \A i \in 1 .. Len(segs) : Until(segs)[i] = Until(segs)[i - 1] + segs[i].dur
<1>1. Len(segs) \in Nat /\ \A i \in 1 .. Len(segs) : segs[i].dur \in Nat
  BY SegmentParts
<1>2. /\ Until(segs) \in [0 .. Len(segs) -> Nat]
      /\ Until(segs)[0] = 0
      /\ \A i \in 1 .. Len(segs) : Until(segs)[i] = Until(segs)[i - 1] + segs[i].dur
  BY <1>1, UntilFacts
<1>3. Len(segs) \in 0 .. Len(segs)
  BY <1>1
<1> QED
  BY <1>2, <1>3 DEF Total

(* The sums depend on nothing but the durations.                           *)
LEMMA SameUntil ==
    ASSUME NEW a \in Seq(Segment), NEW b \in Seq(Segment), NEW n \in Nat,
           n <= Len(a), n <= Len(b), \A i \in 1 .. n : a[i].dur = b[i].dur
    PROVE  \A i \in 0 .. n : Until(a)[i] = Until(b)[i]
<1> DEFINE Q == {i \in 0 .. n : Until(a)[i] = Until(b)[i]}
<1>1. Len(a) \in Nat /\ Len(b) \in Nat
  BY SegmentParts
<1>2. /\ Until(a)[0] = 0 /\ Until(b)[0] = 0
      /\ \A i \in 1 .. Len(a) : Until(a)[i] = Until(a)[i - 1] + a[i].dur
      /\ \A i \in 1 .. Len(b) : Until(b)[i] = Until(b)[i - 1] + b[i].dur
  BY UntilParts
<1>3. \A i \in 1 .. n : i \in 1 .. Len(a) /\ i \in 1 .. Len(b) /\ i \in 0 .. n
  BY <1>1
<1>4. 0 \in 0 .. n
  OBVIOUS
<1>5. \A i \in 1 .. n : Until(a)[i - 1] = Until(b)[i - 1] => Until(a)[i] = Until(b)[i]
  BY <1>2, <1>3
<1>6. 0 \in Q /\ \A i \in 1 .. n : i - 1 \in Q => i \in Q
  BY <1>2, <1>3, <1>4, <1>5
<1> HIDE DEF Q
<1>7. \A i \in 0 .. n : i \in Q
  BY <1>6, Induction
<1> QED
  BY <1>7 DEF Q

-----------------------------------------------------------------------------
(* What the timeline and the clipboard are made of: sets of segments that  *)
(* hold a segment wherever it begins, and, if it is divided, its parts.    *)
MovedTo(s, t) == [s EXCEPT !.start = t]

Movable(S) ==
    /\ S \subseteq Segment
    /\ \A s \in S, t \in Nat : MovedTo(s, t) \in S

Divisible(S) ==
    /\ Movable(S)
    /\ \A s \in S, t \in Nat : s.start <= t /\ t <= End(s) => Upto(s, t) \in S /\ From(s, t) \in S

(* Every segment begins where the sums say.                                *)
InTime(segs) == segs = Retimed(segs)

(* Something of the timeline remains when empty segments are removed.      *)
Solid(segs) == \E i \in DOMAIN segs : ~IsEmptySegment(segs[i])

LEMMA MovableSeq ==
    ASSUME NEW S, Movable(S), NEW segs \in Seq(S)
    PROVE  segs \in Seq(Segment)
<1>1. S \subseteq Segment
  BY DEF Movable
<1> QED
  BY <1>1, SeqMonotonic

(* Moving a segment changes nothing else of it.                            *)
LEMMA MovedParts ==
    ASSUME NEW s \in Segment, NEW t \in Nat
    PROVE  /\ MovedTo(s, t) \in Segment
           /\ MovedTo(s, t).ref = s.ref /\ MovedTo(s, t).refStart = s.refStart
           /\ MovedTo(s, t).dur = s.dur /\ MovedTo(s, t).start = t
           /\ IsEmptySegment(MovedTo(s, t)) <=> IsEmptySegment(s)
<1> DEFINE m == MovedTo(s, t)
<1>1. m \in Segment /\ m.ref = s.ref /\ m.refStart = s.refStart /\ m.dur = s.dur /\ m.start = t
  BY DEF Segment, MovedTo
<1> HIDE DEF m
<1>2. IsEmptySegment(m) <=> IsEmptySegment(s)
  BY <1>1 DEF IsEmptySegment
<1> QED
  BY <1>1, <1>2 DEF m

LEMMA RetimedFacts ==
    ASSUME NEW S, Movable(S), NEW segs \in Seq(S)
    PROVE  /\ Retimed(segs) \in Seq(S)
           /\ Len(Retimed(segs)) = Len(segs)
           /\ \A i \in 1 .. Len(segs) : Retimed(segs)[i] = MovedTo(segs[i], Until(segs)[i - 1])
           /\ \A i \in 0 .. Len(segs) : Until(Retimed(segs))[i] = Until(segs)[i]
<1> DEFINE n == Len(segs)
           r == Retimed(segs)
<1>1. segs \in Seq(Segment)
  BY MovableSeq
<1>2. n \in Nat /\ DOMAIN segs = 1 .. n
  BY <1>1, SegmentParts
<1>3. \A i \in 1 .. n : i - 1 \in 0 .. n
  BY <1>2
<1>4. \A i \in 1 .. n : Until(segs)[i - 1] \in Nat
  BY <1>1, <1>3, UntilParts
<1>5. r = [i \in 1 .. n |-> MovedTo(segs[i], Until(segs)[i - 1])]
  BY <1>2 DEF Retimed, MovedTo
<1> HIDE DEF r
<1>6. \A i \in 1 .. n : r[i] = MovedTo(segs[i], Until(segs)[i - 1])
  BY <1>5
<1>7. \A i \in 1 .. n : segs[i] \in S /\ segs[i] \in Segment
  BY <1>1, ElementOfSeq
<1>8. \A i \in 1 .. n : r[i] \in S
  BY <1>4, <1>6, <1>7 DEF Movable
<1>9. r = [i \in 1 .. n |-> r[i]]
  BY <1>5
<1>10. r \in Seq(S)
  BY <1>2, <1>8, <1>9, IsASeq
<1>11. Len(r) = n
  <2>1. DOMAIN r = 1 .. n
    BY <1>9
  <2>2. DOMAIN r = 1 .. Len(r) /\ Len(r) \in Nat
    BY <1>10, LenProperties
  <2> QED
    BY <1>2, <2>1, <2>2
<1>12. ASSUME NEW i \in 1 .. n PROVE r[i].dur = segs[i].dur
  <2>1. segs[i] \in Segment /\ Until(segs)[i - 1] \in Nat
    BY <1>4, <1>7
  <2>2. MovedTo(segs[i], Until(segs)[i - 1]).dur = segs[i].dur
    BY <2>1, MovedParts
  <2> QED
    BY <1>6, <2>2
<1>13. r \in Seq(Segment)
  BY <1>10, MovableSeq
<1>14. \A i \in 0 .. n : Until(r)[i] = Until(segs)[i]
  <2>1. n <= Len(r) /\ n <= Len(segs)
    BY <1>2, <1>11
  <2> HIDE DEF n
  <2> QED
    BY <1>1, <1>2, <1>12, <1>13, <2>1, SameUntil
<1> QED
  BY <1>6, <1>10, <1>11, <1>14 DEF r

(* Where the segments of such a timeline begin and end.                    *)
LEMMA TimedParts ==
    ASSUME NEW segs \in Seq(Segment), InTime(segs)
    PROVE  \A i \in 1 .. Len(segs) :
              segs[i].start = Until(segs)[i - 1] /\ End(segs[i]) = Until(segs)[i]
<1> SUFFICES ASSUME NEW i \in 1 .. Len(segs)
             PROVE  segs[i].start = Until(segs)[i - 1] /\ End(segs[i]) = Until(segs)[i]
  OBVIOUS
<1>1. Movable(Segment)
  BY MovedParts DEF Movable
<1>2. segs[i] = MovedTo(segs[i], Until(segs)[i - 1])
  BY <1>1, RetimedFacts DEF InTime
<1>3. segs[i] \in Segment /\ i - 1 \in 0 .. Len(segs)
  BY SegmentParts
<1>4. Until(segs)[i - 1] \in Nat /\ Until(segs)[i] = Until(segs)[i - 1] + segs[i].dur
  BY <1>3, UntilParts
<1>5. MovedTo(segs[i], Until(segs)[i - 1]).start = Until(segs)[i - 1]
  BY <1>3, <1>4, MovedParts
<1>6. segs[i].start = Until(segs)[i - 1]
  BY <1>2, <1>5
<1> QED
  BY <1>4, <1>6 DEF End

(* The times are right after updateStartTime(), and stay right if it is    *)
(* called again.                                                           *)
LEMMA RetimedInTime ==
    ASSUME NEW S, Movable(S), NEW segs \in Seq(S)
    PROVE  /\ InTime(Retimed(segs))
           /\ Total(Retimed(segs)) = Total(segs)
           /\ Solid(segs) => Solid(Retimed(segs))
           /\ segs # <<>> => Retimed(segs) # <<>>
<1> DEFINE n == Len(segs)
           r == Retimed(segs)
<1>1. segs \in Seq(Segment)
  BY MovableSeq
<1>2. n \in Nat /\ DOMAIN segs = 1 .. n
  BY <1>1, SegmentParts
<1>3. /\ r \in Seq(S) /\ Len(r) = n
      /\ \A i \in 1 .. n : r[i] = MovedTo(segs[i], Until(segs)[i - 1])
      /\ \A i \in 0 .. n : Until(r)[i] = Until(segs)[i]
  BY RetimedFacts
<1> HIDE DEF r
<1>4. /\ Retimed(r) \in Seq(S) /\ Len(Retimed(r)) = n
      /\ \A i \in 1 .. n : Retimed(r)[i] = MovedTo(r[i], Until(r)[i - 1])
  BY <1>3, RetimedFacts
<1>5. \A i \in 1 .. n : i - 1 \in 0 .. n
  BY <1>2
<1>6. ASSUME NEW i \in 1 .. n PROVE Retimed(r)[i] = r[i]
  <2>1. Retimed(r)[i] = MovedTo(r[i], Until(segs)[i - 1])
    BY <1>3, <1>4, <1>5
  <2>2. r[i] = MovedTo(segs[i], Until(segs)[i - 1])
    BY <1>3
  <2> QED
    BY <2>1, <2>2, Zenon DEF MovedTo
<1>7. r = Retimed(r)
  BY <1>3, <1>4, <1>6, SeqEqual
<1>8. Total(r) = Total(segs)
  <2>1. n \in 0 .. n
    BY <1>2
  <2> QED
    BY <1>3, <2>1 DEF Total
<1>9. ASSUME Solid(segs) PROVE Solid(r)
  <2>1. PICK i \in 1 .. n : ~IsEmptySegment(segs[i])
    BY <1>2, <1>9 DEF Solid
  <2>2. segs[i] \in Segment /\ Until(segs)[i - 1] \in Nat
    BY <1>1, <1>5, SegmentParts, UntilParts
  <2>3. ~IsEmptySegment(r[i])
    <3>1. ~IsEmptySegment(MovedTo(segs[i], Until(segs)[i - 1]))
      BY <2>1, <2>2, MovedParts
    <3>2. r[i] = MovedTo(segs[i], Until(segs)[i - 1])
      BY <1>3
    <3> QED
      BY <3>1, <3>2
  <2>4. DOMAIN r = 1 .. n
    BY <1>3, LenProperties
  <2> QED
    BY <2>3, <2>4 DEF Solid
<1>10. segs # <<>> => r # <<>>
  BY <1>3, EmptySeq
<1> QED
  BY <1>7, <1>8, <1>9, <1>10 DEF r, InTime

-----------------------------------------------------------------------------
(* convertLinearTimeToSeg(): every time before the end is held by a        *)
(* segment.                                                                *)
LEMMA SomeHolds ==
    ASSUME NEW segs \in Seq(Segment), InTime(segs), NEW t \in Nat, t < Total(segs)
    PROVE  Holding(segs, t) # {}
<1> DEFINE n == Len(segs)
           late == {i \in 0 .. n : t < Until(segs)[i]}
<1>1. n \in Nat /\ DOMAIN segs = 1 .. n
  BY SegmentParts
<1>2. Until(segs)[0] = 0 /\ \A i \in 0 .. n : Until(segs)[i] \in Nat
  BY UntilParts
<1> HIDE DEF n
<1>3. n \in late /\ late \in SUBSET Nat
  BY <1>1 DEF Total, n
<1>4. PICK m \in late : \A i \in late : m <= i
  BY <1>3, Smallest
<1>5. m \in 1 .. n /\ m - 1 \in 0 .. n /\ ~(m <= m - 1)
  <2>1. m # 0
    BY <1>2
  <2> QED
    BY <1>1, <2>1
<1>6. m - 1 \notin late
  BY <1>4, <1>5
<1>7. ~(t < Until(segs)[m - 1]) /\ t < Until(segs)[m]
  BY <1>5, <1>6
<1>8. segs[m].start = Until(segs)[m - 1] /\ End(segs[m]) = Until(segs)[m]
  BY <1>5, TimedParts DEF n
<1>9. segs[m].start <= t /\ t < End(segs[m])
  BY <1>2, <1>5, <1>7, <1>8
<1>10. m \in Holding(segs, t)
  BY <1>1, <1>5, <1>9 DEF Holding
<1> QED
  BY <1>10

LEMMA FirstHolding ==
    ASSUME NEW segs \in Seq(Segment), NEW t \in Nat, Holding(segs, t) # {}
    PROVE  Min(Holding(segs, t)) \in Holding(segs, t)
<1> DEFINE H == Holding(segs, t)
<1>1. H \in SUBSET Nat
  BY SegmentParts DEF Holding
<1> HIDE DEF H
<1>2. PICK m \in H : \A i \in H : m <= i
  BY <1>1, Smallest DEF H
<1>3. Min(H) \in H
  BY <1>2, Zenon DEF Min
<1> QED
  BY <1>3 DEF H

LEMMA SegAtParts ==
    ASSUME NEW segs \in Seq(Segment), InTime(segs), NEW t \in Nat
    PROVE  LET i == SegAt(segs, t)
           IN  /\ i \in 0 .. Len(segs)
               /\ i # 0 => /\ i \in DOMAIN segs
                           /\ segs[i].start <= t /\ t <= End(segs[i])
                           /\ t < Total(segs) => t < End(segs[i]) \/ t = 0
               /\ segs # <<>> /\ t <= Total(segs) => i # 0
<1> DEFINE n == Len(segs)
           at == SegAt(segs, t)
<1>1. n \in Nat /\ DOMAIN segs = 1 .. n /\ (segs # <<>> => n > 0)
  BY SegmentParts, EmptySeq
<1>2. Until(segs)[0] = 0 /\ \A i \in 0 .. n : Until(segs)[i] \in Nat
  BY UntilParts
<1>3. \A i \in 1 .. n : segs[i].start = Until(segs)[i - 1] /\ End(segs[i]) = Until(segs)[i]
  BY TimedParts
<1>4. CASE t = 0 /\ segs # <<>>
  <2>1. at = 1
    BY <1>4 DEF SegAt
  <2>2. 1 \in 1 .. n /\ 1 \in 0 .. n /\ 1 - 1 = 0
    BY <1>1, <1>4
  <2>3. segs[1].start = 0 /\ End(segs[1]) \in Nat
    BY <1>2, <1>3, <2>2
  <2> QED
    BY <1>1, <1>4, <2>1, <2>2, <2>3
<1>5. CASE t > 0 /\ Holding(segs, t) # {}
  <2>1. at = Min(Holding(segs, t))
    BY <1>5 DEF SegAt
  <2>2. at \in Holding(segs, t)
    BY <1>5, <2>1, FirstHolding
  <2> HIDE DEF at
  <2>3. at \in 1 .. n /\ segs[at].start <= t /\ t < End(segs[at])
    BY <1>1, <2>2 DEF Holding
  <2>4. End(segs[at]) \in Nat
    BY <1>2, <1>3, <2>3
  <2> QED
    BY <1>1, <2>3, <2>4 DEF at
<1>6. CASE t > 0 /\ Holding(segs, t) = {} /\ segs # <<>> /\ End(Last(segs)) = t
  <2>0. t # 0
    BY <1>6
  <2>1. at = n
    BY <1>6, <2>0, Zenon DEF SegAt
  <2>2. n \in 1 .. n /\ n - 1 \in 0 .. n
    BY <1>1, <1>6
  <2>3. End(segs[n]) = t
    BY <1>6 DEF Last
  <2>4. segs[n].start <= t
    BY <2>2, <2>3, SegmentParts DEF End
  <2>5. ~(t < Total(segs))
    BY <1>6, SomeHolds
  <2> HIDE DEF at, n
  <2> QED
    BY <1>1, <2>1, <2>2, <2>3, <2>4, <2>5 DEF at, n
<1>7. CASE t > 0 /\ Holding(segs, t) = {} /\ ~(segs # <<>> /\ End(Last(segs)) = t)
  <2>0. t # 0
    BY <1>7
  <2>1. at = 0
    BY <1>7, <2>0, Zenon DEF SegAt
  <2>2. segs # <<>> => End(segs[n]) = Total(segs)
    BY <1>1, <1>3 DEF Total
  <2>3. segs # <<>> => Total(segs) # t
    BY <1>7, <2>2 DEF Last
  <2>4. ~(t < Total(segs))
    BY <1>7, SomeHolds
  <2>5. ~(segs # <<>> /\ t <= Total(segs))
    BY <2>3, <2>4, UntilParts
  <2> QED
    BY <1>1, <2>1, <2>5
<1>8. CASE t = 0 /\ segs = <<>>
  <2>1. at = 0
    BY <1>8 DEF SegAt
  <2> QED
    BY <1>1, <1>8, <2>1
<1> QED
  BY <1>4, <1>5, <1>6, <1>7, <1>8

-----------------------------------------------------------------------------
(* Those members of a sequence that are in a set.                          *)
Choosing(u, s, S) ==
    /\ Chosen(s, S) = u[Len(s)]
    /\ u[0] = <<>>
    /\ \A i \in 1 .. Len(s) : u[i] = IF s[i] \in S THEN Append(u[i - 1], s[i]) ELSE u[i - 1]

LEMMA ChosenSteps == ASSUME NEW T, NEW s \in Seq(T), NEW S PROVE \E u : Choosing(u, s, S)
<1> DEFINE n == Len(s)
           R == Seq(T)
           step(i, x) == IF s[i] \in S THEN Append(x, s[i]) ELSE x
           P(f) == f = [i \in 0 .. n |-> IF i = 0 THEN <<>> ELSE step(i, f[i - 1])]
           u == CHOOSE f : P(f)
           h == [i \in 1 .. n |-> [x \in R |-> step(i, x)]]
<1>1. Chosen(s, S) = u[n]
  BY Zenon DEF Chosen
<1>2. n \in Nat /\ <<>> \in R
  BY LenProperties, EmptySeq
<1>3. ASSUME NEW i \in 1 .. n, NEW x \in R PROVE step(i, x) \in R
  BY ElementOfSeq, AppendProperties
<1> HIDE DEF R, n, step
<1>4. \A i \in 1 .. n, x \in R : h[i][x] = step(i, x) /\ h[i][x] \in R
  BY <1>3
<1> HIDE DEF h
<1>5. PICK f \in [0 .. n -> R] : f[0] = <<>> /\ \A i \in 1 .. n : f[i] = h[i][f[i - 1]]
  <2>1. h \in [1 .. n -> [R -> R]]
    BY <1>4 DEF h
  <2>2. Stepwise(n, R, <<>>, h)
    BY <1>2, <2>1 DEF Stepwise
  <2> QED
    BY <2>2, Recursion
<1>6. \A i \in 1 .. n : i - 1 \in 0 .. n /\ i \in 0 .. n /\ i # 0
  BY <1>2
<1>7. \A i \in 1 .. n : f[i] = step(i, f[i - 1])
  BY <1>4, <1>5, <1>6
<1>8. \A i \in 0 .. n : i = 0 \/ i \in 1 .. n
  BY <1>2
<1>9. P(f)
  BY <1>5, <1>7, <1>8
<1>10. P(u)
  BY <1>9, Zenon
<1> HIDE DEF u
<1>11. \A i \in 0 .. n : u[i] = IF i = 0 THEN <<>> ELSE step(i, u[i - 1])
  BY <1>10, Zenon
<1> HIDE DEF P
<1>12. u[0] = <<>> /\ \A i \in 1 .. n : u[i] = step(i, u[i - 1])
  BY <1>2, <1>6, <1>11
<1>13. Choosing(u, s, S)
  BY <1>1, <1>12 DEF n, step, Choosing
<1> QED
  BY <1>13, Zenon

LEMMA ChosenGrows ==
    ASSUME NEW T, NEW q \in Seq(T), NEW e \in T, NEW S
    PROVE  /\ Chosen(<<>>, S) = <<>>
           /\ Chosen(q \o <<e>>, S) = IF e \in S THEN Append(Chosen(q, S), e) ELSE Chosen(q, S)
<1> DEFINE n == Len(q)
           g == q \o <<e>>
<1>1. /\ n \in Nat /\ g \in Seq(T) /\ Len(g) = n + 1 /\ g[n + 1] = e
      /\ \A i \in 1 .. n : g[i] = q[i]
  BY AppendIsConcat, AppendProperties, LenProperties
<1>2. <<>> \in Seq(T) /\ Len(<<>>) = 0
  BY EmptySeq
<1>3. PICK z : Choosing(z, <<>>, S)
  BY <1>2, ChosenSteps
<1>4. Chosen(<<>>, S) = <<>>
  BY <1>2, <1>3 DEF Choosing
<1>5. PICK u : Choosing(u, q, S)
  BY ChosenSteps
<1> HIDE DEF g
<1>6. PICK w : Choosing(w, g, S)
  BY <1>1, ChosenSteps
<1>7. /\ Chosen(q, S) = u[n] /\ u[0] = <<>>
      /\ \A i \in 1 .. n : u[i] = IF q[i] \in S THEN Append(u[i - 1], q[i]) ELSE u[i - 1]
  BY <1>5 DEF Choosing
<1> HIDE DEF n
<1> DEFINE m == n + 1
<1>8. /\ Chosen(g, S) = w[m] /\ w[0] = <<>> /\ g[m] = e
      /\ \A i \in 1 .. m : w[i] = IF g[i] \in S THEN Append(w[i - 1], g[i]) ELSE w[i - 1]
  BY <1>1, <1>6 DEF Choosing
<1> HIDE DEF m
<1> DEFINE Q == {i \in 0 .. n : w[i] = u[i]}
<1>9. 0 \in Q
  BY <1>1, <1>7, <1>8
<1>10. ASSUME NEW i \in 1 .. n, i - 1 \in Q PROVE i \in Q
  <2>1. i \in 0 .. n /\ i \in 1 .. m
    BY <1>1 DEF m
  <2>2. w[i - 1] = u[i - 1] /\ g[i] = q[i]
    BY <1>1, <1>10
  <2>3. w[i] = IF g[i] \in S THEN Append(w[i - 1], g[i]) ELSE w[i - 1]
    BY <1>8, <2>1
  <2>4. u[i] = IF q[i] \in S THEN Append(u[i - 1], q[i]) ELSE u[i - 1]
    BY <1>7
  <2> QED
    BY <2>1, <2>2, <2>3, <2>4
<1> HIDE DEF Q
<1>11. \A i \in 0 .. n : i \in Q
  BY <1>1, <1>9, <1>10, Induction
<1>12. w[n] = u[n]
  <2>1. n \in Q
    BY <1>1, <1>11
  <2> QED
    BY <2>1 DEF Q
<1>13. w[m] = IF e \in S THEN Append(w[n], e) ELSE w[n]
  <2>1. m \in 1 .. m /\ m - 1 = n
    BY <1>1 DEF m
  <2> QED
    BY <1>8, <2>1
<1> QED
  BY <1>4, <1>7, <1>8, <1>12, <1>13 DEF g

(* Of a sequence with one member.                                          *)
LEMMA ChosenOne ==
    ASSUME NEW e, NEW S
    PROVE  Chosen(<<e>>, S) = IF e \in S THEN <<e>> ELSE <<>>
<1>1. <<>> \in Seq({e}) /\ e \in {e} /\ <<>> \o <<e>> = <<e>> /\ Append(<<>>, e) = <<e>>
  OBVIOUS
<1>2. Chosen(<<>> \o <<e>>, S) = IF e \in S THEN Append(Chosen(<<>>, S), e) ELSE Chosen(<<>>, S)
  BY <1>1, ChosenGrows
<1>3. Chosen(<<>>, S) = <<>>
  BY <1>1, ChosenGrows
<1> QED
  BY <1>1, <1>2, <1>3

LEMMA ChosenNone == ASSUME NEW S PROVE Chosen(<<>>, S) = <<>>
<1>1. <<>> \in Seq({1}) /\ 1 \in {1}
  OBVIOUS
<1> QED
  BY <1>1, ChosenGrows

LEMMA ChosenType ==
    ASSUME NEW T, NEW q \in Seq(T), NEW S
    PROVE  Chosen(q, S) \in Seq(T \cap S) /\ Chosen(q, S) \in Seq(T)
<1> DEFINE P == {s \in Seq(T) : Chosen(s, S) \in Seq(T \cap S)}
<1>1. <<>> \in P
  BY ChosenNone, EmptySeq
<1>2. ASSUME NEW s \in Seq(T), NEW e \in T, s \in P PROVE s \o <<e>> \in P
  <2>1. Chosen(s, S) \in Seq(T \cap S) /\ s \o <<e>> \in Seq(T)
    BY <1>2
  <2>2. Chosen(s \o <<e>>, S) = IF e \in S THEN Append(Chosen(s, S), e) ELSE Chosen(s, S)
    BY ChosenGrows
  <2>3. e \in S => e \in T \cap S
    OBVIOUS
  <2>4. e \in S => Append(Chosen(s, S), e) \in Seq(T \cap S)
    BY <2>1, <2>3, AppendProperties
  <2> QED
    BY <2>1, <2>2, <2>4, Zenon
<1> HIDE DEF P
<1>3. q \in P
  BY <1>1, <1>2, Growing
<1>4. T \cap S \subseteq T
  OBVIOUS
<1> QED
  BY <1>3, <1>4, SeqMonotonic DEF P

LEMMA ChosenJoined ==
    ASSUME NEW T, NEW a \in Seq(T), NEW b \in Seq(T), NEW S
    PROVE  Chosen(a \o b, S) = Chosen(a, S) \o Chosen(b, S)
<1> DEFINE P == {s \in Seq(T) : Chosen(a \o s, S) = Chosen(a, S) \o Chosen(s, S)}
<1>1. <<>> \in P
  <2>1. a \o <<>> = a /\ <<>> \in Seq(T)
    BY ConcatEmptySeq, EmptySeq
  <2>2. Chosen(a, S) \o <<>> = Chosen(a, S)
    BY ChosenType, ConcatEmptySeq
  <2> QED
    BY <2>1, <2>2, ChosenNone
<1>2. ASSUME NEW s \in Seq(T), NEW e \in T, s \in P PROVE s \o <<e>> \in P
  <2> DEFINE A == Chosen(a, S)
             C == Chosen(s, S)
             x == a \o s
             y == s \o <<e>>
  <2>1. A \in Seq(T) /\ C \in Seq(T) /\ Chosen(x, S) = A \o C
    BY <1>2, ChosenType
  <2>2. x \in Seq(T) /\ y \in Seq(T)
    OBVIOUS
  <2>3. a \o y = x \o <<e>>
    BY JoinedThen
  <2>4. Chosen(y, S) = IF e \in S THEN Append(C, e) ELSE C
    BY ChosenGrows
  <2> HIDE DEF A, C, x, y
  <2>5. Chosen(x \o <<e>>, S) = IF e \in S THEN Append(Chosen(x, S), e) ELSE Chosen(x, S)
    <3> DEFINE G(v) == Chosen(v \o <<e>>, S) = IF e \in S THEN Append(Chosen(v, S), e) ELSE Chosen(v, S)
               W == Seq(T)
    <3>1. \A v \in W : G(v)
      BY ChosenGrows
    <3>2. x \in W
      BY <2>2, Zenon
    <3> HIDE DEF G, W
    <3>3. G(x)
      BY <3>1, <3>2, Zenon
    <3> QED
      BY <3>3, Zenon DEF G
  <2>6. A \o Append(C, e) = Append(A \o C, e)
    <3> DEFINE G(v, w) == v \o Append(w, e) = Append(v \o w, e)
               W == Seq(T)
    <3>1. \A v, w \in W : G(v, w)
      BY JoinedThen
    <3>2. A \in W /\ C \in W
      BY <2>1, Zenon
    <3> HIDE DEF G, W
    <3>3. G(A, C)
      BY <3>1, <3>2, Zenon
    <3> QED
      BY <3>3, Zenon DEF G
  <2>7. Chosen(a \o y, S) = A \o Chosen(y, S)
    BY <2>1, <2>3, <2>4, <2>5, <2>6, Zenon
  <2> QED
    BY <2>2, <2>7 DEF A, y
<1> HIDE DEF P
<1>3. b \in P
  BY <1>1, <1>2, Growing
<1> QED
  BY <1>3 DEF P

-----------------------------------------------------------------------------
(* removeEmptySegments().                                                  *)
Lasting == {s \in Segment : ~IsEmptySegment(s)}

LEMMA NoEmptyJoined ==
    ASSUME NEW a \in Seq(Segment), NEW b \in Seq(Segment)
    PROVE  NoEmpty(a \o b) = NoEmpty(a) \o NoEmpty(b)
<1>1. \A q : NoEmpty(q) = Chosen(q, Lasting)
  BY Zenon DEF NoEmpty, Lasting
<1>2. Chosen(a \o b, Lasting) = Chosen(a, Lasting) \o Chosen(b, Lasting)
  BY ChosenJoined
<1> QED
  BY <1>1, <1>2, Zenon

LEMMA NoEmptySingle ==
    ASSUME NEW s \in Segment
    PROVE  NoEmpty(<<s>>) = IF IsEmptySegment(s) THEN <<>> ELSE <<s>>
BY ChosenOne DEF NoEmpty

LEMMA NoEmptyType ==
    ASSUME NEW S, S \subseteq Segment, NEW segs \in Seq(S)
    PROVE  /\ NoEmpty(segs) \in Seq({s \in S : ~IsEmptySegment(s)})
           /\ NoEmpty(segs) \in Seq(S)
           /\ NoEmpty(<<>>) = <<>>
<1>1. S \cap Lasting = {s \in S : ~IsEmptySegment(s)}
  BY DEF Lasting
<1>2. \A q : NoEmpty(q) = Chosen(q, Lasting)
  BY Zenon DEF NoEmpty, Lasting
<1>3. Chosen(segs, Lasting) \in Seq(S \cap Lasting) /\ Chosen(segs, Lasting) \in Seq(S)
  BY ChosenType
<1> HIDE DEF Lasting
<1> QED
  BY <1>1, <1>2, <1>3, ChosenNone

LEMMA SolidGrown ==
    ASSUME NEW S, NEW q \in Seq(S), NEW e \in S, Solid(q \o <<e>>)
    PROVE  Solid(q) \/ ~IsEmptySegment(e)
<1> DEFINE g == q \o <<e>>
           n == Len(q)
<1>1. /\ n \in Nat /\ DOMAIN q = 1 .. n /\ DOMAIN g = 1 .. (n + 1)
      /\ \A i \in 1 .. n : g[i] = q[i]
      /\ g[n + 1] = e
  BY OneAppended, AppendIsConcat
<1> HIDE DEF g, n
<1>2. PICK i \in DOMAIN g : ~IsEmptySegment(g[i])
  BY DEF Solid, g
<1>3. i \in 1 .. n \/ i = n + 1
  BY <1>1
<1> QED
  BY <1>1, <1>2, <1>3 DEF Solid

LEMMA NoEmptyFacts ==
    ASSUME NEW S, Movable(S), NEW segs \in Seq(S)
    PROVE  /\ NoEmpty(segs) \in Seq({s \in S : ~IsEmptySegment(s)})
           /\ Solid(segs) => NoEmpty(segs) # <<>>
<1> DEFINE P == {q \in Seq(S) : Solid(q) => NoEmpty(q) # <<>>}
<1>1. S \subseteq Segment
  BY DEF Movable
<1>2. <<>> \in P
  BY EmptySeq DEF Solid
<1>3. ASSUME NEW q \in Seq(S), NEW e \in S, q \in P PROVE q \o <<e>> \in P
  <2>1. q \o <<e>> \in Seq(S) /\ <<e>> \in Seq(S)
    OBVIOUS
  <2>2. q \in Seq(Segment) /\ <<e>> \in Seq(Segment) /\ e \in Segment
    BY <1>1, <2>1, SeqMonotonic
  <2>3. NoEmpty(q \o <<e>>) = NoEmpty(q) \o NoEmpty(<<e>>)
    BY <2>2, NoEmptyJoined
  <2>4. NoEmpty(<<e>>) = IF IsEmptySegment(e) THEN <<>> ELSE <<e>>
    BY <2>2, NoEmptySingle
  <2>5. NoEmpty(q) \in Seq(Segment) /\ NoEmpty(<<e>>) \in Seq(Segment)
    BY <2>2, NoEmptyType
  <2>6. NoEmpty(q \o <<e>>) = <<>> => NoEmpty(q) = <<>> /\ NoEmpty(<<e>>) = <<>>
    <3> DEFINE x == NoEmpty(q)
               y == NoEmpty(<<e>>)
    <3> HIDE DEF x, y
    <3>1. x \o y = <<>> => x = <<>> /\ y = <<>>
      BY <2>5, ConcatEqualIffEmpty DEF x, y
    <3> QED
      BY <2>3, <3>1 DEF x, y
  <2>7. Solid(q \o <<e>>) => Solid(q) \/ ~IsEmptySegment(e)
    BY SolidGrown
  <2>8. <<e>> # <<>>
    OBVIOUS
  <2> QED
    BY <1>3, <2>1, <2>4, <2>6, <2>7, <2>8
<1> HIDE DEF P
<1>4. segs \in P
  BY <1>2, <1>3, Growing
<1> QED
  BY <1>1, <1>4, NoEmptyType DEF P

(* What removeEmptySegments() and updateStartTime() leave.                 *)
LEMMA Tidied ==
    ASSUME NEW S, Movable(S), NEW segs \in Seq(S)
    PROVE  LET t == Retimed(NoEmpty(segs))
           IN  /\ t \in Seq(S) /\ InTime(t)
               /\ t # <<>> => Solid(t)
               /\ Solid(segs) => t # <<>>
<1> DEFINE E == {s \in S : ~IsEmptySegment(s)}
           kept == NoEmpty(segs)
           t == Retimed(kept)
<1>1. kept \in Seq(E) /\ (Solid(segs) => kept # <<>>)
  BY NoEmptyFacts
<1> HIDE DEF kept
<1>2. kept \in Seq(S)
  <2>1. E \subseteq S
    OBVIOUS
  <2> HIDE DEF E
  <2> QED
    BY <1>1, <2>1, SeqMonotonic
<1>3. t \in Seq(S) /\ Len(t) = Len(kept)
  BY <1>2, RetimedFacts
<1>4. InTime(t) /\ (Solid(kept) => Solid(t)) /\ (kept # <<>> => t # <<>>)
  BY <1>2, RetimedInTime
<1>5. ASSUME t # <<>> PROVE Solid(t)
  <2> HIDE DEF t
  <2>1. Len(kept) \in Nat /\ Len(kept) > 0
    BY <1>3, <1>5, EmptySeq
  <2>2. 1 \in 1 .. Len(kept) /\ DOMAIN kept = 1 .. Len(kept)
    BY <1>2, <2>1, LenProperties
  <2>3. kept[1] \in E
    BY <1>1, <2>2, ElementOfSeq
  <2>4. Solid(kept)
    BY <2>2, <2>3 DEF Solid
  <2> QED
    BY <1>4, <2>4 DEF t
<1> QED
  BY <1>1, <1>3, <1>4, <1>5 DEF kept

LEMMA Joined ==
    ASSUME NEW S, NEW a \in Seq(S), NEW b \in Seq(S)
    PROVE  /\ a \o b \in Seq(S)
           /\ Solid(a) \/ Solid(b) => Solid(a \o b)
<1> DEFINE c == a \o b
<1>1. /\ c \in Seq(S) /\ Len(c) = Len(a) + Len(b)
      /\ \A i \in 1 .. Len(a) + Len(b) : c[i] = IF i <= Len(a) THEN a[i] ELSE b[i - Len(a)]
  BY ConcatProperties
<1>2. /\ Len(a) \in Nat /\ DOMAIN a = 1 .. Len(a)
      /\ Len(b) \in Nat /\ DOMAIN b = 1 .. Len(b)
  BY LenProperties
<1>3. DOMAIN c = 1 .. Len(a) + Len(b)
  BY <1>1, LenProperties
<1> HIDE DEF c
<1>4. ASSUME Solid(a) PROVE Solid(c)
  <2>1. PICK i \in 1 .. Len(a) : ~IsEmptySegment(a[i])
    BY <1>2, <1>4 DEF Solid
  <2>2. i \in 1 .. Len(a) + Len(b) /\ i <= Len(a)
    BY <1>2
  <2>3. c[i] = a[i]
    BY <1>1, <2>2
  <2> QED
    BY <1>3, <2>1, <2>2, <2>3 DEF Solid
<1>5. ASSUME Solid(b) PROVE Solid(c)
  <2>1. PICK i \in 1 .. Len(b) : ~IsEmptySegment(b[i])
    BY <1>2, <1>5 DEF Solid
  <2>2. /\ Len(a) + i \in 1 .. Len(a) + Len(b) /\ ~(Len(a) + i <= Len(a))
        /\ Len(a) + i - Len(a) = i
    BY <1>2
  <2>3. c[Len(a) + i] = b[i]
    BY <1>1, <2>2
  <2> QED
    BY <1>3, <2>1, <2>2, <2>3 DEF Solid
<1> QED
  BY <1>1, <1>4, <1>5 DEF c

LEMMA Single ==
    ASSUME NEW S, NEW s \in S
    PROVE  /\ <<s>> \in Seq(S) /\ <<s>>[1] = s /\ DOMAIN <<s>> = {1} /\ Len(<<s>>) = 1
           /\ ~IsEmptySegment(s) => Solid(<<s>>)
<1>1. <<s>> \in Seq(S) /\ <<s>>[1] = s /\ DOMAIN <<s>> = {1} /\ Len(<<s>>) = 1
  OBVIOUS
<1> QED
  BY <1>1 DEF Solid

(* What lies before and after one of the segments.                         *)
LEMMA BeforeAndAfter ==
    ASSUME NEW S, NEW segs \in Seq(S), NEW k \in DOMAIN segs
    PROVE  /\ SubSeq(segs, 1, k - 1) \in Seq(S) /\ Len(SubSeq(segs, 1, k - 1)) = k - 1
           /\ \A i \in 1 .. k - 1 : SubSeq(segs, 1, k - 1)[i] = segs[i]
           /\ SubSeq(segs, k + 1, Len(segs)) \in Seq(S)
           /\ Len(SubSeq(segs, k + 1, Len(segs))) = Len(segs) - k
           /\ \A i \in 1 .. Len(segs) - k : SubSeq(segs, k + 1, Len(segs))[i] = segs[k + i]
           /\ segs[k] \in S /\ k \in 1 .. Len(segs) /\ Len(segs) \in Nat
<1>1. Len(segs) \in Nat /\ k \in 1 .. Len(segs)
  BY LenProperties
<1>2. 1 \in 1 .. Len(segs) + 1 /\ k - 1 \in (1 - 1) .. Len(segs) /\ k \in 0 .. Len(segs)
      /\ k - 1 - 1 + 1 = k - 1 /\ \A i \in 1 .. k - 1 : 1 + i - 1 = i
  BY <1>1
<1>3. /\ SubSeq(segs, 1, k - 1) \in Seq(S) /\ Len(SubSeq(segs, 1, k - 1)) = k - 1 - 1 + 1
      /\ \A i \in 1 .. (k - 1 - 1 + 1) : SubSeq(segs, 1, k - 1)[i] = segs[1 + i - 1]
  BY <1>2, Slice
<1>4. /\ SubSeq(segs, 1, k - 1) \in Seq(S) /\ Len(SubSeq(segs, 1, k - 1)) = k - 1
      /\ \A i \in 1 .. k - 1 : SubSeq(segs, 1, k - 1)[i] = segs[i]
  BY <1>2, <1>3
<1>5. /\ SubSeq(segs, k + 1, Len(segs)) \in Seq(S)
      /\ Len(SubSeq(segs, k + 1, Len(segs))) = Len(segs) - k
      /\ \A i \in 1 .. (Len(segs) - k) : SubSeq(segs, k + 1, Len(segs))[i] = segs[k + i]
  BY <1>2, Suffix
<1> QED
  BY <1>1, <1>4, <1>5, ElementOfSeq

LEMMA Divided ==
    ASSUME NEW S, NEW segs \in Seq(S), NEW k \in DOMAIN segs
    PROVE  segs = (SubSeq(segs, 1, k - 1) \o <<segs[k]>>) \o SubSeq(segs, k + 1, Len(segs))
<1> DEFINE n == Len(segs)
<1>1. n \in Nat /\ k \in 1 .. n /\ segs[k] \in S
  BY BeforeAndAfter
<1>2. 1 \in 1 .. n /\ k \in 1 .. n /\ 1 \in 1 .. n + 1 /\ k \in (1 - 1) .. n /\ n \in k .. n
  BY <1>1
<1>3. SubSeq(segs, 1, k) = SubSeq(segs, 1, k - 1) \o <<segs[k]>>
  BY <1>2, SubSeqRecursiveSecond
<1>4. SubSeq(segs, 1, k) \o SubSeq(segs, k + 1, n) = SubSeq(segs, 1, n)
  BY <1>2, ConcatAdjacentSubSeq
<1>5. SubSeq(segs, 1, n) = segs
  BY SubSeqFull
<1> QED
  BY <1>3, <1>4, <1>5

-----------------------------------------------------------------------------
(* A segment up to a time in it, and from that time on.                    *)
LEMMA UptoParts ==
    ASSUME NEW s \in Segment, NEW t \in Nat, s.start <= t
    PROVE  /\ Upto(s, t) \in Segment
           /\ Upto(s, t).ref = s.ref /\ Upto(s, t).refStart = s.refStart
           /\ Upto(s, t).start = s.start /\ Upto(s, t).dur = t - s.start
<1>1. s.start \in Nat
  BY DEF Segment
<1>2. t - s.start \in Nat
  BY <1>1
<1> DEFINE d == t - s.start
<1>3. Upto(s, t) = [s EXCEPT !.dur = d]
  BY DEF Upto
<1> HIDE DEF d
<1>4. d \in Nat
  BY <1>2 DEF d
<1>5. /\ Upto(s, t) \in Segment
      /\ Upto(s, t).ref = s.ref /\ Upto(s, t).refStart = s.refStart
      /\ Upto(s, t).start = s.start /\ Upto(s, t).dur = d
  BY <1>3, <1>4 DEF Segment
<1> QED
  BY <1>5 DEF d

LEMMA FromParts ==
    ASSUME NEW s \in Segment, NEW t \in Nat, s.start <= t, t <= End(s)
    PROVE  /\ From(s, t) \in Segment
           /\ From(s, t).ref = s.ref /\ From(s, t).refStart = s.refStart + (t - s.start)
           /\ From(s, t).start = s.start /\ From(s, t).dur = s.dur - (t - s.start)
<1>1. s.start \in Nat /\ s.refStart \in Nat /\ s.dur \in Nat
  BY DEF Segment
<1> DEFINE r == s.refStart + (t - s.start)
           d == s.dur - (t - s.start)
<1>2. r \in Nat /\ d \in Nat
  BY <1>1 DEF End
<1>3. From(s, t) = [s EXCEPT !.refStart = r, !.dur = d]
  BY DEF From
<1> HIDE DEF r, d
<1>4. /\ From(s, t) \in Segment
      /\ From(s, t).ref = s.ref /\ From(s, t).refStart = r
      /\ From(s, t).start = s.start /\ From(s, t).dur = d
  BY <1>2, <1>3 DEF Segment
<1> QED
  BY <1>4 DEF r, d

(* A division leaves something, if there was something.                    *)
LEMMA HalvesSolid ==
    ASSUME NEW s \in Segment, NEW t \in Nat, s.start <= t, t <= End(s), ~IsEmptySegment(s)
    PROVE  ~IsEmptySegment(Upto(s, t)) \/ ~IsEmptySegment(From(s, t))
<1> DEFINE u == Upto(s, t)
           f == From(s, t)
<1>1. /\ s.ref \in Videos /\ s.start \in Nat /\ s.refStart \in Nat /\ s.dur \in Nat
  BY DEF Segment
<1>2. FirstPts[s.ref] \in Nat
  BY <1>1, VideosAssumption
<1>3. u.ref = s.ref /\ u.refStart = s.refStart /\ u.dur = t - s.start
  BY UptoParts
<1>4. f.ref = s.ref /\ f.refStart = s.refStart + (t - s.start) /\ f.dur = s.dur - (t - s.start)
  BY FromParts
<1>5. ~(s.dur = 0) /\ ~(s.refStart = 0 /\ s.dur = FirstPts[s.ref])
  BY DEF IsEmptySegment
<1> HIDE DEF u, f
<1>6. SUFFICES ASSUME IsEmptySegment(u), IsEmptySegment(f) PROVE FALSE
  BY DEF u, f
<1>7. t - s.start = 0 \/ (s.refStart = 0 /\ t - s.start = FirstPts[s.ref])
  BY <1>3, <1>6 DEF IsEmptySegment
<1>8. \/ s.dur - (t - s.start) = 0
      \/ s.refStart + (t - s.start) = 0 /\ s.dur - (t - s.start) = FirstPts[s.ref]
  BY <1>4, <1>6 DEF IsEmptySegment
<1> QED
  BY <1>1, <1>2, <1>5, <1>7, <1>8

(* The segments of some videos, and those that do not reach out of them.   *)
Pieces(vids) == {s \in Segment : s.ref \in vids}

Fitting(vids) == {s \in Pieces(vids) : s.refStart + s.dur <= RefDuration(s.ref)}

LEMMA PiecesDivisible == ASSUME NEW vids PROVE Divisible(Pieces(vids))
<1>1. ASSUME NEW s \in Pieces(vids), NEW t \in Nat PROVE MovedTo(s, t) \in Pieces(vids)
  BY MovedParts DEF Pieces
<1>2. ASSUME NEW s \in Pieces(vids), NEW t \in Nat, s.start <= t, t <= End(s)
      PROVE  Upto(s, t) \in Pieces(vids) /\ From(s, t) \in Pieces(vids)
  BY <1>2, UptoParts, FromParts DEF Pieces
<1>3. Pieces(vids) \subseteq Segment
  BY DEF Pieces
<1> HIDE DEF Pieces
<1> QED
  BY <1>1, <1>2, <1>3 DEF Divisible, Movable

LEMMA FittingDivisible == ASSUME NEW vids PROVE Divisible(Fitting(vids))
<1>1. ASSUME NEW s \in Fitting(vids)
      PROVE  /\ s \in Pieces(vids) /\ s \in Segment /\ s.ref \in Videos
             /\ s.start \in Nat /\ s.refStart \in Nat /\ s.dur \in Nat
             /\ s.refStart + s.dur <= RefDuration(s.ref)
  BY DEF Fitting, Pieces, Segment
<1>2. \A v \in Videos : RefDuration(v) \in Nat
  BY VideosAssumption DEF RefDuration, FrameTime
<1>3. ASSUME NEW s \in Fitting(vids), NEW t \in Nat PROVE MovedTo(s, t) \in Fitting(vids)
  BY <1>1, MovedParts DEF Fitting, Pieces
<1>4. ASSUME NEW s \in Fitting(vids), NEW t \in Nat, s.start <= t, t <= End(s)
      PROVE  Upto(s, t) \in Fitting(vids) /\ From(s, t) \in Fitting(vids)
  <2>1. Upto(s, t) \in Pieces(vids) /\ From(s, t) \in Pieces(vids)
    BY <1>1, <1>4, PiecesDivisible DEF Divisible
  <2>2. /\ Upto(s, t).ref = s.ref /\ Upto(s, t).refStart = s.refStart
        /\ Upto(s, t).dur = t - s.start
    BY <1>1, <1>4, UptoParts
  <2>3. /\ From(s, t).ref = s.ref /\ From(s, t).refStart = s.refStart + (t - s.start)
        /\ From(s, t).dur = s.dur - (t - s.start)
    BY <1>1, <1>4, FromParts
  <2>4. /\ s.refStart + (t - s.start) <= RefDuration(s.ref)
        /\ s.refStart + (t - s.start) + (s.dur - (t - s.start)) <= RefDuration(s.ref)
    BY <1>1, <1>2, <1>4 DEF End
  <2> QED
    BY <2>1, <2>2, <2>3, <2>4 DEF Fitting
<1>5. Fitting(vids) \subseteq Segment
  BY DEF Fitting, Pieces
<1> HIDE DEF Fitting
<1> QED
  BY <1>3, <1>4, <1>5 DEF Divisible, Movable

-----------------------------------------------------------------------------
(* The operations.                                                         *)

(* The segment that holds a time can be divided there.                     *)
LEMMA DivideAt ==
    ASSUME NEW S, Divisible(S), NEW segs \in Seq(S), InTime(segs), NEW t \in Nat,
           SegAt(segs, t) # 0
    PROVE  /\ SegAt(segs, t) \in DOMAIN segs
           /\ segs[SegAt(segs, t)] \in S /\ segs[SegAt(segs, t)] \in Segment
           /\ segs[SegAt(segs, t)].start <= t /\ t <= End(segs[SegAt(segs, t)])
           /\ Upto(segs[SegAt(segs, t)], t) \in S
           /\ From(segs[SegAt(segs, t)], t) \in S
<1> DEFINE i == SegAt(segs, t)
<1>1. Movable(S)
  BY DEF Divisible
<1>2. segs \in Seq(Segment)
  BY <1>1, MovableSeq
<1>3. i \in DOMAIN segs /\ segs[i].start <= t /\ t <= End(segs[i])
  BY <1>2, SegAtParts
<1> HIDE DEF i
<1>4. segs[i] \in S /\ segs[i] \in Segment
  BY <1>2, <1>3, LenProperties, ElementOfSeq
<1>5. Upto(segs[i], t) \in S /\ From(segs[i], t) \in S
  BY <1>3, <1>4 DEF Divisible
<1> QED
  BY <1>3, <1>4, <1>5 DEF i

(* removeChunk().                                                          *)
LEMMA CutFacts ==
    ASSUME NEW S, Divisible(S), NEW segs \in Seq(S), InTime(segs),
           NEW from \in Nat, NEW to \in Nat, SegAt(segs, from) # 0, SegAt(segs, to) # 0
    PROVE  /\ Cut(segs, from, to) \in Seq(S)
           /\ InTime(Cut(segs, from, to))
           /\ Cut(segs, from, to) # <<>> => Solid(Cut(segs, from, to))
<1> DEFINE first == SegAt(segs, from)
           last == SegAt(segs, to)
           u == Upto(segs[first], from)
           f == From(segs[last], to)
           a == SubSeq(segs, 1, first - 1)
           b == SubSeq(segs, last + 1, Len(segs))
           all == a \o <<u, f>> \o b
<1>1. first \in DOMAIN segs /\ last \in DOMAIN segs /\ u \in S /\ f \in S
  BY DivideAt
<1>2. Cut(segs, from, to) = Retimed(NoEmpty(all))
  BY DEF Cut
<1> HIDE DEF u, f, first, last
<1>3. a \in Seq(S) /\ b \in Seq(S)
  BY <1>1, BeforeAndAfter
<1>4. <<u, f>> \in Seq(S)
  BY <1>1
<1>5. all \in Seq(S)
  BY <1>3, <1>4, Joined
<1> HIDE DEF all
<1>6. Movable(S)
  BY DEF Divisible
<1> QED
  BY <1>2, <1>5, <1>6, Tidied

(* truncateVideo().                                                        *)
LEMMA TruncatedFacts ==
    ASSUME NEW S, Divisible(S), NEW segs \in Seq(S), InTime(segs),
           NEW from \in Nat, SegAt(segs, from) # 0,
           Upto(segs[SegAt(segs, from)], from + 1) \in S
    PROVE  /\ Truncated(segs, from) \in Seq(S)
           /\ InTime(Truncated(segs, from))
           /\ Truncated(segs, from) # <<>> => Solid(Truncated(segs, from))
<1> DEFINE first == SegAt(segs, from)
           u == Upto(segs[first], from + 1)
           a == SubSeq(segs, 1, first - 1)
           all == Append(a, u)
<1>1. first \in DOMAIN segs
  BY DivideAt
<1>2. FrameTime \div 2 = 1
  BY DEF FrameTime
<1>3. Truncated(segs, from) = Retimed(NoEmpty(all))
  BY <1>2 DEF Truncated
<1> HIDE DEF first
<1>4. a \in Seq(S) /\ u \in S
  BY <1>1, BeforeAndAfter DEF first
<1> HIDE DEF a, u
<1>5. all \in Seq(S)
  BY <1>4, AppendProperties
<1> HIDE DEF all
<1>6. Movable(S)
  BY DEF Divisible
<1> QED
  BY <1>3, <1>5, <1>6, Tidied

(* appendFromClipBoard().                                                  *)
LEMMA AppendedFacts ==
    ASSUME NEW S, Movable(S), NEW segs \in Seq(S), NEW clip \in Seq(S)
    PROVE  /\ Appended(segs, clip) \in Seq(S)
           /\ InTime(Appended(segs, clip))
           /\ Solid(segs) \/ Solid(clip) => Solid(Appended(segs, clip))
<1> DEFINE all == segs \o clip
<1>1. all \in Seq(S) /\ (Solid(segs) \/ Solid(clip) => Solid(all))
  BY Joined
<1>2. Appended(segs, clip) = Retimed(all)
  BY DEF Appended
<1> HIDE DEF all
<1> QED
  BY <1>1, <1>2, RetimedFacts, RetimedInTime

(* pasteFromClipBoard(): what was there is still there.                    *)
LEMMA PastedFacts ==
    ASSUME NEW S, Divisible(S), NEW segs \in Seq(S), NEW clip \in Seq(S), InTime(segs),
           NEW t \in Nat, SegAt(segs, t) # 0
    PROVE  /\ Pasted(segs, clip, t) \in Seq(S)
           /\ InTime(Pasted(segs, clip, t))
           /\ Solid(segs) => Solid(Pasted(segs, clip, t))
<1> DEFINE at == SegAt(segs, t)
           s == segs[at]
           u == Upto(s, t)
           f == From(s, t)
           a == SubSeq(segs, 1, at - 1)
           b == SubSeq(segs, at + 1, Len(segs))
           m == IF s.start = t THEN Append(clip, s) ELSE <<u>> \o clip \o <<f>>
           all == a \o m \o b
<1>1. /\ at \in DOMAIN segs /\ s \in S /\ s \in Segment /\ s.start <= t /\ t <= End(s)
      /\ u \in S /\ f \in S
  BY DivideAt
<1>2. Pasted(segs, clip, t) = Retimed(NoEmpty(all))
  BY Zenon DEF Pasted
<1>3. ~IsEmptySegment(s) => ~IsEmptySegment(u) \/ ~IsEmptySegment(f)
  BY <1>1, HalvesSolid
<1> HIDE DEF u, f, at
<1>4. /\ a \in Seq(S) /\ Len(a) = at - 1 /\ \A i \in 1 .. at - 1 : a[i] = segs[i]
      /\ b \in Seq(S) /\ Len(b) = Len(segs) - at /\ \A i \in 1 .. Len(segs) - at : b[i] = segs[at + i]
      /\ at \in 1 .. Len(segs) /\ Len(segs) \in Nat
  <2>1. at \in DOMAIN segs
    BY <1>1
  <2> HIDE DEF s, m, all
  <2>2. /\ a \in Seq(S) /\ Len(a) = at - 1
        /\ \A i \in 1 .. at - 1 : a[i] = segs[i]
    BY <2>1, BeforeAndAfter, Zenon
  <2>3. /\ b \in Seq(S) /\ Len(b) = Len(segs) - at
        /\ \A i \in 1 .. Len(segs) - at : b[i] = segs[at + i]
    BY <2>1, BeforeAndAfter, Zenon
  <2>4. at \in 1 .. Len(segs) /\ Len(segs) \in Nat
    BY <2>1, BeforeAndAfter, Zenon
  <2> QED
    BY <2>2, <2>3, <2>4
<1>5. DOMAIN segs = 1 .. Len(segs) /\ DOMAIN a = 1 .. at - 1 /\ DOMAIN b = 1 .. Len(segs) - at
  BY <1>4, LenProperties
<1> HIDE DEF a, b
<1>6. m \in Seq(S) /\ (~IsEmptySegment(s) => Solid(m))
  <2> HIDE DEF s
  <2>1. CASE s.start = t
    <3>1. m = Append(clip, s)
      BY <2>1
    <3>2. m = clip \o <<s>>
      BY <1>1, <3>1, AppendIsConcat
    <3>3. <<s>> \in Seq(S) /\ (~IsEmptySegment(s) => Solid(<<s>>))
      BY <1>1, Single
    <3>4. clip \o <<s>> \in Seq(S) /\ (~IsEmptySegment(s) => Solid(clip \o <<s>>))
      BY <3>3, Joined
    <3> HIDE DEF m
    <3> QED
      BY <3>2, <3>4
  <2>2. CASE s.start # t
    <3>1. m = <<u>> \o clip \o <<f>>
      BY <2>2
    <3>2. /\ <<u>> \in Seq(S) /\ (~IsEmptySegment(u) => Solid(<<u>>))
          /\ <<f>> \in Seq(S) /\ (~IsEmptySegment(f) => Solid(<<f>>))
      BY <1>1, Single
    <3>3. <<u>> \o clip \in Seq(S) /\ (~IsEmptySegment(u) => Solid(<<u>> \o clip))
      BY <3>2, Joined
    <3>4. m \in Seq(S) /\ (~IsEmptySegment(u) \/ ~IsEmptySegment(f) => Solid(m))
      BY <3>1, <3>2, <3>3, Joined
    <3> QED
      BY <1>3, <3>4 DEF s
  <2> QED
    BY <2>1, <2>2
<1>7. ASSUME Solid(segs) PROVE Solid(a) \/ Solid(m) \/ Solid(b)
  <2>1. PICK k \in 1 .. Len(segs) : ~IsEmptySegment(segs[k])
    BY <1>5, <1>7 DEF Solid
  <2>2. CASE k = at
    BY <1>6, <2>1, <2>2
  <2>3. CASE k < at
    <3>1. k \in 1 .. at - 1
      BY <1>4, <2>3
    <3> QED
      BY <1>4, <1>5, <2>1, <3>1 DEF Solid
  <2>4. CASE k > at
    <3>1. k - at \in 1 .. Len(segs) - at /\ at + (k - at) = k
      BY <1>4, <2>4
    <3>2. b[k - at] = segs[k]
      BY <1>4, <3>1
    <3> QED
      BY <1>5, <2>1, <3>1, <3>2 DEF Solid
  <2> QED
    BY <1>4, <2>2, <2>3, <2>4
<1> HIDE DEF m
<1>8. all \in Seq(S) /\ (Solid(segs) => Solid(all))
  BY <1>4, <1>6, <1>7, Joined
<1> HIDE DEF all
<1>9. Movable(S)
  BY DEF Divisible
<1> QED
  BY <1>2, <1>8, <1>9, Tidied

(* copyToClipBoard().                                                      *)
Copyable(S) == \A s \in S, from, to \in Nat : from <= to => Piece(s, from, to) \in S

LEMMA CopiedFacts ==
    ASSUME NEW S, Copyable(S), NEW segs \in Seq(S), NEW from \in Nat, NEW to \in Nat, from <= to,
           NEW first \in DOMAIN segs, NEW last \in DOMAIN segs
    PROVE  Copied(segs, first, last, from, to) \in Seq(S)
<1>1. Len(segs) \in Nat /\ DOMAIN segs = 1 .. Len(segs)
  BY LenProperties
<1> DEFINE n == last - first + 1
           c == Copied(segs, first, last, from, to)
<1>2. c = [i \in 1 .. n |-> Piece(segs[first + i - 1], from, to)]
  BY DEF Copied
<1>3. \A i \in 1 .. n : first + i - 1 \in 1 .. Len(segs)
  BY <1>1
<1>4. n \in Int
  BY <1>1
<1> HIDE DEF n, c
<1>5. \A i \in 1 .. n : c[i] \in S
  <2> SUFFICES ASSUME NEW i \in 1 .. n PROVE c[i] \in S
    OBVIOUS
  <2>1. c[i] = Piece(segs[first + i - 1], from, to)
    BY <1>2
  <2>2. segs[first + i - 1] \in S
    BY <1>3, ElementOfSeq
  <2> QED
    BY <2>1, <2>2 DEF Copyable
<1>6. c = [i \in 1 .. n |-> c[i]]
  BY <1>2
<1>7. CASE n \in Nat
  BY <1>5, <1>6, <1>7, IsASeq DEF c
<1>8. CASE n \notin Nat
  <2>1. 1 .. n = 1 .. 0
    BY <1>4, <1>8
  <2>2. c = [i \in 1 .. 0 |-> c[i]] /\ \A i \in 1 .. 0 : c[i] \in S
    BY <1>5, <1>6, <2>1
  <2>3. 0 \in Nat
    OBVIOUS
  <2> QED
    BY <2>2, <2>3, IsASeq DEF c
<1> QED
  BY <1>7, <1>8

(* A piece keeps its reference and does not grow at either end.            *)
LEMMA PieceParts ==
    ASSUME NEW s \in Segment, NEW from \in Nat, NEW to \in Nat, from <= to
    PROVE  /\ Piece(s, from, to) \in Segment
           /\ Piece(s, from, to).ref = s.ref
           /\ Piece(s, from, to).refStart + Piece(s, from, to).dur <= s.refStart + s.dur
           /\ Piece(s, from, to).refStart = IF s.start <= from /\ End(s) > from
                                            THEN s.refStart + (from - s.start) ELSE s.refStart
           /\ Piece(s, from, to).refStart + Piece(s, from, to).dur
                = IF s.start <= to /\ End(s) >= to THEN s.refStart + (to - s.start)
                  ELSE s.refStart + s.dur
<1> DEFINE head == IF s.start <= from /\ End(s) > from
                   THEN [From(s, from) EXCEPT !.start = from] ELSE s
           p == Piece(s, from, to)
<1>1. s.start \in Nat /\ s.refStart \in Nat /\ s.dur \in Nat /\ End(s) = s.start + s.dur
  BY DEF Segment, End
<1>2. p = IF s.start <= to /\ End(s) >= to THEN [head EXCEPT !.dur = to - head.start] ELSE head
  BY DEF Piece
<1>3. /\ head \in Segment /\ head.ref = s.ref
      /\ head.refStart + head.dur = s.refStart + s.dur
      /\ head.refStart - head.start = s.refStart - s.start
      /\ s.start <= to => head.start <= to
      /\ head.refStart = IF s.start <= from /\ End(s) > from
                         THEN s.refStart + (from - s.start) ELSE s.refStart
  <2>1. CASE s.start <= from /\ End(s) > from
    <3>1. from <= End(s)
      BY <1>1, <2>1
    <3> DEFINE f == From(s, from)
    <3>2. /\ f \in Segment /\ f.ref = s.ref /\ f.refStart = s.refStart + (from - s.start)
          /\ f.dur = s.dur - (from - s.start)
      BY <2>1, <3>1, FromParts
    <3>3. head = MovedTo(f, from)
      BY <2>1 DEF MovedTo
    <3> HIDE DEF f, head
    <3>4. /\ head \in Segment /\ head.ref = f.ref /\ head.refStart = f.refStart
          /\ head.dur = f.dur /\ head.start = from
      BY <3>2, <3>3, MovedParts
    <3> QED
      BY <1>1, <2>1, <3>2, <3>4
  <2>2. CASE ~(s.start <= from /\ End(s) > from)
    <3>1. head = s
      BY <2>2
    <3> HIDE DEF head
    <3> QED
      BY <1>1, <2>2, <3>1
  <2> QED
    BY <2>1, <2>2
<1> HIDE DEF head
<1>4. head.start \in Nat /\ head.refStart \in Nat /\ head.dur \in Nat
  BY <1>3 DEF Segment
<1> HIDE DEF p
<1>5. CASE s.start <= to /\ End(s) >= to
  <2> DEFINE d == to - head.start
  <2>1. d \in Nat
    BY <1>3, <1>4, <1>5
  <2>2. p = [head EXCEPT !.dur = d]
    BY <1>2, <1>5
  <2> HIDE DEF d
  <2>3. p \in Segment /\ p.ref = head.ref /\ p.refStart = head.refStart /\ p.dur = d
    BY <1>3, <2>1, <2>2 DEF Segment
  <2>4. head.refStart + d = s.refStart + (to - s.start)
    BY <1>1, <1>3, <1>4 DEF d
  <2>5. s.refStart + (to - s.start) <= s.refStart + s.dur
    BY <1>1, <1>5
  <2> QED
    BY <1>3, <1>5, <2>3, <2>4, <2>5 DEF p
<1>6. CASE ~(s.start <= to /\ End(s) >= to)
  <2>1. p = head
    BY <1>2, <1>6
  <2>2. s.refStart + s.dur <= s.refStart + s.dur
    BY <1>1
  <2> QED
    BY <1>3, <1>6, <2>1, <2>2 DEF p
<1> QED
  BY <1>5, <1>6

LEMMA SetsCopyable == ASSUME NEW vids PROVE Copyable(Pieces(vids)) /\ Copyable(Fitting(vids))
<1>1. ASSUME NEW s \in Pieces(vids), NEW from \in Nat, NEW to \in Nat, from <= to
      PROVE  Piece(s, from, to) \in Pieces(vids)
  BY <1>1, PieceParts DEF Pieces
<1>2. ASSUME NEW s \in Fitting(vids), NEW from \in Nat, NEW to \in Nat, from <= to
      PROVE  Piece(s, from, to) \in Fitting(vids)
  <2>1. s \in Pieces(vids) /\ s \in Segment /\ s.ref \in Videos
        /\ s.refStart + s.dur \in Nat /\ s.refStart + s.dur <= RefDuration(s.ref)
    BY DEF Fitting, Pieces, Segment
  <2>2. RefDuration(s.ref) \in Nat
    BY <2>1, VideosAssumption DEF RefDuration, FrameTime
  <2> DEFINE p == Piece(s, from, to)
  <2>3. /\ p \in Segment /\ p.ref = s.ref /\ p.refStart + p.dur <= s.refStart + s.dur
    BY <1>2, <2>1, PieceParts
  <2>4. p \in Pieces(vids)
    BY <1>1, <1>2, <2>1
  <2> HIDE DEF p
  <2>5. p.refStart + p.dur \in Nat
    BY <2>3 DEF Segment
  <2>6. p.refStart + p.dur <= RefDuration(p.ref)
    BY <2>1, <2>2, <2>3, <2>5
  <2> QED
    BY <2>4, <2>6 DEF Fitting, p
<1> QED
  BY <1>1, <1>2 DEF Copyable

-----------------------------------------------------------------------------
(* The times a segment begins at, and those at which something is shown,   *)
(* lie in the timeline.                                                    *)
LEMMA UntilRises ==
    ASSUME NEW segs \in Seq(Segment)
    PROVE  \A i \in 0 .. Len(segs) : \A j \in 0 .. i : Until(segs)[j] <= Until(segs)[i]
<1> DEFINE n == Len(segs)
           u == Until(segs)
           Q == {i \in 0 .. n : \A j \in 0 .. i : u[j] <= u[i]}
<1>1. n \in Nat /\ \A i \in 1 .. n : segs[i].dur \in Nat
  BY SegmentParts
<1>2. (\A i \in 0 .. n : u[i] \in Nat) /\ \A i \in 1 .. n : u[i] = u[i - 1] + segs[i].dur
  BY UntilParts
<1> HIDE DEF n, u
<1>3. 0 \in Q
  BY <1>1, <1>2
<1>4. ASSUME NEW i \in 1 .. n, i - 1 \in Q PROVE i \in Q
  <2>1. i - 1 \in 0 .. n /\ i \in 0 .. n
    BY <1>1
  <2>2. u[i - 1] \in Nat /\ u[i] \in Nat /\ u[i - 1] <= u[i]
    <3>1. u[i - 1] \in Nat /\ u[i] \in Nat
      BY <1>2, <2>1
    <3>2. segs[i].dur \in Nat
      BY <1>1
    <3>3. u[i] = u[i - 1] + segs[i].dur
      BY <1>2
    <3> QED
      BY <3>1, <3>2, <3>3
  <2>3. ASSUME NEW j \in 0 .. i PROVE u[j] <= u[i]
    <3>1. CASE j = i
      BY <2>2, <3>1
    <3>2. CASE j # i
      <4>1. j \in 0 .. (i - 1) /\ j \in 0 .. n
        BY <1>1, <3>2
      <4>2. u[j] <= u[i - 1] /\ u[j] \in Nat
        BY <1>2, <1>4, <4>1
      <4> QED
        BY <2>2, <4>2
    <3> QED
      BY <3>1, <3>2
  <2> QED
    BY <2>1, <2>3
<1> HIDE DEF Q
<1>5. \A i \in 0 .. n : i \in Q
  BY <1>1, <1>3, <1>4, Induction
<1> QED
  BY <1>5 DEF Q, n, u

LEMMA UntilGrows ==
    ASSUME NEW segs \in Seq(Segment)
    PROVE  \A i \in 0 .. Len(segs) : Until(segs)[i] <= Total(segs)
<1>1. Len(segs) \in Nat
  BY LenProperties
<1>2. Len(segs) \in 0 .. Len(segs)
  BY <1>1
<1> QED
  BY <1>2, UntilRises DEF Total

LEMMA ShownWithin == \A a, r, d \in Nat : \A p \in r .. r + d - 1 :
    a + (p - r) \in Nat /\ a + (p - r) < a + d
OBVIOUS

LEMMA ShownInTimeline ==
    ASSUME NEW segs \in Seq(Segment), InTime(segs), NEW t \in ShownTimes(segs)
    PROVE  t \in Nat /\ t < Total(segs) /\ segs # <<>>
<1>1. PICK i \in DOMAIN segs : t \in TimesIn(segs[i])
  BY DEF ShownTimes
<1> DEFINE s == segs[i]
<1>2. /\ i \in 1 .. Len(segs) /\ i \in 0 .. Len(segs) /\ s.ref \in Videos
      /\ s.start \in Nat /\ s.refStart \in Nat /\ s.dur \in Nat
  BY SegmentParts
<1>3. End(s) = Until(segs)[i]
  BY <1>2, TimedParts
<1>4. Until(segs)[i] <= Total(segs) /\ Until(segs)[i] \in Nat /\ Total(segs) \in Nat
  BY <1>2, UntilGrows, UntilParts
<1> HIDE DEF s
<1>5. PICK pts \in ToSet(FrameTimes(s.ref)) \cap Covered(s) : t = ShownAt(s, pts)
  BY <1>1 DEF TimesIn, s
<1>6. pts \in Nat
  <2>1. PICK k \in 1 .. NbFrames[s.ref] : pts = FirstPts[s.ref] + FrameTime * (k - 1)
    BY <1>5 DEF ToSet, FrameTimes
  <2>2. FirstPts[s.ref] \in Nat /\ NbFrames[s.ref] \in Nat
    BY <1>2, VideosAssumption
  <2>3. k - 1 \in Nat
    BY <2>2
  <2> DEFINE d == FrameTime * (k - 1)
  <2>4. pts = FirstPts[s.ref] + d
    BY <2>1
  <2>5. d \in Nat
    BY <2>3 DEF FrameTime
  <2> HIDE DEF d
  <2> QED
    BY <2>2, <2>4, <2>5
<1>7. t \in Nat /\ t < s.start + s.dur
  <2>1. t = s.start + (pts - s.refStart) /\ pts \in s.refStart .. s.refStart + s.dur - 1
    BY <1>5 DEF ShownAt, Covered
  <2>2. s.start \in Nat /\ s.refStart \in Nat /\ s.dur \in Nat
    BY <1>2
  <2> QED
    BY <2>1, <2>2, ShownWithin, Zenon
<1>8. t < Total(segs)
  BY <1>2, <1>3, <1>4, <1>7 DEF End
<1> QED
  BY <1>1, <1>7, <1>8

(* A time at which something is shown, or the beginning, or the end, is    *)
(* held by a segment; and one at which something is shown is not its end.  *)
LEMMA HeldTimes ==
    ASSUME NEW segs \in Seq(Segment), InTime(segs), segs # <<>>,
           NEW t, t \in {0, Total(segs)} \cup ShownTimes(segs)
    PROVE  /\ t \in Nat /\ SegAt(segs, t) # 0 /\ t <= Total(segs)
           /\ t \in ShownTimes(segs) \ {0} => t + 1 <= End(segs[SegAt(segs, t)])
<1>1. t \in Nat /\ t <= Total(segs) /\ (t \in ShownTimes(segs) => t < Total(segs))
  BY ShownInTimeline, UntilParts
<1> DEFINE i == SegAt(segs, t)
<1>2. i # 0 /\ i \in DOMAIN segs /\ (t < Total(segs) => t < End(segs[i]) \/ t = 0)
  BY <1>1, SegAtParts
<1>3. End(segs[i]) \in Nat
  BY <1>2, SegmentParts DEF End
<1>4. t \in ShownTimes(segs) \ {0} => t < End(segs[i])
  BY <1>1, <1>2
<1> HIDE DEF i
<1>5. t \in ShownTimes(segs) \ {0} => t + 1 <= End(segs[i])
  BY <1>1, <1>3, <1>4
<1> QED
  BY <1>1, <1>2, <1>5 DEF i

(* The whole of a video.                                                   *)
LEMMA WholeParts ==
    ASSUME NEW vids, NEW v \in Videos, v \in vids
    PROVE  /\ WholeVideo(v) \in Pieces(vids)
           /\ WholeVideo(v) \in Fitting(vids)
           /\ ~IsEmptySegment(WholeVideo(v))
<1>1. FirstPts[v] \in Nat /\ NbFrames[v] \in Nat \ {0}
  BY VideosAssumption
<1>2. RefDuration(v) \in Nat /\ RefDuration(v) > FirstPts[v]
  BY <1>1 DEF RefDuration, FrameTime
<1> DEFINE w == WholeVideo(v)
<1>3. w \in Segment /\ w.ref = v /\ w.refStart = 0 /\ w.dur = RefDuration(v)
  BY <1>2 DEF WholeVideo, Segment
<1> HIDE DEF w
<1>4. w \in Pieces(vids)
  BY <1>3 DEF Pieces
<1>5. w \in Fitting(vids)
  BY <1>2, <1>3, <1>4 DEF Fitting
<1>6. ~IsEmptySegment(w)
  BY <1>1, <1>2, <1>3 DEF IsEmptySegment
<1> QED
  BY <1>4, <1>5, <1>6 DEF w

LEMMA MoreVideos ==
    ASSUME NEW vids, NEW more, vids \subseteq more
    PROVE  /\ Seq(Pieces(vids)) \subseteq Seq(Pieces(more))
           /\ Seq(Fitting(vids)) \subseteq Seq(Fitting(more))
<1>1. Pieces(vids) \subseteq Pieces(more)
  BY DEF Pieces
<1>2. Fitting(vids) \subseteq Fitting(more)
  BY <1>1 DEF Fitting
<1> QED
  BY <1>1, <1>2, SeqMonotonic

-----------------------------------------------------------------------------
(* The timeline by itself.                                                 *)
Refs == {videos[i] : i \in DOMAIN videos}

Edited ==
    /\ videos \in Seq(Videos)
    /\ segments \in Seq(Fitting(Refs)) /\ InTime(segments)
    /\ clipboard \in Seq(Fitting(Refs))

LEMMA FittingParts ==
    ASSUME NEW vids
    PROVE  Divisible(Fitting(vids)) /\ Movable(Fitting(vids)) /\ Copyable(Fitting(vids))
BY FittingDivisible, SetsCopyable DEF Divisible

LEMMA Emptied ==
    /\ \A S : <<>> \in Seq(S)
    /\ InTime(<<>>)
<1>1. \A S : <<>> \in Seq(S)
  BY EmptySeq
<1>2. DOMAIN <<>> = {}
  OBVIOUS
<1>3. InTime(<<>>)
  BY <1>2 DEF InTime, Retimed
<1> QED
  BY <1>1, <1>3

LEMMA AddVideoRefs ==
    ASSUME NEW v \in Videos, videos \in Seq(Videos), AddVideo(v)
    PROVE  videos' \in Seq(Videos) /\ Refs \subseteq Refs' /\ v \in Refs'
<1>1. videos' = Append(videos, v)
  BY DEF AddVideo
<1>2. /\ videos' \in Seq(Videos) /\ Len(videos) \in Nat
      /\ DOMAIN videos = 1 .. Len(videos) /\ DOMAIN videos' = 1 .. (Len(videos) + 1)
      /\ \A i \in 1 .. Len(videos) : videos'[i] = videos[i]
      /\ videos'[Len(videos) + 1] = v
  BY <1>1, OneAppended
<1>3. \A i \in DOMAIN videos : i \in DOMAIN videos' /\ videos'[i] = videos[i]
  BY <1>2
<1>4. Len(videos) + 1 \in DOMAIN videos'
  BY <1>2
<1> QED
  BY <1>2, <1>3, <1>4 DEF Refs

(* An operation that rearranges the timeline leaves such a timeline.       *)
LEMMA Rearranged ==
    ASSUME NEW S, Movable(S), segments \in Seq(S), NEW segs \in Seq(S), InTime(segs),
           Rearrange(segs)
    PROVE  /\ segments' \in Seq(S) /\ InTime(segments') /\ videos' = videos /\ videos # <<>>
           /\ segs # <<>> => segments' = segs
<1>1. CASE segs = <<>>
  <2>1. segments' = Retimed(segments)
    BY <1>1 DEF Rearrange
  <2> QED
    BY <1>1, <2>1, RetimedFacts, RetimedInTime DEF Rearrange
<1>2. CASE segs # <<>>
  BY <1>2 DEF Rearrange
<1> QED
  BY <1>1, <1>2

LEMMA ResetFacts ==
    ASSUME NEW S, Movable(S), videos \in Seq(Videos),
           \A i \in DOMAIN videos : WholeVideo(videos[i]) \in S
    PROVE  LET all == [i \in DOMAIN videos |-> WholeVideo(videos[i])]
           IN  /\ Retimed(all) \in Seq(S)
               /\ InTime(Retimed(all))
               /\ videos # <<>> => Solid(Retimed(all))
<1> DEFINE all == [i \in DOMAIN videos |-> WholeVideo(videos[i])]
           n == Len(videos)
<1>1. n \in Nat /\ DOMAIN videos = 1 .. n /\ \A i \in 1 .. n : videos[i] \in Videos
  BY LenProperties, ElementOfSeq
<1>2. all = [i \in 1 .. n |-> all[i]] /\ \A i \in 1 .. n : all[i] = WholeVideo(videos[i])
  BY <1>1
<1> HIDE DEF all
<1>3. \A i \in 1 .. n : all[i] \in S
  BY <1>1, <1>2
<1>4. all \in Seq(S)
  BY <1>1, <1>2, <1>3, IsASeq
<1>5. ASSUME videos # <<>> PROVE Solid(all)
  <2>1. 1 \in 1 .. n
    BY <1>1, <1>5, EmptySeq
  <2>2. ~IsEmptySegment(all[1])
    <3>1. videos[1] \in Videos
      BY <1>1, <2>1
    <3>2. ~IsEmptySegment(WholeVideo(videos[1]))
      BY <3>1, WholeParts
    <3> QED
      BY <1>2, <2>1, <3>2
  <2>3. DOMAIN all = 1 .. n
    BY <1>2
  <2> QED
    BY <2>1, <2>2, <2>3 DEF Solid
<1> QED
  BY <1>4, <1>5, RetimedFacts, RetimedInTime DEF all

LEMMA EditedInit == Init => Edited
BY Emptied DEF Init, NoVideo, Edited

LEMMA EditedStep == Edited /\ [Next]_segmentVars => Edited'
<1> SUFFICES ASSUME Edited, [Next]_segmentVars PROVE Edited'
  OBVIOUS
<1> DEFINE F == Fitting(Refs)
<1>1. /\ videos \in Seq(Videos) /\ segments \in Seq(F) /\ InTime(segments) /\ clipboard \in Seq(F)
  BY DEF Edited
<1>2. Divisible(F) /\ Movable(F) /\ Copyable(F)
  BY FittingParts
<1>3. segments \in Seq(Segment)
  BY <1>1, <1>2, MovableSeq
<1>4. videos' = videos => Fitting(Refs)' = F
  BY DEF Refs, Fitting, Pieces, RefDuration
<1>5. ASSUME videos' = videos, segments' \in Seq(F), InTime(segments'), clipboard' \in Seq(F)
      PROVE  Edited'
  BY <1>1, <1>4, <1>5 DEF Edited, InTime
<1> HIDE DEF F
<1>6. ASSUME NEW v \in Videos, AddVideo(v) PROVE Edited'
  <2> DEFINE G == Fitting(Refs')
             w == <<WholeVideo(v)>>
  <2>1. videos' \in Seq(Videos) /\ Refs \subseteq Refs' /\ v \in Refs'
    BY <1>1, <1>6, AddVideoRefs
  <2>2. segments \in Seq(G) /\ clipboard \in Seq(G)
    BY <1>1, <2>1, MoreVideos DEF F
  <2>3. w \in Seq(G)
    BY <2>1, WholeParts, Single
  <2>4. Movable(G)
    BY FittingParts
  <2> HIDE DEF G, w
  <2>5. Appended(segments, w) \in Seq(G) /\ InTime(Appended(segments, w))
    BY <2>2, <2>3, <2>4, AppendedFacts
  <2>6. segments' = Appended(segments, w) /\ clipboard' = clipboard
    BY <1>6 DEF AddVideo, w
  <2>7. Fitting(Refs)' = G
    BY DEF G, Fitting, Pieces, RefDuration
  <2> QED
    BY <2>1, <2>2, <2>5, <2>6, <2>7 DEF Edited, InTime
<1>7. CASE Load
  BY <1>6, <1>7 DEF Load
<1>8. CASE CutSome
  <2>1. PICK from \in Starts, to \in ShownTimes(segments) :
           RemoveChunk(from, to) /\ UNCHANGED clipboard
    BY <1>8 DEF CutSome
  <2>2. segments # <<>>
    BY <1>1, <1>3, ShownInTimeline
  <2>3. from \in Nat /\ to \in Nat /\ SegAt(segments, from) # 0 /\ SegAt(segments, to) # 0
    BY <1>1, <1>3, <2>2, HeldTimes DEF Starts
  <2>4. Cut(segments, from, to) \in Seq(F) /\ InTime(Cut(segments, from, to))
    BY <1>1, <1>2, <2>3, CutFacts
  <2>5. segments' \in Seq(F) /\ InTime(segments') /\ videos' = videos
    BY <1>1, <1>2, <2>1, <2>4, Rearranged DEF RemoveChunk
  <2> QED
    BY <1>1, <1>5, <2>1, <2>5
<1>9. CASE TruncateSome
  <2>1. PICK from \in ShownTimes(segments) \ {0} : TruncateVideo(from) /\ UNCHANGED clipboard
    BY <1>9 DEF TruncateSome
  <2>2. segments # <<>>
    BY <1>1, <1>3, ShownInTimeline
  <2> DEFINE i == SegAt(segments, from)
  <2>3. from \in Nat /\ i # 0 /\ from + 1 <= End(segments[i])
    BY <1>1, <1>3, <2>2, HeldTimes
  <2>4. segments[i] \in F /\ segments[i].start <= from /\ segments[i] \in Segment
    BY <1>1, <1>2, <2>3, DivideAt
  <2> HIDE DEF i
  <2>5. segments[i].start \in Nat
    BY <2>4 DEF Segment
  <2>6. from + 1 \in Nat /\ segments[i].start <= from + 1
    BY <2>3, <2>4, <2>5
  <2>7. Upto(segments[i], from + 1) \in F
    BY <1>2, <2>3, <2>4, <2>6 DEF Divisible
  <2>8. Truncated(segments, from) \in Seq(F) /\ InTime(Truncated(segments, from))
    BY <1>1, <1>2, <2>3, <2>7, TruncatedFacts DEF i
  <2>9. segments' \in Seq(F) /\ InTime(segments') /\ videos' = videos
    BY <1>1, <1>2, <2>1, <2>8, Rearranged DEF TruncateVideo
  <2> QED
    BY <1>1, <1>5, <2>1, <2>9
<1>10. CASE CopySome
  <2>1. PICK from \in Starts, to \in Ends :
           from <= to /\ Copy(from, to) /\ UNCHANGED <<videos, segments>>
    BY <1>10 DEF CopySome
  <2>2. PICK first \in SegsAt(segments, from), last \in SegsAt(segments, to) :
           clipboard' = Copied(segments, first, last, from, to)
    BY <2>1 DEF Copy
  <2>3. from \in Nat /\ to \in Nat
    BY <1>1, <1>3, ShownInTimeline, UntilParts DEF Starts, Ends
  <2>4. first \in DOMAIN segments /\ last \in DOMAIN segments
    BY <1>1, <1>3, <2>2, <2>3, SegAtParts DEF SegsAt
  <2>5. clipboard' \in Seq(F)
    BY <1>1, <1>2, <2>1, <2>2, <2>3, <2>4, CopiedFacts
  <2> QED
    BY <1>1, <1>5, <2>1, <2>5
<1>11. CASE PasteSome
  <2>1. UNCHANGED clipboard
    BY <1>11 DEF PasteSome
  <2>2. ASSUME NEW t \in ShownTimes(segments), Paste(t)
        PROVE  segments' \in Seq(F) /\ InTime(segments') /\ videos' = videos
    <3>1. segments # <<>>
      BY <1>1, <1>3, ShownInTimeline
    <3>2. t \in Nat /\ SegAt(segments, t) # 0
      BY <1>1, <1>3, <3>1, HeldTimes
    <3>3. Pasted(segments, clipboard, t) \in Seq(F) /\ InTime(Pasted(segments, clipboard, t))
      BY <1>1, <1>2, <3>2, PastedFacts
    <3> QED
      BY <1>1, <1>2, <2>2, <3>3, Rearranged DEF Paste
  <2>3. ASSUME AppendClip PROVE segments' \in Seq(F) /\ InTime(segments') /\ videos' = videos
    <3>1. Appended(segments, clipboard) \in Seq(F) /\ InTime(Appended(segments, clipboard))
      BY <1>1, <1>2, AppendedFacts
    <3> QED
      BY <1>1, <1>2, <2>3, <3>1, Rearranged DEF AppendClip
  <2> QED
    BY <1>1, <1>5, <1>11, <2>1, <2>2, <2>3 DEF PasteSome
<1>12. CASE DeleteAll
  <2>1. videos' = <<>> /\ segments' = <<>> /\ clipboard' = <<>>
    BY <1>12 DEF DeleteAll
  <2> QED
    BY <2>1, Emptied DEF Edited, InTime
<1>13. CASE ResetSegments
  <2> DEFINE all == [i \in DOMAIN videos |-> WholeVideo(videos[i])]
  <2>1. Rearrange(Retimed(all)) /\ UNCHANGED clipboard
    BY <1>13 DEF ResetSegments
  <2>2. \A i \in DOMAIN videos : WholeVideo(videos[i]) \in F
    <3> SUFFICES ASSUME NEW i \in DOMAIN videos PROVE WholeVideo(videos[i]) \in F
      OBVIOUS
    <3>1. videos[i] \in Videos /\ videos[i] \in Refs
      BY <1>1, LenProperties, ElementOfSeq DEF Refs
    <3> QED
      BY <3>1, WholeParts DEF F
  <2>3. Retimed(all) \in Seq(F) /\ InTime(Retimed(all))
    BY <1>1, <1>2, <2>2, ResetFacts
  <2> HIDE DEF all
  <2>4. segments' \in Seq(F) /\ InTime(segments') /\ videos' = videos
    BY <1>1, <1>2, <2>1, <2>3, Rearranged
  <2> QED
    BY <1>1, <1>5, <2>1, <2>4
<1>14. CASE UNCHANGED segmentVars
  <2>1. videos' = videos /\ segments' = segments /\ clipboard' = clipboard
    BY <1>14 DEF segmentVars
  <2> QED
    BY <1>1, <1>5, <2>1
<1> QED
  BY <1>7, <1>8, <1>9, <1>10, <1>11, <1>12, <1>13, <1>14 DEF Next, Edits

LEMMA EditedMeans == Edited => TimelineOK
<1> SUFFICES ASSUME Edited PROVE TimelineOK
  OBVIOUS
<1> DEFINE F == Fitting(Refs)
<1>1. /\ videos \in Seq(Videos) /\ segments \in Seq(F) /\ InTime(segments) /\ clipboard \in Seq(F)
  BY DEF Edited
<1>2. Movable(F)
  BY FittingParts
<1>3. segments \in Seq(Segment) /\ clipboard \in Seq(Segment)
  BY <1>1, <1>2, MovableSeq
<1>4. TypeOK
  BY <1>1, <1>3 DEF TypeOK
<1>5. Contiguous
  <2> SUFFICES ASSUME NEW i \in DOMAIN segments
               PROVE  segments[i].start = IF i = 1 THEN 0 ELSE End(segments[i - 1])
    BY DEF Contiguous
  <2>1. i \in 1 .. Len(segments) /\ Len(segments) \in Nat
    BY <1>3, SegmentParts
  <2>2. segments[i].start = Until(segments)[i - 1]
    BY <1>1, <1>3, <2>1, TimedParts
  <2>3. CASE i = 1
    BY <1>3, <2>2, <2>3, UntilParts
  <2>4. CASE i # 1
    <3>1. i - 1 \in 1 .. Len(segments)
      BY <2>1, <2>4
    <3>2. End(segments[i - 1]) = Until(segments)[i - 1]
      BY <1>1, <1>3, <3>1, TimedParts
    <3> QED
      BY <2>2, <2>4, <3>2
  <2> QED
    BY <2>3, <2>4
<1>6. ASSUME NEW segs \in Seq(F) PROVE Within(segs)
  <2> SUFFICES ASSUME NEW i \in DOMAIN segs
               PROVE  /\ segs[i].ref \in {videos[j] : j \in DOMAIN videos}
                      /\ segs[i].refStart + segs[i].dur <= RefDuration(segs[i].ref)
    BY DEF Within
  <2>1. segs[i] \in F
    BY LenProperties, ElementOfSeq
  <2> QED
    BY <2>1 DEF Fitting, Pieces, Refs
<1>7. InReference
  BY <1>1, <1>6 DEF InReference
<1> QED
  BY <1>4, <1>5, <1>7 DEF TimelineOK

(* However the timeline is edited, it has no hole and no overlap: every    *)
(* segment begins where the one before it ends, as updateStartTime()       *)
(* leaves them; and no cut, truncation, copy or paste makes a segment, in  *)
(* the timeline or the clipboard, that reaches out of its reference video. *)
THEOREM TimelineCorrect == Spec => []TimelineOK
BY EditedInit, EditedStep, EditedMeans, PTL DEF Spec

-----------------------------------------------------------------------------
(* More about those members of a sequence that are in a set.               *)
LEMMA ChosenAll ==
    ASSUME NEW S, NEW q \in Seq(S)
    PROVE  Chosen(q, S) = q
<1> DEFINE P == {s \in Seq(S) : Chosen(s, S) = s}
<1>1. <<>> \in P
  BY ChosenNone, EmptySeq
<1>2. ASSUME NEW s \in Seq(S), NEW e \in S, s \in P PROVE s \o <<e>> \in P
  <2>1. Chosen(s \o <<e>>, S) = Append(Chosen(s, S), e)
    BY ChosenGrows
  <2>2. Chosen(s, S) = s /\ s \o <<e>> \in Seq(S) /\ Append(s, e) = s \o <<e>>
    BY <1>2, AppendIsConcat
  <2> QED
    BY <2>1, <2>2
<1> HIDE DEF P
<1>3. q \in P
  BY <1>1, <1>2, Growing
<1> QED
  BY <1>3 DEF P

LEMMA ChosenNothing ==
    ASSUME NEW T, NEW q \in Seq(T), NEW S, T \cap S = {}
    PROVE  Chosen(q, S) = <<>>
<1> DEFINE c == Chosen(q, S)
<1>1. c \in Seq({})
  BY ChosenType
<1> HIDE DEF c
<1>2. Len(c) \in Nat /\ \A i \in 1 .. Len(c) : c[i] \in {}
  BY <1>1, LenProperties, ElementOfSeq
<1>3. Len(c) = 0
  <2>1. Len(c) > 0 => 1 \in 1 .. Len(c)
    BY <1>2
  <2> QED
    BY <1>2, <2>1
<1> QED
  BY <1>1, <1>3, EmptySeq DEF c

LEMMA ChosenTwice ==
    ASSUME NEW T, NEW q \in Seq(T), NEW S, NEW R
    PROVE  Chosen(Chosen(q, S), R) = Chosen(q, S \cap R)
<1> DEFINE P == {s \in Seq(T) : Chosen(Chosen(s, S), R) = Chosen(s, S \cap R)}
<1>1. <<>> \in P
  BY ChosenNone, EmptySeq
<1>2. ASSUME NEW s \in Seq(T), NEW e \in T, s \in P PROVE s \o <<e>> \in P
  <2> DEFINE C == Chosen(s, S)
             y == s \o <<e>>
             X == S \cap R
  <2>1. C \in Seq(T) /\ y \in Seq(T) /\ Chosen(C, R) = Chosen(s, X)
    <3>1. C \in Seq(T)
      BY ChosenType
    <3>2. y \in Seq(T)
      OBVIOUS
    <3> QED
      BY <1>2, <3>1, <3>2
  <2>2. Chosen(y, S) = IF e \in S THEN Append(C, e) ELSE C
    BY ChosenGrows
  <2>3. Chosen(y, X) = IF e \in X THEN Append(Chosen(s, X), e) ELSE Chosen(s, X)
    BY ChosenGrows
  <2>4. e \in X <=> e \in S /\ e \in R
    OBVIOUS
  <2> HIDE DEF C, X
  <2>5. Append(C, e) = C \o <<e>>
    BY <2>1, AppendIsConcat
  <2>6. Chosen(C \o <<e>>, R) = IF e \in R THEN Append(Chosen(C, R), e) ELSE Chosen(C, R)
    BY <2>1, ChosenGrows
  <2> HIDE DEF y
  <2>7. Chosen(Chosen(y, S), R) = Chosen(y, X)
    BY <2>1, <2>2, <2>3, <2>4, <2>5, <2>6, Zenon
  <2> QED
    BY <2>1, <2>7 DEF X, y
<1> HIDE DEF P
<1>3. q \in P
  BY <1>1, <1>2, Growing
<1> QED
  BY <1>3 DEF P

LEMMA ChosenSome ==
    ASSUME NEW T, NEW q \in Seq(T), NEW S, NEW k \in DOMAIN q, q[k] \in S
    PROVE  Chosen(q, S) # <<>>
<1>1. /\ SubSeq(q, 1, k - 1) \in Seq(T) /\ SubSeq(q, k + 1, Len(q)) \in Seq(T)
      /\ q[k] \in T
  BY BeforeAndAfter
<1> DEFINE a == SubSeq(q, 1, k - 1)
           b == SubSeq(q, k + 1, Len(q))
           e == q[k]
<1>2. q = (a \o <<e>>) \o b
  BY Divided
<1> HIDE DEF a, b, e
<1>3. a \in Seq(T) /\ b \in Seq(T) /\ e \in T /\ e \in S
  BY <1>1 DEF a, b, e
<1> DEFINE g == a \o <<e>>
           x == Chosen(g, S)
           y == Chosen(b, S)
<1>4. g \in Seq(T)
  BY <1>3
<1>5. x = IF e \in S THEN Append(Chosen(a, S), e) ELSE Chosen(a, S)
  BY <1>3, ChosenGrows
<1> HIDE DEF g
<1>6. Chosen(g \o b, S) = x \o y
  <2> DEFINE L(p, r) == Chosen(p \o r, S) = Chosen(p, S) \o Chosen(r, S)
             W == Seq(T)
  <2>1. \A p, r \in W : L(p, r)
    BY ChosenJoined
  <2>2. g \in W /\ b \in W
    BY <1>3, <1>4, Zenon
  <2> HIDE DEF L, W
  <2>3. L(g, b)
    BY <2>1, <2>2, Zenon
  <2> QED
    BY <2>3, Zenon DEF L, x, y
<1>7. x \in Seq(T) /\ y \in Seq(T) /\ Chosen(a, S) \in Seq(T)
  BY <1>3, <1>4, ChosenType
<1> HIDE DEF x, y
<1>8. x # <<>>
  BY <1>3, <1>5, <1>7, AppendProperties
<1>9. x \o y # <<>>
  BY <1>7, <1>8, ConcatEqualIffEmpty
<1> QED
  BY <1>2, <1>6, <1>9 DEF g

-----------------------------------------------------------------------------
(* What is seen when the timeline is played.                               *)
LEMMA FrameTimesType ==
    ASSUME NEW v \in Videos
    PROVE  /\ FrameTimes(v) \in Seq({t \in Nat : t >= FirstPts[v]})
           /\ FrameTimes(v) \in Seq(Nat)
<1> DEFINE n == NbFrames[v]
           T == {t \in Nat : t >= FirstPts[v]}
           f == FrameTimes(v)
<1>1. n \in Nat /\ FirstPts[v] \in Nat
  BY VideosAssumption
<1>2. f = [k \in 1 .. n |-> FirstPts[v] + FrameTime * (k - 1)]
  BY DEF FrameTimes
<1> HIDE DEF f
<1>3. ASSUME NEW k \in 1 .. n PROVE f[k] \in T
  <2>1. f[k] = FirstPts[v] + 2 * (k - 1)
    BY <1>2 DEF FrameTime
  <2>2. 2 * (k - 1) \in Nat
    BY <1>1
  <2> QED
    BY <1>1, <2>1, <2>2
<1>4. f = [k \in 1 .. n |-> f[k]]
  BY <1>2
<1> HIDE DEF T, n
<1>5. f \in Seq(T)
  BY <1>1, <1>3, <1>4, IsASeq
<1>6. T \subseteq Nat
  BY DEF T
<1>7. f \in Seq(Nat)
  BY <1>5, <1>6, SeqMonotonic
<1> QED
  BY <1>5, <1>7 DEF f, T

LEMMA PictureAtType ==
    ASSUME NEW s \in Segment, NEW pts \in Covered(s)
    PROVE  PictureAt(s, pts) \in Picture
<1>1. s.ref \in Videos /\ s.start \in Nat /\ s.refStart \in Nat /\ s.dur \in Nat
  BY DEF Segment
<1>2. pts \in Nat /\ ShownAt(s, pts) \in Nat
  BY <1>1 DEF Covered, ShownAt
<1> QED
  BY <1>1, <1>2 DEF PictureAt, Picture

(* The pictures of some frames of a segment, and what they are.            *)
Placed(s, q) == [i \in DOMAIN q |-> PictureAt(s, q[i])]
Content == [ref : Videos, frame : Nat]

LEMMA PlacedType ==
    ASSUME NEW s \in Segment, NEW q \in Seq(Covered(s))
    PROVE  Placed(s, q) \in Seq(Picture) /\ Placed(s, <<>>) = <<>>
<1> DEFINE p == Placed(s, q)
           n == Len(q)
<1>1. n \in Nat /\ DOMAIN q = 1 .. n /\ \A i \in 1 .. n : q[i] \in Covered(s)
  BY LenProperties, ElementOfSeq
<1>2. p = [i \in 1 .. n |-> PictureAt(s, q[i])]
  BY <1>1 DEF Placed
<1> HIDE DEF p, n
<1>3. \A i \in 1 .. n : p[i] \in Picture
  BY <1>1, <1>2, PictureAtType
<1>4. p = [i \in 1 .. n |-> p[i]]
  BY <1>2
<1>5. p \in Seq(Picture)
  BY <1>1, <1>3, <1>4, IsASeq
<1>6. Placed(s, <<>>) = <<>>
  BY DEF Placed
<1> QED
  BY <1>5, <1>6 DEF p

LEMMA ShownInType ==
    ASSUME NEW s \in Segment
    PROVE  /\ Chosen(FrameTimes(s.ref), Covered(s)) \in Seq(Covered(s))
           /\ ShownIn(s) = Placed(s, Chosen(FrameTimes(s.ref), Covered(s)))
           /\ ShownIn(s) \in Seq(Picture)
<1> DEFINE C == Covered(s)
           mine == Chosen(FrameTimes(s.ref), C)
<1>1. FrameTimes(s.ref) \in Seq(Nat)
  BY FrameTimesType DEF Segment
<1>2. mine \in Seq(Nat \cap C)
  BY <1>1, ChosenType
<1>3. Nat \cap C \subseteq C
  OBVIOUS
<1> HIDE DEF C
<1>4. mine \in Seq(C)
  BY <1>2, <1>3, SeqMonotonic
<1>5. ShownIn(s) = Placed(s, mine)
  BY Zenon DEF ShownIn, Placed, C
<1> HIDE DEF mine
<1> QED
  BY <1>4, <1>5, PlacedType DEF mine, C

(* The pictures of the first of the segments.                              *)
Showing(u, segs) ==
    /\ Shown(segs) = u[Len(segs)]
    /\ u[0] = <<>>
    /\ \A i \in 1 .. Len(segs) : u[i] = u[i - 1] \o ShownIn(segs[i])

LEMMA ShownSteps == ASSUME NEW segs \in Seq(Segment) PROVE \E u : Showing(u, segs)
<1> DEFINE n == Len(segs)
           R == Seq(Picture)
           step(i, x) == x \o ShownIn(segs[i])
           P(f) == f = [i \in 0 .. n |-> IF i = 0 THEN <<>> ELSE step(i, f[i - 1])]
           u == CHOOSE f : P(f)
           h == [i \in 1 .. n |-> [x \in R |-> step(i, x)]]
<1>1. Shown(segs) = u[n]
  BY Zenon DEF Shown
<1>2. n \in Nat /\ <<>> \in R
  BY LenProperties, EmptySeq
<1>3. ASSUME NEW i \in 1 .. n, NEW x \in R PROVE step(i, x) \in R
  <2>1. ShownIn(segs[i]) \in R
    BY ElementOfSeq, ShownInType
  <2> QED
    BY <2>1, ConcatProperties
<1> HIDE DEF R, n, step
<1>4. \A i \in 1 .. n, x \in R : h[i][x] = step(i, x) /\ h[i][x] \in R
  BY <1>3
<1> HIDE DEF h
<1>5. PICK f \in [0 .. n -> R] : f[0] = <<>> /\ \A i \in 1 .. n : f[i] = h[i][f[i - 1]]
  <2>1. h \in [1 .. n -> [R -> R]]
    BY <1>4 DEF h
  <2>2. Stepwise(n, R, <<>>, h)
    BY <1>2, <2>1 DEF Stepwise
  <2> QED
    BY <2>2, Recursion
<1>6. \A i \in 1 .. n : i - 1 \in 0 .. n /\ i \in 0 .. n /\ i # 0
  BY <1>2
<1>7. \A i \in 1 .. n : f[i] = step(i, f[i - 1])
  BY <1>4, <1>5, <1>6
<1>8. \A i \in 0 .. n : i = 0 \/ i \in 1 .. n
  BY <1>2
<1>9. P(f)
  BY <1>5, <1>7, <1>8
<1>10. P(u)
  BY <1>9, Zenon
<1> HIDE DEF u
<1>11. \A i \in 0 .. n : u[i] = IF i = 0 THEN <<>> ELSE step(i, u[i - 1])
  BY <1>10, Zenon
<1> HIDE DEF P
<1>12. u[0] = <<>> /\ \A i \in 1 .. n : u[i] = step(i, u[i - 1])
  BY <1>2, <1>6, <1>11
<1>13. Showing(u, segs)
  BY <1>1, <1>12 DEF n, step, Showing
<1> QED
  BY <1>13, Zenon

LEMMA ShownGrows ==
    ASSUME NEW q \in Seq(Segment), NEW e \in Segment
    PROVE  /\ Shown(<<>>) = <<>>
           /\ Shown(q \o <<e>>) = Shown(q) \o ShownIn(e)
<1> DEFINE n == Len(q)
           g == q \o <<e>>
<1>1. /\ n \in Nat /\ g \in Seq(Segment) /\ Len(g) = n + 1 /\ g[n + 1] = e
      /\ \A i \in 1 .. n : g[i] = q[i]
  BY AppendIsConcat, AppendProperties, LenProperties
<1>2. <<>> \in Seq(Segment) /\ Len(<<>>) = 0
  BY EmptySeq
<1>3. PICK z : Showing(z, <<>>)
  BY <1>2, ShownSteps
<1>4. Shown(<<>>) = <<>>
  BY <1>2, <1>3 DEF Showing
<1>5. PICK u : Showing(u, q)
  BY ShownSteps
<1> HIDE DEF g
<1>6. PICK w : Showing(w, g)
  BY <1>1, ShownSteps
<1>7. /\ Shown(q) = u[n] /\ u[0] = <<>>
      /\ \A i \in 1 .. n : u[i] = u[i - 1] \o ShownIn(q[i])
  BY <1>5 DEF Showing
<1> HIDE DEF n
<1> DEFINE m == n + 1
<1>8. /\ Shown(g) = w[m] /\ w[0] = <<>> /\ g[m] = e
      /\ \A i \in 1 .. m : w[i] = w[i - 1] \o ShownIn(g[i])
  BY <1>1, <1>6 DEF Showing
<1> HIDE DEF m
<1> DEFINE Q == {i \in 0 .. n : w[i] = u[i]}
<1>9. 0 \in Q
  BY <1>1, <1>7, <1>8
<1>10. ASSUME NEW i \in 1 .. n, i - 1 \in Q PROVE i \in Q
  <2>1. i \in 0 .. n /\ i \in 1 .. m
    BY <1>1 DEF m
  <2>2. w[i - 1] = u[i - 1] /\ g[i] = q[i]
    BY <1>1, <1>10
  <2>3. w[i] = w[i - 1] \o ShownIn(g[i])
    BY <1>8, <2>1
  <2>4. u[i] = u[i - 1] \o ShownIn(q[i])
    BY <1>7
  <2> QED
    BY <2>1, <2>2, <2>3, <2>4
<1> HIDE DEF Q
<1>11. \A i \in 0 .. n : i \in Q
  BY <1>1, <1>9, <1>10, Induction
<1>12. w[n] = u[n]
  <2>1. n \in Q
    BY <1>1, <1>11
  <2> QED
    BY <2>1 DEF Q
<1>13. w[m] = w[n] \o ShownIn(e)
  <2>1. m \in 1 .. m /\ m - 1 = n
    BY <1>1 DEF m
  <2> QED
    BY <1>8, <2>1
<1> QED
  BY <1>4, <1>7, <1>8, <1>12, <1>13 DEF g

LEMMA ShownNone == Shown(<<>>) = <<>>
<1>1. <<>> \in Seq(Segment) /\ Len(<<>>) = 0
  BY EmptySeq
<1>2. PICK z : Showing(z, <<>>)
  BY <1>1, ShownSteps
<1> QED
  BY <1>1, <1>2 DEF Showing

LEMMA ShownType ==
    ASSUME NEW segs \in Seq(Segment)
    PROVE  Shown(segs) \in Seq(Picture)
<1> DEFINE P == {q \in Seq(Segment) : Shown(q) \in Seq(Picture)}
<1>1. <<>> \in P
  BY ShownNone, EmptySeq
<1>2. ASSUME NEW q \in Seq(Segment), NEW e \in Segment, q \in P PROVE q \o <<e>> \in P
  <2>1. q \o <<e>> \in Seq(Segment) /\ Shown(q) \in Seq(Picture)
    BY <1>2
  <2>2. Shown(q \o <<e>>) = Shown(q) \o ShownIn(e)
    BY ShownGrows
  <2>3. ShownIn(e) \in Seq(Picture)
    BY ShownInType
  <2>4. Shown(q) \o ShownIn(e) \in Seq(Picture)
    BY <2>1, <2>3, ConcatProperties
  <2> QED
    BY <2>1, <2>2, <2>4
<1> HIDE DEF P
<1>3. segs \in P
  BY <1>1, <1>2, Growing
<1> QED
  BY <1>3 DEF P

LEMMA ShownJoined ==
    ASSUME NEW a \in Seq(Segment), NEW b \in Seq(Segment)
    PROVE  Shown(a \o b) = Shown(a) \o Shown(b)
<1> DEFINE P == {q \in Seq(Segment) : Shown(a \o q) = Shown(a) \o Shown(q)}
<1>1. <<>> \in P
  <2>1. a \o <<>> = a /\ <<>> \in Seq(Segment)
    BY ConcatEmptySeq, EmptySeq
  <2>2. Shown(a) \o <<>> = Shown(a)
    BY ShownType, ConcatEmptySeq
  <2> QED
    BY <2>1, <2>2, ShownNone
<1>2. ASSUME NEW q \in Seq(Segment), NEW e \in Segment, q \in P PROVE q \o <<e>> \in P
  <2> DEFINE x == a \o q
             y == q \o <<e>>
             A == Shown(a)
             C == Shown(q)
             E == ShownIn(e)
  <2>1. A \in Seq(Picture) /\ C \in Seq(Picture) /\ E \in Seq(Picture)
    BY ShownType, ShownInType
  <2>2. x \in Seq(Segment) /\ y \in Seq(Segment)
    OBVIOUS
  <2>3. a \o y = x \o <<e>>
    BY JoinedThen
  <2>4. Shown(x) = A \o C
    BY <1>2
  <2>5. Shown(y) = C \o E
    BY ShownGrows
  <2> HIDE DEF A, C, E, x, y
  <2>6. Shown(x \o <<e>>) = Shown(x) \o E
    BY <2>2, ShownGrows DEF E
  <2>7. (A \o C) \o E = A \o (C \o E)
    <3> DEFINE J(p, r) == p \o r
               W == Seq(Picture)
    <3>1. \A p, r, s \in W : J(J(p, r), s) = J(p, J(r, s)) /\ J(p, r) \in W
      BY JoinedAssociative, Zenon
    <3>2. A \in W /\ C \in W /\ E \in W
      BY <2>1
    <3> HIDE DEF J, W
    <3>3. J(J(A, C), E) = J(A, J(C, E))
      BY <3>1, <3>2
    <3> QED
      BY <3>3, Zenon DEF J
  <2>8. Shown(a \o y) = A \o Shown(y)
    BY <2>3, <2>4, <2>5, <2>6, <2>7
  <2> QED
    BY <2>2, <2>8 DEF A, y
<1> HIDE DEF P
<1>3. b \in P
  BY <1>1, <1>2, Growing
<1> QED
  BY <1>3 DEF P

LEMMA ChosenMapped ==
    ASSUME NEW T, NEW F, NEW q \in Seq(T), NEW S
    PROVE  Chosen(Mapped(q, F), S) = Mapped(Chosen(q, {x \in T : F[x] \in S}), F)
<1> DEFINE V == {F[x] : x \in T}
           R == {x \in T : F[x] \in S}
           P == {s \in Seq(T) : Chosen(Mapped(s, F), S) = Mapped(Chosen(s, R), F)}
<1>1. (\A x \in T : F[x] \in V) /\ \A x \in T : x \in R <=> F[x] \in S
  OBVIOUS
<1> HIDE DEF V, R
<1>2. <<>> \in P
  BY ChosenNone, EmptySeq, MappedNone
<1>3. ASSUME NEW s \in Seq(T), NEW e \in T, s \in P PROVE s \o <<e>> \in P
  <2> DEFINE M == Mapped(s, F)
             C == Chosen(s, R)
             o == <<e>>
             y == s \o o
             f == F[e]
  <2>1. M \in Seq(V) /\ C \in Seq(T) /\ f \in V
    BY <1>1, MappedType, ChosenType
  <2>2. o \in Seq(T) /\ y \in Seq(T)
    OBVIOUS
  <2>3. Mapped(o, F) = <<f>>
    BY MappedOne
  <2>4. Chosen(y, R) = IF e \in R THEN Append(C, e) ELSE C
    BY ChosenGrows
  <2>5. Append(C, e) = C \o o
    BY <2>1, AppendIsConcat
  <2>6. Chosen(M, S) = Mapped(C, F)
    BY <1>3
  <2> HIDE DEF M, C, o
  <2>7. Mapped(y, F) = M \o Mapped(o, F)
    BY <2>2, MappedJoined DEF M
  <2>8. Mapped(C \o o, F) = Mapped(C, F) \o Mapped(o, F)
    BY <2>1, <2>2, MappedJoined
  <2> HIDE DEF f, y
  <2>9. Chosen(M \o <<f>>, S) = IF f \in S THEN Append(Chosen(M, S), f) ELSE Chosen(M, S)
    BY <2>1, ChosenGrows
  <2> DEFINE D == Chosen(M, S)
  <2>10. Append(D, f) = D \o <<f>>
    BY <2>1, ChosenType, AppendIsConcat
  <2>11. e \in R <=> f \in S
    BY <1>1 DEF f
  <2> HIDE DEF D
  <2>12. Chosen(Mapped(y, F), S) = Mapped(Chosen(y, R), F)
    <3>1. Chosen(Mapped(y, F), S) = IF f \in S THEN D \o <<f>> ELSE D
      BY <2>3, <2>7, <2>9, <2>10 DEF D
    <3>2. Chosen(y, R) = IF f \in S THEN C \o o ELSE C
      BY <2>4, <2>5, <2>11
    <3>3. Mapped(C \o o, F) = D \o <<f>> /\ Mapped(C, F) = D
      BY <2>3, <2>6, <2>8 DEF D
    <3> QED
      BY <3>1, <3>2, <3>3
  <2> QED
    BY <2>2, <2>12 DEF y, o
<1> HIDE DEF P
<1>4. q \in P
  BY <1>2, <1>3, Growing
<1> QED
  BY <1>4 DEF P, R

(* What the pictures are, without the times they are shown at.             *)
Naming(v) == [pts \in Nat |-> [ref |-> v, frame |-> pts]]
Unplaced == [p \in Picture |-> [ref |-> p.ref, frame |-> p.frame]]
Placing(s) == [pts \in Covered(s) |-> PictureAt(s, pts)]

LEMMA PicturesFacts ==
    ASSUME NEW a \in Seq(Picture)
    PROVE  Pictures(a) = Mapped(a, Unplaced) /\ Pictures(a) \in Seq(Content)
<1>1. DOMAIN a = 1 .. Len(a) /\ \A i \in 1 .. Len(a) : a[i] \in Picture
  BY LenProperties, ElementOfSeq
<1>2. \A p \in Picture : /\ Unplaced[p] = [ref |-> p.ref, frame |-> p.frame]
                         /\ Unplaced[p] \in Content
  BY DEF Unplaced, Content, Picture
<1>3. Pictures(a) = Mapped(a, Unplaced)
  BY <1>1, <1>2 DEF Pictures, Mapped
<1>4. Mapped(a, Unplaced) \in Seq(Content)
  BY <1>2, MappedType
<1> QED
  BY <1>3, <1>4

LEMMA PicturesJoined ==
    ASSUME NEW a \in Seq(Picture), NEW b \in Seq(Picture)
    PROVE  Pictures(a \o b) = Pictures(a) \o Pictures(b)
<1>1. a \o b \in Seq(Picture)
  BY ConcatProperties
<1>2. Mapped(a \o b, Unplaced) = Mapped(a, Unplaced) \o Mapped(b, Unplaced)
  BY MappedJoined
<1>3. /\ Pictures(a) = Mapped(a, Unplaced) /\ Pictures(b) = Mapped(b, Unplaced)
      /\ Pictures(a \o b) = Mapped(a \o b, Unplaced)
  BY <1>1, PicturesFacts
<1> QED
  BY <1>2, <1>3

(* The frames of a video that are shown at some of their times.            *)
Frames(v, X) == Mapped(Chosen(FrameTimes(v), X), Naming(v))

(* The pictures of a timeline that are in a set.                           *)
Seen(segs, S) == Pictures(Chosen(Shown(segs), S))

LEMMA SeenFacts ==
    ASSUME NEW segs \in Seq(Segment), NEW S
    PROVE  /\ Chosen(Shown(segs), S) \in Seq(Picture)
           /\ Seen(segs, S) \in Seq(Content)
           /\ Seen(<<>>, S) = <<>>
           /\ Seen(segs, {}) = <<>>
           /\ Pictures(Shown(segs)) = Seen(segs, Picture)
<1> DEFINE q == Shown(segs)
           c == Chosen(q, S)
<1>1. q \in Seq(Picture)
  BY ShownType
<1> HIDE DEF q
<1>2. c \in Seq(Picture)
  BY <1>1, ChosenType
<1>3. Chosen(q, Picture) = q
  BY <1>1, ChosenAll
<1>4. Chosen(q, {}) = <<>>
  <2>1. Picture \cap {} = {}
    OBVIOUS
  <2> QED
    BY <1>1, <2>1, ChosenNothing
<1> HIDE DEF c
<1>5. Pictures(c) \in Seq(Content)
  BY <1>2, PicturesFacts
<1>6. Pictures(<<>>) = <<>>
  BY DEF Pictures
<1>7. Seen(<<>>, S) = <<>>
  BY <1>6, ShownNone, ChosenNone DEF Seen
<1> QED
  BY <1>2, <1>3, <1>4, <1>5, <1>6, <1>7 DEF Seen, c, q

LEMMA SeenJoined ==
    ASSUME NEW S, NEW a \in Seq(Segment), NEW b \in Seq(Segment)
    PROVE  Seen(a \o b, S) = Seen(a, S) \o Seen(b, S)
<1> DEFINE A == Shown(a)
           B == Shown(b)
           CA == Chosen(A, S)
           CB == Chosen(B, S)
<1>1. A \in Seq(Picture) /\ B \in Seq(Picture) /\ Shown(a \o b) = A \o B
  BY ShownType, ShownJoined
<1> HIDE DEF A, B
<1>2. Chosen(A \o B, S) = CA \o CB
  BY <1>1, ChosenJoined
<1>3. CA \in Seq(Picture) /\ CB \in Seq(Picture)
  BY <1>1, ChosenType
<1> HIDE DEF CA, CB
<1>4. Pictures(CA \o CB) = Pictures(CA) \o Pictures(CB)
  BY <1>3, PicturesJoined
<1> QED
  BY <1>1, <1>2, <1>4 DEF Seen, CA, CB, A, B

(* Of one segment: those of its frames that would be shown.                *)
LEMMA SeenSingle ==
    ASSUME NEW s \in Segment, NEW S
    PROVE  Seen(<<s>>, S) = Frames(s.ref, {pts \in Covered(s) : PictureAt(s, pts) \in S})
<1> DEFINE C == Covered(s)
           f == FrameTimes(s.ref)
           mine == Chosen(f, C)
           F == Placing(s)
           R == {pts \in C : PictureAt(s, pts) \in S}
           N == Naming(s.ref)
<1>1. f \in Seq(Nat)
  BY FrameTimesType DEF Segment
<1>2. mine \in Seq(C) /\ ShownIn(s) = Placed(s, mine) /\ ShownIn(s) \in Seq(Picture)
  BY ShownInType
<1>3. \A pts \in C : F[pts] = PictureAt(s, pts) /\ F[pts] \in Picture
  BY PictureAtType DEF Placing
<1>4. Placed(s, mine) = Mapped(mine, F)
  <2> HIDE DEF mine, C, F
  <2>1. DOMAIN mine = 1 .. Len(mine) /\ \A i \in 1 .. Len(mine) : mine[i] \in C
    BY <1>2, LenProperties, ElementOfSeq
  <2> QED
    BY <1>3, <2>1 DEF Placed, Mapped
<1>5. Shown(<<s>>) = ShownIn(s)
  <2>1. <<>> \in Seq(Segment) /\ <<>> \o <<s>> = <<s>>
    OBVIOUS
  <2>2. Shown(<<>> \o <<s>>) = Shown(<<>>) \o ShownIn(s)
    BY <2>1, ShownGrows
  <2>3. <<>> \o ShownIn(s) = ShownIn(s)
    BY <1>2, ConcatEmptySeq
  <2> QED
    BY <2>1, <2>2, <2>3, ShownNone
<1>6. R = {pts \in C : F[pts] \in S}
  BY <1>3
<1>7. C \cap R = R
  OBVIOUS
<1>8. \A pts \in C : N[pts] = Unplaced[F[pts]]
  <2> SUFFICES ASSUME NEW pts \in C PROVE N[pts] = Unplaced[F[pts]]
    OBVIOUS
  <2>1. pts \in Nat
    BY DEF Covered, Segment
  <2>2. PictureAt(s, pts).ref = s.ref /\ PictureAt(s, pts).frame = pts
    BY DEF PictureAt
  <2> QED
    BY <1>3, <2>1, <2>2 DEF Naming, Unplaced
<1> HIDE DEF C, F, N, f
<1>9. Chosen(mine, R) = Chosen(f, R)
  BY <1>1, <1>7, ChosenTwice
<1> HIDE DEF mine, R
<1> DEFINE w == Chosen(mine, R)
<1>10. Chosen(Mapped(mine, F), S) = Mapped(w, F)
  BY <1>2, <1>6, ChosenMapped
<1>11. w \in Seq(C)
  BY <1>2, ChosenType
<1> HIDE DEF w
<1>12. Mapped(w, F) \in Seq(Picture)
  BY <1>3, <1>11, MappedType
<1>13. Pictures(Mapped(w, F)) = Mapped(Mapped(w, F), Unplaced)
  BY <1>12, PicturesFacts
<1>14. Mapped(Mapped(w, F), Unplaced) = Mapped(w, N)
  <2>1. \A i \in DOMAIN w : w[i] \in C
    BY <1>11, LenProperties, ElementOfSeq
  <2> QED
    BY <1>8, <2>1 DEF Mapped
<1>15. Seen(<<s>>, S) = Mapped(w, N)
  BY <1>2, <1>4, <1>5, <1>10, <1>13, <1>14 DEF Seen
<1>16. Frames(s.ref, R) = Mapped(Chosen(f, R), N)
  BY DEF Frames, N, f
<1> QED
  BY <1>9, <1>15, <1>16 DEF w, R, C

LEMMA FramesNone ==
    ASSUME NEW v \in Videos, NEW X, \A t \in X : t \in Int /\ t < FirstPts[v]
    PROVE  Frames(v, X) = <<>>
<1> DEFINE T == {t \in Nat : t >= FirstPts[v]}
           f == FrameTimes(v)
<1>1. f \in Seq(T)
  BY FrameTimesType
<1>2. FirstPts[v] \in Nat
  BY VideosAssumption
<1>3. T \cap X = {}
  BY <1>2
<1> HIDE DEF T, f
<1>4. Chosen(f, X) = <<>>
  BY <1>1, <1>3, ChosenNothing
<1> QED
  BY <1>4, MappedNone DEF Frames, f

(* Segments of which the same is seen, one by one.                         *)
LEMMA SeenSame ==
    ASSUME NEW a \in Seq(Segment), NEW c \in Seq(Segment), Len(c) = Len(a), NEW S, NEW R,
           \A i \in 1 .. Len(a) : Seen(<<c[i]>>, S) = Seen(<<a[i]>>, R)
    PROVE  Seen(c, S) = Seen(a, R)
<1> DEFINE n == Len(a)
           A(i) == SubSeq(a, 1, i)
           C(i) == SubSeq(c, 1, i)
           Q == {i \in 0 .. n : Seen(C(i), S) = Seen(A(i), R)}
<1>1. n \in Nat /\ 0 \in 0 .. n /\ n \in 0 .. n
  BY LenProperties
<1>2. A(0) = <<>> /\ C(0) = <<>> /\ A(n) = a /\ C(n) = c
  BY SubSeqEmpty, SubSeqFull
<1>3. 0 \in Q
  <2>1. <<>> \in Seq(Segment)
    BY EmptySeq
  <2>2. Seen(<<>>, S) = <<>> /\ Seen(<<>>, R) = <<>>
    BY <2>1, SeenFacts
  <2> QED
    BY <1>1, <1>2, <2>2
<1>4. ASSUME NEW i \in 1 .. n, i - 1 \in Q PROVE i \in Q
  <2>1. /\ 1 \in 1 .. n + 1 /\ 1 \in 1 .. n /\ i \in 1 .. n /\ i \in 0 .. n
        /\ i - 1 \in (1 - 1) .. n
    BY <1>1
  <2>2. A(i - 1) \in Seq(Segment) /\ C(i - 1) \in Seq(Segment)
    BY <2>1, Slice
  <2>3. A(i) = A(i - 1) \o <<a[i]>> /\ C(i) = C(i - 1) \o <<c[i]>>
    BY <2>1, SubSeqRecursiveSecond
  <2>4. a[i] \in Segment /\ c[i] \in Segment
    BY ElementOfSeq
  <2> DEFINE x == <<a[i]>>
             y == <<c[i]>>
             b == A(i - 1)
             d == C(i - 1)
  <2>5. x \in Seq(Segment) /\ y \in Seq(Segment)
    BY <2>4
  <2>6. Seen(y, S) = Seen(x, R)
    OBVIOUS
  <2>7. Seen(d, S) = Seen(b, R)
    BY <1>4
  <2>8. A(i) = b \o x /\ C(i) = d \o y
    BY <2>3
  <2>9. b \in Seq(Segment) /\ d \in Seq(Segment)
    BY <2>2
  <2> HIDE DEF x, y, b, d, A, C
  <2>10. Seen(b \o x, R) = Seen(b, R) \o Seen(x, R) /\ Seen(d \o y, S) = Seen(d, S) \o Seen(y, S)
    <3>1. b \in Seq(Segment) /\ x \in Seq(Segment)
      BY <2>5, <2>9
    <3>2. d \in Seq(Segment) /\ y \in Seq(Segment)
      BY <2>5, <2>9
    <3>3. Seen(b \o x, R) = Seen(b, R) \o Seen(x, R)
      BY <3>1, SeenJoined
    <3>4. Seen(d \o y, S) = Seen(d, S) \o Seen(y, S)
      BY <3>2, SeenJoined
    <3> QED
      BY <3>3, <3>4
  <2>11. Seen(d \o y, S) = Seen(b \o x, R)
    BY <2>6, <2>7, <2>10
  <2>12. Seen(C(i), S) = Seen(A(i), R)
    BY <2>8, <2>11
  <2> QED
    BY <2>1, <2>12
<1> HIDE DEF Q
<1>5. \A i \in 0 .. n : i \in Q
  BY <1>1, <1>3, <1>4, Induction
<1>6. n \in Q
  BY <1>1, <1>5
<1> QED
  BY <1>2, <1>6 DEF Q

(* Two sets that agree on the pictures of a segment, or of all of them.    *)
LEMMA SeenAlike ==
    ASSUME NEW s \in Segment, NEW S, NEW R,
           \A pts \in Covered(s) : PictureAt(s, pts) \in S <=> PictureAt(s, pts) \in R
    PROVE  Seen(<<s>>, S) = Seen(<<s>>, R)
<1>1. {pts \in Covered(s) : PictureAt(s, pts) \in S} = {pts \in Covered(s) : PictureAt(s, pts) \in R}
  OBVIOUS
<1> QED
  BY <1>1, SeenSingle

LEMMA SeenAllAlike ==
    ASSUME NEW a \in Seq(Segment), NEW S, NEW R,
           \A i \in 1 .. Len(a) : \A pts \in Covered(a[i]) :
              PictureAt(a[i], pts) \in S <=> PictureAt(a[i], pts) \in R
    PROVE  Seen(a, S) = Seen(a, R)
<1>1. ASSUME NEW i \in 1 .. Len(a) PROVE Seen(<<a[i]>>, S) = Seen(<<a[i]>>, R)
  <2>1. a[i] \in Segment
    BY ElementOfSeq
  <2> QED
    BY <2>1, SeenAlike
<1> QED
  BY <1>1, SeenSame

(* All of a segment, and nothing.                                          *)
LEMMA SeenWhole ==
    ASSUME NEW s \in Segment
    PROVE  Seen(<<s>>, Picture) = Frames(s.ref, Covered(s))
<1>1. {pts \in Covered(s) : PictureAt(s, pts) \in Picture} = Covered(s)
  BY PictureAtType
<1> QED
  BY <1>1, SeenSingle

LEMMA SeenEmpty ==
    ASSUME NEW s \in Segment, IsEmptySegment(s)
    PROVE  Seen(<<s>>, Picture) = <<>>
<1>1. s.ref \in Videos /\ s.refStart \in Nat /\ s.dur \in Nat
  BY DEF Segment
<1>2. FirstPts[s.ref] \in Nat
  BY <1>1, VideosAssumption
<1>3. s.dur = 0 \/ (s.refStart = 0 /\ s.dur = FirstPts[s.ref])
  BY DEF IsEmptySegment
<1>4. \A t \in Covered(s) : t \in Int /\ t < FirstPts[s.ref]
  BY <1>1, <1>2, <1>3 DEF Covered
<1>5. Frames(s.ref, Covered(s)) = <<>>
  BY <1>1, <1>4, FramesNone
<1> QED
  BY <1>5, SeenWhole

(* removeEmptySegments() and updateStartTime() change nothing that is      *)
(* seen.                                                                   *)
LEMMA SeenNoEmpty ==
    ASSUME NEW segs \in Seq(Segment)
    PROVE  Seen(NoEmpty(segs), Picture) = Seen(segs, Picture)
<1> DEFINE P == {q \in Seq(Segment) : Seen(NoEmpty(q), Picture) = Seen(q, Picture)}
<1>1. <<>> \in P
  BY EmptySeq, NoEmptyType
<1>2. ASSUME NEW q \in Seq(Segment), NEW e \in Segment, q \in P PROVE q \o <<e>> \in P
  <2> DEFINE o == <<e>>
             y == q \o o
             x == NoEmpty(o)
             z == NoEmpty(q)
  <2>1. o \in Seq(Segment) /\ y \in Seq(Segment)
    OBVIOUS
  <2>2. x = IF IsEmptySegment(e) THEN <<>> ELSE o
    BY NoEmptySingle
  <2>3. IsEmptySegment(e) => Seen(o, Picture) = <<>>
    BY SeenEmpty
  <2>4. Seen(<<>>, Picture) = <<>>
    BY SeenFacts
  <2>5. Seen(x, Picture) = Seen(o, Picture)
    BY <2>2, <2>3, <2>4
  <2> HIDE DEF o
  <2>6. NoEmpty(y) = z \o x /\ z \in Seq(Segment) /\ x \in Seq(Segment)
    BY <2>1, NoEmptyJoined, NoEmptyType
  <2>7. Seen(z, Picture) = Seen(q, Picture)
    BY <1>2
  <2> HIDE DEF x, z
  <2>8. Seen(y, Picture) = Seen(q, Picture) \o Seen(o, Picture)
    BY <2>1, SeenJoined
  <2> HIDE DEF y
  <2>9. Seen(z \o x, Picture) = Seen(z, Picture) \o Seen(x, Picture)
    BY <2>6, SeenJoined
  <2> QED
    BY <2>1, <2>5, <2>6, <2>7, <2>8, <2>9 DEF y, o
<1> HIDE DEF P
<1>3. segs \in P
  BY <1>1, <1>2, Growing
<1> QED
  BY <1>3 DEF P

LEMMA SeenRetimed ==
    ASSUME NEW segs \in Seq(Segment)
    PROVE  Seen(Retimed(segs), Picture) = Seen(segs, Picture)
<1> DEFINE r == Retimed(segs)
           n == Len(segs)
<1>1. Movable(Segment)
  BY MovedParts DEF Movable
<1>2. /\ r \in Seq(Segment) /\ Len(r) = n
      /\ \A i \in 1 .. n : r[i] = MovedTo(segs[i], Until(segs)[i - 1])
  BY <1>1, RetimedFacts
<1> HIDE DEF r
<1>3. ASSUME NEW i \in 1 .. n PROVE Seen(<<r[i]>>, Picture) = Seen(<<segs[i]>>, Picture)
  <2> DEFINE s == segs[i]
             m == r[i]
  <2>1. s \in Segment /\ m \in Segment /\ n \in Nat
    BY <1>2, ElementOfSeq, LenProperties
  <2>2. i - 1 \in 0 .. n
    BY <2>1
  <2>3. Until(segs)[i - 1] \in Nat
    BY <2>2, UntilParts
  <2>4. m = MovedTo(s, Until(segs)[i - 1])
    BY <1>2
  <2> HIDE DEF s, m
  <2>5. m.ref = s.ref /\ m.refStart = s.refStart /\ m.dur = s.dur
    BY <2>1, <2>3, <2>4, MovedParts
  <2>6. Covered(m) = Covered(s)
    BY <2>5 DEF Covered
  <2>7. Seen(<<m>>, Picture) = Frames(m.ref, Covered(m)) /\ Seen(<<s>>, Picture) = Frames(s.ref, Covered(s))
    BY <2>1, SeenWhole
  <2> QED
    BY <2>5, <2>6, <2>7 DEF m, s
<1> QED
  BY <1>2, <1>3, SeenSame DEF r

LEMMA SeenTidied ==
    ASSUME NEW segs \in Seq(Segment)
    PROVE  Seen(Retimed(NoEmpty(segs)), Picture) = Seen(segs, Picture)
<1>1. NoEmpty(segs) \in Seq(Segment)
  BY NoEmptyType
<1> QED
  BY <1>1, SeenNoEmpty, SeenRetimed

(* What is seen of several sequences of segments, one after the other.     *)
LEMMA SeenOfBoth == \A S : \A a, b \in Seq(Segment) : Seen(a \o b, S) = Seen(a, S) \o Seen(b, S)
BY SeenJoined, Zenon

LEMMA SeenThree ==
    ASSUME NEW S, NEW a \in Seq(Segment), NEW b \in Seq(Segment), NEW c \in Seq(Segment)
    PROVE  Seen((a \o b) \o c, S) = (Seen(a, S) \o Seen(b, S)) \o Seen(c, S)
<1> DEFINE J(x, y) == x \o y
           K(x) == Seen(x, S)
           W == Seq(Segment)
<1>1. \A x, y, z \in W : J(J(x, y), z) = J(x, J(y, z)) /\ J(x, y) \in W
  BY JoinedAssociative, Zenon
<1>2. \A x, y \in W : K(J(x, y)) = J(K(x), K(y))
  BY SeenOfBoth, Zenon
<1>3. a \in W /\ b \in W /\ c \in W
  OBVIOUS
<1> HIDE DEF J, K, W
<1>4. K(J(J(a, b), c)) = J(J(K(a), K(b)), K(c))
  BY <1>1, <1>2, <1>3
<1> QED
  BY <1>4, Zenon DEF J, K

LEMMA SeenFour ==
    ASSUME NEW S, NEW a \in Seq(Segment), NEW b \in Seq(Segment), NEW c \in Seq(Segment),
           NEW d \in Seq(Segment)
    PROVE  Seen((a \o (b \o c)) \o d, S)
             = (Seen(a, S) \o Seen(b, S)) \o (Seen(c, S) \o Seen(d, S))
<1> DEFINE J(x, y) == x \o y
           K(x) == Seen(x, S)
           W == Seq(Segment)
<1>1. \A x, y, z \in W : J(J(x, y), z) = J(x, J(y, z)) /\ J(x, y) \in W
  BY JoinedAssociative, Zenon
<1>2. \A x, y \in W : K(J(x, y)) = J(K(x), K(y))
  BY SeenOfBoth, Zenon
<1>3. a \in W /\ b \in W /\ c \in W /\ d \in W
  OBVIOUS
<1> HIDE DEF J, K, W
<1>4. /\ J(J(a, J(b, c)), d) = J(J(a, b), J(c, d))
      /\ J(a, b) \in W /\ J(c, d) \in W
  <2> DEFINE x == J(a, b)
  <2>1. x \in W /\ J(c, d) \in W /\ J(a, J(b, c)) = J(x, c)
    BY <1>1, <1>3
  <2> HIDE DEF x
  <2>2. J(J(x, c), d) = J(x, J(c, d))
    BY <1>1, <1>3, <2>1
  <2> QED
    BY <2>1, <2>2 DEF x
<1>5. K(J(J(a, b), J(c, d))) = J(J(K(a), K(b)), J(K(c), K(d)))
  BY <1>2, <1>3, <1>4
<1>6. K(J(J(a, J(b, c)), d)) = J(J(K(a), K(b)), J(K(c), K(d)))
  BY <1>4, <1>5
<1> QED
  BY <1>6, Zenon DEF J, K

LEMMA SeenFive ==
    ASSUME NEW S, NEW a \in Seq(Segment), NEW b \in Seq(Segment), NEW c \in Seq(Segment),
           NEW d \in Seq(Segment), NEW e \in Seq(Segment)
    PROVE  Seen((a \o ((b \o c) \o d)) \o e, S)
             = ((Seen(a, S) \o Seen(b, S)) \o Seen(c, S)) \o (Seen(d, S) \o Seen(e, S))
<1> DEFINE J(x, y) == x \o y
           K(x) == Seen(x, S)
           W == Seq(Segment)
<1>1. \A x, y, z \in W : J(J(x, y), z) = J(x, J(y, z)) /\ J(x, y) \in W
  BY JoinedAssociative, Zenon
<1>2. \A x, y \in W : K(J(x, y)) = J(K(x), K(y))
  BY SeenOfBoth, Zenon
<1>3. a \in W /\ b \in W /\ c \in W /\ d \in W /\ e \in W
  OBVIOUS
<1> HIDE DEF J, K, W
<1>4. /\ J(J(a, J(J(b, c), d)), e) = J(J(J(a, b), c), J(d, e))
      /\ J(a, b) \in W /\ J(J(a, b), c) \in W /\ J(d, e) \in W
  <2> DEFINE x == J(b, c)
  <2>1. /\ x \in W /\ J(a, x) \in W /\ J(a, x) = J(J(a, b), c)
        /\ J(a, b) \in W
    BY <1>1, <1>3
  <2> HIDE DEF x
  <2>2. J(a, J(x, d)) = J(J(a, x), d)
    BY <1>1, <1>3, <2>1
  <2>3. J(J(J(a, x), d), e) = J(J(a, x), J(d, e)) /\ J(d, e) \in W
    BY <1>1, <1>3, <2>1
  <2> QED
    BY <2>1, <2>2, <2>3 DEF x
<1>5. /\ K(J(J(J(a, b), c), J(d, e))) = J(K(J(J(a, b), c)), K(J(d, e)))
      /\ K(J(J(a, b), c)) = J(J(K(a), K(b)), K(c)) /\ K(J(d, e)) = J(K(d), K(e))
  BY <1>2, <1>3, <1>4
<1>6. K(J(J(a, J(J(b, c), d)), e)) = J(J(J(K(a), K(b)), K(c)), J(K(d), K(e)))
  BY <1>4, <1>5
<1> QED
  BY <1>6, Zenon DEF J, K

-----------------------------------------------------------------------------
LEMMA Numbers == ASSUME NEW s \in Segment PROVE s.start \in Nat /\ s.dur \in Nat /\ End(s) \in Nat
<1>1. s.start \in Nat /\ s.dur \in Nat
  BY DEF Segment
<1> QED
  BY <1>1 DEF End

(* The segments of a timeline before one of them end before it begins.     *)
LEMMA OneAfterTheOther ==
    ASSUME NEW segs \in Seq(Segment), InTime(segs), NEW i \in 1 .. Len(segs),
           NEW k \in 1 .. Len(segs), i < k
    PROVE  End(segs[i]) <= segs[k].start
<1> DEFINE n == Len(segs)
<1>1. n \in Nat
  BY LenProperties
<1>2. k - 1 \in 0 .. n /\ i \in 0 .. k - 1
  BY <1>1
<1>3. Until(segs)[i] <= Until(segs)[k - 1]
  BY <1>2, UntilRises
<1>4. End(segs[i]) = Until(segs)[i] /\ segs[k].start = Until(segs)[k - 1]
  BY TimedParts
<1> QED
  BY <1>3, <1>4

(* When the pictures of a segment are shown.                               *)
LEMMA WhenShown ==
    ASSUME NEW s \in Segment, NEW t \in Nat, NEW pts \in Covered(s)
    PROVE  /\ pts \in Nat /\ s.refStart <= pts /\ pts < s.refStart + s.dur
           /\ s.start <= ShownAt(s, pts) /\ ShownAt(s, pts) < End(s) /\ ShownAt(s, pts) \in Nat
           /\ ShownAt(s, pts) = s.start + (pts - s.refStart)
           /\ PictureAt(s, pts) \in Before(t) <=> ShownAt(s, pts) < t
           /\ PictureAt(s, pts) \in Since(t) <=> ~(ShownAt(s, pts) < t)
           /\ PictureAt(s, pts) \in Picture
<1>1. s.start \in Nat /\ s.refStart \in Nat /\ s.dur \in Nat
  BY DEF Segment
<1>2. pts \in Nat /\ s.refStart <= pts /\ pts < s.refStart + s.dur
  BY <1>1 DEF Covered
<1> DEFINE a == ShownAt(s, pts)
<1>3. a = s.start + (pts - s.refStart)
  BY DEF ShownAt
<1>4. a \in Nat /\ s.start <= a /\ a < s.start + s.dur
  BY <1>1, <1>2, <1>3
<1> DEFINE p == PictureAt(s, pts)
<1>5. p \in Picture
  BY PictureAtType
<1>6. p.at = a
  BY DEF PictureAt
<1> HIDE DEF p, a
<1>7. p \in Before(t) <=> a < t
  BY <1>5, <1>6 DEF Before
<1>8. p \in Since(t) <=> ~(a < t)
  BY <1>4, <1>5, <1>6 DEF Since
<1> QED
  BY <1>2, <1>3, <1>4, <1>5, <1>7, <1>8 DEF End, p, a

(* What is seen of a timeline, of one segment and of those around it.      *)
LEMMA SeenAround ==
    ASSUME NEW segs \in Seq(Segment), NEW k \in DOMAIN segs, NEW S
    PROVE  Seen(segs, S) = (Seen(SubSeq(segs, 1, k - 1), S) \o Seen(<<segs[k]>>, S))
                            \o Seen(SubSeq(segs, k + 1, Len(segs)), S)
<1> DEFINE a == SubSeq(segs, 1, k - 1)
           b == SubSeq(segs, k + 1, Len(segs))
           o == <<segs[k]>>
<1>1. a \in Seq(Segment) /\ b \in Seq(Segment) /\ segs[k] \in Segment
  BY BeforeAndAfter
<1>2. segs = (a \o o) \o b
  BY Divided
<1>3. o \in Seq(Segment)
  BY <1>1
<1> HIDE DEF a, b, o
<1>4. Seen((a \o o) \o b, S) = (Seen(a, S) \o Seen(o, S)) \o Seen(b, S)
  <2> DEFINE L(x, y, z) == Seen((x \o y) \o z, S) = (Seen(x, S) \o Seen(y, S)) \o Seen(z, S)
             W == Seq(Segment)
  <2>1. \A x, y, z \in W : L(x, y, z)
    BY SeenThree, Zenon
  <2>2. a \in W /\ b \in W /\ o \in W
    BY <1>1, <1>3, Zenon
  <2> HIDE DEF L, W
  <2>3. L(a, o, b)
    BY <2>1, <2>2, Zenon
  <2> QED
    BY <2>3, Zenon DEF L
<1> QED
  BY <1>2, <1>4, Zenon DEF a, b, o

(* What is seen before a time in a segment.                                *)
LEMMA SeenUpto ==
    ASSUME NEW s \in Segment, NEW t \in Nat, s.start <= t, t <= End(s)
    PROVE  Seen(<<s>>, Before(t)) = Seen(<<Upto(s, t)>>, Picture)
<1> DEFINE u == Upto(s, t)
<1>1. s.start \in Nat /\ s.refStart \in Nat /\ s.dur \in Nat /\ End(s) = s.start + s.dur
  BY DEF Segment, End
<1>2. u \in Segment /\ u.ref = s.ref /\ u.refStart = s.refStart /\ u.dur = t - s.start
  BY UptoParts
<1> HIDE DEF u
<1>3. \A pts \in Covered(s) : PictureAt(s, pts) \in Before(t) <=> s.start + (pts - s.refStart) < t
  BY WhenShown
<1>4. {pts \in Covered(s) : PictureAt(s, pts) \in Before(t)} = Covered(u)
  BY <1>1, <1>2, <1>3 DEF Covered
<1>5. Seen(<<u>>, Picture) = Frames(s.ref, Covered(u))
  BY <1>2, SeenWhole
<1> QED
  BY <1>4, <1>5, SeenSingle DEF u

LEMMA SeenFrom ==
    ASSUME NEW s \in Segment, NEW t \in Nat, s.start <= t, t <= End(s)
    PROVE  Seen(<<s>>, Since(t)) = Seen(<<From(s, t)>>, Picture)
<1> DEFINE f == From(s, t)
<1>1. s.start \in Nat /\ s.refStart \in Nat /\ s.dur \in Nat /\ End(s) = s.start + s.dur
  BY DEF Segment, End
<1>2. /\ f \in Segment /\ f.ref = s.ref /\ f.refStart = s.refStart + (t - s.start)
      /\ f.dur = s.dur - (t - s.start)
  BY FromParts
<1> HIDE DEF f
<1>3. \A pts \in Covered(s) : PictureAt(s, pts) \in Since(t) <=> ~(s.start + (pts - s.refStart) < t)
  BY WhenShown
<1>4. {pts \in Covered(s) : PictureAt(s, pts) \in Since(t)} = Covered(f)
  BY <1>1, <1>2, <1>3 DEF Covered
<1>5. Seen(<<f>>, Picture) = Frames(s.ref, Covered(f))
  BY <1>2, SeenWhole
<1> QED
  BY <1>4, <1>5, SeenSingle DEF f

(* The pictures of the segments before one of them, and after it, at a     *)
(* time in it.                                                             *)
LEMMA EarlierPictures ==
    ASSUME NEW segs \in Seq(Segment), InTime(segs), NEW k \in DOMAIN segs, NEW t \in Nat,
           segs[k].start <= t, NEW i \in 1 .. k - 1, NEW pts \in Covered(segs[i])
    PROVE  /\ PictureAt(segs[i], pts) \in Picture /\ PictureAt(segs[i], pts) \in Before(t)
           /\ PictureAt(segs[i], pts) \notin Since(t)
<1> DEFINE s == segs[i]
           at == ShownAt(s, pts)
<1>1. k \in 1 .. Len(segs) /\ Len(segs) \in Nat
  BY BeforeAndAfter
<1>2. i \in 1 .. Len(segs) /\ i < k
  BY <1>1
<1>3. s \in Segment /\ segs[k] \in Segment
  BY <1>1, <1>2, ElementOfSeq
<1>4. End(s) <= segs[k].start
  BY <1>1, <1>2, OneAfterTheOther
<1>5. /\ at < End(s) /\ at \in Nat
      /\ PictureAt(s, pts) \in Before(t) <=> at < t
      /\ PictureAt(s, pts) \in Since(t) <=> ~(at < t)
      /\ PictureAt(s, pts) \in Picture
  BY <1>3, WhenShown
<1>6. End(s) \in Nat /\ segs[k].start \in Nat
  BY <1>3, Numbers
<1> HIDE DEF s, at
<1>7. at < t
  BY <1>4, <1>5, <1>6
<1> QED
  BY <1>5, <1>7 DEF s

LEMMA LaterPictures ==
    ASSUME NEW segs \in Seq(Segment), InTime(segs), NEW k \in DOMAIN segs, NEW t \in Nat,
           t <= End(segs[k]), NEW i \in k + 1 .. Len(segs), NEW pts \in Covered(segs[i])
    PROVE  /\ PictureAt(segs[i], pts) \in Picture /\ PictureAt(segs[i], pts) \in Since(t)
           /\ PictureAt(segs[i], pts) \notin Before(t)
<1> DEFINE s == segs[i]
           at == ShownAt(s, pts)
<1>1. k \in 1 .. Len(segs) /\ Len(segs) \in Nat
  BY BeforeAndAfter
<1>2. i \in 1 .. Len(segs) /\ k < i
  BY <1>1
<1>3. s \in Segment /\ segs[k] \in Segment
  BY <1>1, <1>2, ElementOfSeq
<1>4. End(segs[k]) <= s.start
  BY <1>1, <1>2, OneAfterTheOther
<1>5. /\ s.start <= at /\ at \in Nat
      /\ PictureAt(s, pts) \in Before(t) <=> at < t
      /\ PictureAt(s, pts) \in Since(t) <=> ~(at < t)
      /\ PictureAt(s, pts) \in Picture
  BY <1>3, WhenShown
<1>6. End(segs[k]) \in Nat /\ s.start \in Nat
  BY <1>3, Numbers
<1> HIDE DEF s, at
<1>7. ~(at < t)
  BY <1>4, <1>5, <1>6
<1> QED
  BY <1>5, <1>7 DEF s

(* The segments before one of them, and after it: sets of pictures that    *)
(* agree on those of them that are shown.                                  *)
LEMMA SeenEarlier ==
    ASSUME NEW segs \in Seq(Segment), InTime(segs), NEW k \in DOMAIN segs, NEW t \in Nat,
           segs[k].start <= t, NEW S
    PROVE  LET a == SubSeq(segs, 1, k - 1)
           IN  /\ Seen(a, Before(t)) = Seen(a, Picture)
               /\ S \subseteq Since(t) => Seen(a, S) = <<>>
<1> DEFINE a == SubSeq(segs, 1, k - 1)
<1>1. /\ a \in Seq(Segment) /\ Len(a) = k - 1 /\ \A i \in 1 .. k - 1 : a[i] = segs[i]
  BY BeforeAndAfter
<1> HIDE DEF a
<1>2. ASSUME NEW i \in 1 .. Len(a), NEW pts \in Covered(a[i])
      PROVE  /\ PictureAt(a[i], pts) \in Before(t) /\ PictureAt(a[i], pts) \in Picture
             /\ PictureAt(a[i], pts) \notin Since(t)
  <2>1. i \in 1 .. k - 1 /\ a[i] = segs[i]
    BY <1>1
  <2> QED
    BY <2>1, EarlierPictures
<1>3. Seen(a, Before(t)) = Seen(a, Picture)
  BY <1>1, <1>2, SeenAllAlike
<1>4. S \subseteq Since(t) => Seen(a, S) = Seen(a, {})
  BY <1>1, <1>2, SeenAllAlike
<1>5. Seen(a, {}) = <<>>
  BY <1>1, SeenFacts
<1> QED
  BY <1>3, <1>4, <1>5 DEF a

LEMMA SeenLater ==
    ASSUME NEW segs \in Seq(Segment), InTime(segs), NEW k \in DOMAIN segs, NEW t \in Nat,
           t <= End(segs[k]), NEW S
    PROVE  LET b == SubSeq(segs, k + 1, Len(segs))
           IN  /\ Seen(b, Since(t)) = Seen(b, Picture)
               /\ S \subseteq Before(t) => Seen(b, S) = <<>>
<1> DEFINE b == SubSeq(segs, k + 1, Len(segs))
<1>1. /\ b \in Seq(Segment) /\ Len(b) = Len(segs) - k
      /\ \A i \in 1 .. Len(segs) - k : b[i] = segs[k + i]
      /\ k \in 1 .. Len(segs) /\ Len(segs) \in Nat
  BY BeforeAndAfter
<1> HIDE DEF b
<1>2. ASSUME NEW i \in 1 .. Len(b), NEW pts \in Covered(b[i])
      PROVE  /\ PictureAt(b[i], pts) \in Since(t) /\ PictureAt(b[i], pts) \in Picture
             /\ PictureAt(b[i], pts) \notin Before(t)
  <2> DEFINE j == k + i
  <2>1. j \in k + 1 .. Len(segs) /\ b[i] = segs[j]
    BY <1>1
  <2> HIDE DEF j
  <2> QED
    BY <2>1, LaterPictures
<1>3. Seen(b, Since(t)) = Seen(b, Picture)
  BY <1>1, <1>2, SeenAllAlike
<1>4. S \subseteq Before(t) => Seen(b, S) = Seen(b, {})
  BY <1>1, <1>2, SeenAllAlike
<1>5. Seen(b, {}) = <<>>
  BY <1>1, SeenFacts
<1> QED
  BY <1>3, <1>4, <1>5 DEF b

(* A sequence of pictures is not empty when a part of it is not.           *)
LEMMA SomethingInside ==
    ASSUME NEW T, NEW a \in Seq(T), NEW b \in Seq(T), NEW c \in Seq(T), b # <<>>
    PROVE  (a \o b) \o c # <<>>
<1> DEFINE x == a \o b
<1>1. x \in Seq(T) /\ x # <<>>
  BY ConcatProperties, ConcatEqualIffEmpty
<1> HIDE DEF x
<1>2. x \o c # <<>>
  BY <1>1, ConcatEqualIffEmpty
<1> QED
  BY <1>2 DEF x

(* What is shown at a time is seen from then on.                           *)
LEMMA SeenSince ==
    ASSUME NEW segs \in Seq(Segment), NEW t \in ShownTimes(segs), t \in Nat
    PROVE  Seen(segs, Since(t)) # <<>>
<1>1. PICK i \in DOMAIN segs : t \in TimesIn(segs[i])
  BY DEF ShownTimes
<1> DEFINE s == segs[i]
           f == FrameTimes(s.ref)
           X == {pts \in Covered(s) : PictureAt(s, pts) \in Since(t)}
           c == Chosen(f, X)
           S == Since(t)
<1>2. s \in Segment
  BY BeforeAndAfter
<1>3. f \in Seq(Nat)
  BY <1>2, FrameTimesType DEF Segment
<1>4. PICK pts \in ToSet(f) \cap Covered(s) : t = ShownAt(s, pts)
  BY <1>1 DEF TimesIn
<1>5. pts \in X
  <2>1. pts \in Covered(s)
    BY <1>4
  <2> DEFINE p == PictureAt(s, pts)
  <2>2. p \in Since(t) <=> ~(ShownAt(s, pts) < t)
    BY <1>2, <2>1, WhenShown
  <2> HIDE DEF p, s
  <2>3. ~(ShownAt(s, pts) < t)
    BY <1>4
  <2> QED
    BY <2>1, <2>2, <2>3 DEF p
<1>6. PICK k \in DOMAIN f : f[k] = pts
  BY <1>4 DEF ToSet
<1> HIDE DEF f, X
<1>7. c # <<>>
  BY <1>3, <1>5, <1>6, ChosenSome
<1>8. c \in Seq(Nat)
  BY <1>3, ChosenType
<1> HIDE DEF c
<1>9. Mapped(c, Naming(s.ref)) # <<>>
  <2>1. Len(c) \in Nat /\ Len(c) # 0
    BY <1>7, <1>8, EmptySeq
  <2>2. Len(Mapped(c, Naming(s.ref))) = Len(c)
    BY <1>8, MappedParts
  <2> QED
    BY <2>1, <2>2
<1>10. Seen(<<s>>, S) = Mapped(c, Naming(s.ref))
  BY <1>2, SeenSingle DEF Frames, c, X, f
<1> HIDE DEF s, S
<1> DEFINE a == SubSeq(segs, 1, i - 1)
           b == SubSeq(segs, i + 1, Len(segs))
           o == <<s>>
<1>11. a \in Seq(Segment) /\ b \in Seq(Segment)
  BY BeforeAndAfter
<1>12. o \in Seq(Segment)
  BY <1>2
<1>13. Seen(segs, S) = (Seen(a, S) \o Seen(o, S)) \o Seen(b, S)
  BY SeenAround DEF s
<1> HIDE DEF a, b, o
<1>14. Seen(a, S) \in Seq(Content) /\ Seen(o, S) \in Seq(Content) /\ Seen(b, S) \in Seq(Content)
  BY <1>11, <1>12, SeenFacts
<1>15. Seen(o, S) # <<>>
  BY <1>9, <1>10 DEF o
<1> QED
  BY <1>13, <1>14, <1>15, SomethingInside DEF S

(* What is seen before a time, and from then on, is what is seen of the    *)
(* segments before the one that holds it, and of its halves.               *)
LEMMA SeenDivided ==
    ASSUME NEW segs \in Seq(Segment), InTime(segs), NEW k \in DOMAIN segs, NEW t \in Nat,
           segs[k].start <= t, t <= End(segs[k])
    PROVE  /\ Seen(segs, Before(t)) = Seen(SubSeq(segs, 1, k - 1), Picture)
                                       \o Seen(<<Upto(segs[k], t)>>, Picture)
           /\ Seen(segs, Since(t)) = Seen(<<From(segs[k], t)>>, Picture)
                                      \o Seen(SubSeq(segs, k + 1, Len(segs)), Picture)
<1> DEFINE a == SubSeq(segs, 1, k - 1)
           b == SubSeq(segs, k + 1, Len(segs))
           s == segs[k]
           A == Seen(a, Picture)
           B == Seen(b, Picture)
           H == Seen(<<Upto(s, t)>>, Picture)
           F == Seen(<<From(s, t)>>, Picture)
<1>1. a \in Seq(Segment) /\ b \in Seq(Segment) /\ s \in Segment
  BY BeforeAndAfter
<1>2. Seen(a, Before(t)) = A /\ Seen(a, Since(t)) = <<>>
  BY SeenEarlier
<1>3. Seen(b, Since(t)) = B /\ Seen(b, Before(t)) = <<>>
  BY SeenLater
<1>4. Seen(<<s>>, Before(t)) = H /\ Seen(<<s>>, Since(t)) = F
  BY <1>1, SeenUpto, SeenFrom
<1>5. <<s>> \in Seq(Segment)
  BY <1>1
<1>6. A \in Seq(Content) /\ B \in Seq(Content) /\ H \in Seq(Content) /\ F \in Seq(Content)
  BY <1>1, <1>4, <1>5, SeenFacts
<1>7. Seen(segs, Before(t)) = (A \o H) \o <<>>
  <2>1. Seen(segs, Before(t)) = (Seen(a, Before(t)) \o Seen(<<s>>, Before(t))) \o Seen(b, Before(t))
    BY SeenAround
  <2> HIDE DEF a, b, s, A, H
  <2> QED
    BY <1>2, <1>3, <1>4, <2>1
<1>8. Seen(segs, Since(t)) = (<<>> \o F) \o B
  <2>1. Seen(segs, Since(t)) = (Seen(a, Since(t)) \o Seen(<<s>>, Since(t))) \o Seen(b, Since(t))
    BY SeenAround
  <2> HIDE DEF a, b, s, F, B
  <2> QED
    BY <1>2, <1>3, <1>4, <2>1
<1> HIDE DEF A, B, H, F
<1>9. A \o H \in Seq(Content)
  BY <1>6, ConcatProperties
<1>10. (A \o H) \o <<>> = A \o H
  BY <1>9, ConcatEmptySeq
<1>11. <<>> \o F = F
  BY <1>6, ConcatEmptySeq
<1> QED
  BY <1>7, <1>8, <1>10, <1>11 DEF A, B, H, F, a, b, s

LEMMA PairJoined == ASSUME NEW T, NEW u \in T, NEW f \in T PROVE <<u, f>> = <<u>> \o <<f>>
<1> DEFINE o == <<u>>
           p == <<u, f>>
           a == Append(o, f)
<1>0. o \in Seq(T)
  OBVIOUS
<1>1. Len(o) = 1 /\ o[1] = u
  OBVIOUS
<1>2. p \in Seq(T) /\ Len(p) = 2 /\ p[1] = u /\ p[2] = f
  OBVIOUS
<1> HIDE DEF o, p
<1>3. o \o <<f>> = a
  BY <1>0, AppendIsConcat, Zenon
<1>4. a \in Seq(T) /\ Len(a) = 2 /\ a[1] = u /\ a[2] = f
  <2> DEFINE Grown(q) == /\ Append(q, f) \in Seq(T)
                         /\ Append(q, f) # << >>
                         /\ Len(Append(q, f)) = Len(q) + 1
                         /\ \A i \in 1 .. Len(q) : Append(q, f)[i] = q[i]
                         /\ Append(q, f)[Len(q) + 1] = f
             W == Seq(T)
  <2>0. \A q \in W : Grown(q)
    BY AppendProperties, Zenon
  <2>01. o \in W
    BY <1>0, Zenon
  <2> HIDE DEF W, Grown
  <2>02. Grown(o)
    BY <2>0, <2>01, Zenon
  <2>1. /\ a \in Seq(T) /\ Len(a) = Len(o) + 1 /\ a[Len(o) + 1] = f
        /\ \A i \in 1 .. Len(o) : a[i] = o[i]
    BY <2>02, Zenon DEF Grown
  <2> HIDE DEF a
  <2>2. 1 \in 1 .. Len(o) /\ Len(o) + 1 = 2
    BY <1>1
  <2> QED
    BY <1>1, <2>1, <2>2
<1> HIDE DEF a
<1>5. \A i \in 1 .. Len(a) : a[i] = p[i]
  <2>1. \A i \in 1 .. 2 : i = 1 \/ i = 2
    OBVIOUS
  <2> QED
    BY <1>2, <1>4, <2>1
<1>6. a = p
  BY <1>2, <1>4, <1>5, SeqEqual
<1> QED
  BY <1>3, <1>6 DEF o, p

(* removeChunk(): what is seen is what was seen before the one time and    *)
(* from the other on.                                                      *)
LEMMA SeenCut ==
    ASSUME NEW segs \in Seq(Segment), InTime(segs), NEW from \in Nat, NEW to \in Nat,
           SegAt(segs, from) # 0, SegAt(segs, to) # 0
    PROVE  Seen(Cut(segs, from, to), Picture) = Seen(segs, Before(from)) \o Seen(segs, Since(to))
<1> DEFINE first == SegAt(segs, from)
           last == SegAt(segs, to)
           u == Upto(segs[first], from)
           f == From(segs[last], to)
           a == SubSeq(segs, 1, first - 1)
           b == SubSeq(segs, last + 1, Len(segs))
           all == (a \o <<u, f>>) \o b
<1>1. /\ first \in DOMAIN segs /\ segs[first].start <= from /\ from <= End(segs[first])
      /\ segs[first] \in Segment
  BY SegAtParts, BeforeAndAfter
<1>2. /\ last \in DOMAIN segs /\ segs[last].start <= to /\ to <= End(segs[last])
      /\ segs[last] \in Segment
  BY SegAtParts, BeforeAndAfter
<1>3. u \in Segment /\ f \in Segment
  BY <1>1, <1>2, UptoParts, FromParts
<1>4. Cut(segs, from, to) = Retimed(NoEmpty(all))
  BY DEF Cut
<1> HIDE DEF first, last
<1>5. a \in Seq(Segment) /\ b \in Seq(Segment)
  BY <1>1, <1>2, BeforeAndAfter
<1> DEFINE o == <<u>>
           p == <<f>>
<1>6. Seen(segs, Before(from)) = Seen(a, Picture) \o Seen(o, Picture)
  BY <1>1, SeenDivided
<1>7. Seen(segs, Since(to)) = Seen(p, Picture) \o Seen(b, Picture)
  BY <1>2, SeenDivided
<1> HIDE DEF u, f, a, b
<1>8. o \in Seq(Segment) /\ p \in Seq(Segment)
  BY <1>3
<1>9. <<u, f>> = o \o p
  BY <1>3, PairJoined
<1> HIDE DEF o, p
<1>10. all = (a \o (o \o p)) \o b
  BY <1>9
<1> HIDE DEF all
<1>11. Seen((a \o (o \o p)) \o b, Picture)
        = (Seen(a, Picture) \o Seen(o, Picture)) \o (Seen(p, Picture) \o Seen(b, Picture))
  <2> DEFINE J(x, y) == x \o y
             K(x) == Seen(x, Picture)
             W == Seq(Segment)
  <2>1. \A x, y, z, w \in W : K(J(J(x, J(y, z)), w)) = J(J(K(x), K(y)), J(K(z), K(w)))
    BY SeenFour, Zenon
  <2>2. a \in W /\ o \in W /\ p \in W /\ b \in W
    BY <1>5, <1>8
  <2> HIDE DEF J, K, W
  <2>3. K(J(J(a, J(o, p)), b)) = J(J(K(a), K(o)), J(K(p), K(b)))
    BY <2>1, <2>2
  <2> QED
    BY <2>3, Zenon DEF J, K
<1>12. all \in Seq(Segment)
  BY <1>5, <1>8, <1>10, ConcatProperties
<1>13. Seen(Cut(segs, from, to), Picture) = Seen(all, Picture)
  BY <1>4, <1>12, SeenTidied
<1> QED
  BY <1>6, <1>7, <1>10, <1>11, <1>13, Zenon

(* pasteFromClipBoard(): the pictures of the clipboard between what was    *)
(* seen before the time and from then on.                                  *)
LEMMA SeenPasted ==
    ASSUME NEW segs \in Seq(Segment), NEW clip \in Seq(Segment), InTime(segs), NEW t \in Nat,
           SegAt(segs, t) # 0
    PROVE  Seen(Pasted(segs, clip, t), Picture)
             = (Seen(segs, Before(t)) \o Seen(clip, Picture)) \o Seen(segs, Since(t))
<1> DEFINE at == SegAt(segs, t)
           s == segs[at]
           u == Upto(s, t)
           f == From(s, t)
           a == SubSeq(segs, 1, at - 1)
           b == SubSeq(segs, at + 1, Len(segs))
           m == IF s.start = t THEN Append(clip, s) ELSE <<u>> \o clip \o <<f>>
           all == a \o m \o b
           o == <<u>>
           p == <<f>>
           r == <<s>>
<1>1. at \in DOMAIN segs /\ s.start <= t /\ t <= End(s) /\ s \in Segment
  BY SegAtParts, BeforeAndAfter
<1>2. u \in Segment /\ f \in Segment
  BY <1>1, UptoParts, FromParts
<1>3. Pasted(segs, clip, t) = Retimed(NoEmpty(all))
  BY Zenon DEF Pasted
<1> HIDE DEF at
<1>4. a \in Seq(Segment) /\ b \in Seq(Segment)
  BY <1>1, BeforeAndAfter
<1>5. /\ Seen(segs, Before(t)) = Seen(a, Picture) \o Seen(o, Picture)
      /\ Seen(segs, Since(t)) = Seen(p, Picture) \o Seen(b, Picture)
  BY <1>1, SeenDivided
<1>6. o \in Seq(Segment) /\ p \in Seq(Segment) /\ r \in Seq(Segment)
  BY <1>1, <1>2
<1> HIDE DEF a, b
<1> DEFINE J(v, w) == v \o w
           K(v) == Seen(v, Picture)
           W == Seq(Segment)
           V == Seq(Content)
<1>7. \A v, w, x, y \in W : K(J(J(v, J(w, x)), y)) = J(J(K(v), K(w)), J(K(x), K(y)))
  BY SeenFour, Zenon
<1>8. \A v, w, x, y, z \in W :
        K(J(J(v, J(J(w, x), y)), z)) = J(J(J(K(v), K(w)), K(x)), J(K(y), K(z)))
  BY SeenFive, Zenon
<1>9. \A v \in W : K(v) \in V
  BY SeenFacts, Zenon
<1>10. \A v, w \in W : J(v, w) \in W
  BY JoinedAssociative, Zenon
<1>11. \A v \in V : J(v, <<>>) = v
  BY ConcatEmptySeq, Zenon
<1>12. a \in W /\ b \in W /\ o \in W /\ p \in W /\ r \in W /\ clip \in W
  BY <1>4, <1>6
<1>13. K(all) = J(J(J(K(a), K(o)), K(clip)), J(K(p), K(b))) /\ all \in W
  <2>1. CASE s.start # t
    <3>1. m = J(J(o, clip), p)
      BY <2>1
    <3>2. all = J(J(a, J(J(o, clip), p)), b)
      BY <3>1
    <3> HIDE DEF all, o, p, r, J, K, W, V
    <3>3. K(J(J(a, J(J(o, clip), p)), b)) = J(J(J(K(a), K(o)), K(clip)), J(K(p), K(b)))
      BY <1>8, <1>12
    <3>4. J(o, clip) \in W /\ J(J(o, clip), p) \in W
      BY <1>10, <1>12
    <3>5. all \in W
      BY <1>10, <1>12, <3>2, <3>4
    <3> QED
      BY <3>2, <3>3, <3>5
  <2>2. CASE s.start = t
    <3>1. m = J(clip, r)
      <4>1. m = Append(clip, s)
        BY <2>2
      <4> HIDE DEF m, s
      <4>2. Append(clip, s) = clip \o <<s>>
        BY <1>1, AppendIsConcat
      <4> QED
        BY <4>1, <4>2
    <3>2. all = J(J(a, J(clip, r)), b)
      BY <3>1
    <3>3. K(o) = <<>>
      <4>1. u.dur = t - s.start
        BY <1>1, UptoParts
      <4>2. u.dur = 0
        BY <1>1, <2>2, <4>1 DEF Segment
      <4>3. IsEmptySegment(u)
        BY <4>2 DEF IsEmptySegment
      <4> HIDE DEF u
      <4> QED
        BY <1>2, <4>3, SeenEmpty
    <3>4. K(p) = K(r)
      <4>1. f.ref = s.ref /\ f.refStart = s.refStart + (t - s.start) /\ f.dur = s.dur - (t - s.start)
        BY <1>1, FromParts
      <4> HIDE DEF f, s
      <4>2. s.start \in Nat /\ s.refStart \in Nat /\ s.dur \in Nat
        BY <1>1 DEF Segment
      <4>3. f.refStart = s.refStart /\ f.dur = s.dur
        BY <2>2, <4>1, <4>2
      <4>4. Covered(f) = Covered(s)
        BY <4>3 DEF Covered
      <4>5. K(p) = Frames(f.ref, Covered(f)) /\ K(r) = Frames(s.ref, Covered(s))
        <5>1. f \in Segment /\ s \in Segment
          BY <1>1, <1>2
        <5> QED
          BY <5>1, SeenWhole, Zenon
      <4> QED
        BY <4>1, <4>4, <4>5
    <3> HIDE DEF all, o, p, r, J, K, W, V
    <3>51. K(J(J(a, J(clip, r)), b)) = J(J(K(a), K(clip)), J(K(r), K(b)))
      BY <1>7, <1>12
    <3>52. J(clip, r) \in W
      BY <1>10, <1>12
    <3>53. J(a, J(clip, r)) \in W
      BY <1>10, <1>12, <3>52
    <3>54. J(J(a, J(clip, r)), b) \in W
      BY <1>10, <1>12, <3>53
    <3>5. K(all) = J(J(K(a), K(clip)), J(K(r), K(b))) /\ all \in W
      BY <3>2, <3>51, <3>54, Zenon
    <3>6. J(K(a), K(o)) = K(a)
      BY <1>9, <1>11, <1>12, <3>3
    <3> QED
      BY <3>4, <3>5, <3>6
  <2> QED
    BY <2>1, <2>2
<1>14. K(Retimed(NoEmpty(all))) = K(all)
  <2>1. all \in Seq(Segment)
    BY <1>13
  <2> HIDE DEF all
  <2> QED
    BY <2>1, SeenTidied
<1> HIDE DEF all, o, p, r
<1> QED
  BY <1>3, <1>5, <1>13, <1>14, Zenon

(* appendFromClipBoard().                                                  *)
LEMMA SeenAppended ==
    ASSUME NEW segs \in Seq(Segment), NEW clip \in Seq(Segment)
    PROVE  Seen(Appended(segs, clip), Picture) = Seen(segs, Picture) \o Seen(clip, Picture)
<1> DEFINE all == segs \o clip
<1>1. all \in Seq(Segment)
  BY ConcatProperties
<1>2. Seen(all, Picture) = Seen(segs, Picture) \o Seen(clip, Picture)
  BY SeenJoined, Zenon
<1>3. Appended(segs, clip) = Retimed(all)
  BY DEF Appended
<1> HIDE DEF all
<1> QED
  BY <1>1, <1>2, <1>3, SeenRetimed

(* copyToClipBoard(): a piece shows those pictures of its segment that are *)
(* shown from the one time up to the other.                                *)
LEMMA SeenPiece ==
    ASSUME NEW s \in Segment, NEW from \in Nat, NEW to \in Nat, from <= to, s.start <= to,
           s.start <= from /\ End(s) <= from => s.dur = 0
    PROVE  Seen(<<Piece(s, from, to)>>, Picture) = Seen(<<s>>, Since(from) \cap Before(to))
<1> DEFINE p == Piece(s, from, to)
           S == Since(from) \cap Before(to)
<1>1. s.start \in Nat /\ s.refStart \in Nat /\ s.dur \in Nat /\ End(s) = s.start + s.dur
  BY DEF Segment, End
<1>2. /\ p \in Segment /\ p.ref = s.ref
      /\ p.refStart = IF s.start <= from /\ End(s) > from
                      THEN s.refStart + (from - s.start) ELSE s.refStart
      /\ p.refStart + p.dur = IF s.start <= to /\ End(s) >= to THEN s.refStart + (to - s.start)
                              ELSE s.refStart + s.dur
  BY PieceParts
<1> HIDE DEF p
<1>3. p.refStart \in Nat /\ p.dur \in Nat
  BY <1>2 DEF Segment
<1>4. ASSUME NEW pts \in Covered(s)
      PROVE  PictureAt(s, pts) \in S <=> /\ from <= s.start + (pts - s.refStart)
                                         /\ s.start + (pts - s.refStart) < to
  <2>1. /\ PictureAt(s, pts) \in Since(from) <=> ~(ShownAt(s, pts) < from)
        /\ PictureAt(s, pts) \in Before(to) <=> ShownAt(s, pts) < to
        /\ ShownAt(s, pts) = s.start + (pts - s.refStart) /\ ShownAt(s, pts) \in Nat
    BY WhenShown
  <2> DEFINE x == PictureAt(s, pts)
             at == ShownAt(s, pts)
  <2>2. x \in S <=> x \in Since(from) /\ x \in Before(to)
    OBVIOUS
  <2> HIDE DEF x, at, S
  <2>3. ~(at < from) <=> from <= at
    BY <2>1 DEF at
  <2> QED
    BY <2>1, <2>2, <2>3 DEF x, at
<1> HIDE DEF S
<1>5. ASSUME NEW pts \in Int
      PROVE  pts \in Covered(p) <=> /\ pts \in Covered(s)
                                    /\ from <= s.start + (pts - s.refStart)
                                    /\ s.start + (pts - s.refStart) < to
  <2> DEFINE x == p.refStart + p.dur
  <2>1. pts \in Covered(s) <=> s.refStart <= pts /\ pts < s.refStart + s.dur
    BY <1>1 DEF Covered
  <2>2. pts \in Covered(p) <=> p.refStart <= pts /\ pts < x
    BY <1>3 DEF Covered
  <2>3. x = IF End(s) >= to THEN s.refStart + (to - s.start) ELSE s.refStart + s.dur
    BY <1>2
  <2> HIDE DEF x
  <2>4. CASE s.start <= from /\ End(s) > from
    <3>1. p.refStart = s.refStart + (from - s.start)
      BY <1>2, <2>4
    <3> QED
      BY <1>1, <2>1, <2>2, <2>3, <2>4, <3>1
  <2>5. CASE s.start <= from /\ End(s) <= from
    <3>1. s.dur = 0 /\ p.refStart = s.refStart
      BY <1>1, <1>2, <2>5
    <3>2. pts \notin Covered(s)
      BY <1>1, <2>1, <3>1
    <3>3. x = s.refStart
      BY <1>1, <2>3, <2>5, <3>1
    <3> QED
      BY <1>1, <2>2, <3>1, <3>2, <3>3
  <2>6. CASE s.start > from
    <3>1. p.refStart = s.refStart
      BY <1>1, <1>2, <2>6
    <3> QED
      BY <1>1, <2>1, <2>2, <2>3, <2>6, <3>1
  <2> QED
    BY <1>1, <2>4, <2>5, <2>6
<1>6. Covered(p) \subseteq Int /\ Covered(s) \subseteq Int
  BY <1>1, <1>3 DEF Covered
<1>7. Covered(p) = {pts \in Covered(s) : PictureAt(s, pts) \in S}
  BY <1>4, <1>5, <1>6
<1>8. Seen(<<p>>, Picture) = Frames(s.ref, Covered(p))
  BY <1>2, SeenWhole
<1> QED
  BY <1>7, <1>8, SeenSingle DEF p, S

LEMMA SeenCopied ==
    ASSUME NEW segs \in Seq(Segment), InTime(segs), NEW from \in Nat, NEW to \in Nat, from <= to,
           SegAt(segs, from) # 0, SegAt(segs, to) # 0,
           from < End(segs[SegAt(segs, from)]) \/ from = 0
    PROVE  LET c == Copied(segs, SegAt(segs, from), SegAt(segs, to), from, to)
           IN  Seen(c, Picture) = Seen(segs, Since(from) \cap Before(to))
<1> DEFINE first == SegAt(segs, from)
           last == SegAt(segs, to)
           n == Len(segs)
           c == Copied(segs, first, last, from, to)
           S == Since(from) \cap Before(to)
           a == SubSeq(segs, 1, first - 1)
           m == SubSeq(segs, first, last)
           b == SubSeq(segs, last + 1, n)
<1>1. /\ first \in 1 .. n /\ n \in Nat /\ segs[first] \in Segment
      /\ segs[first].start <= from /\ from <= End(segs[first]) /\ first \in DOMAIN segs
  BY SegAtParts, BeforeAndAfter
<1>2. /\ last \in 1 .. n /\ segs[last] \in Segment /\ last \in DOMAIN segs
      /\ segs[last].start <= to /\ to <= End(segs[last])
  BY SegAtParts, BeforeAndAfter
<1>3. from < End(segs[first]) \/ from = 0
  OBVIOUS
<1>4. from = to => first = last
  OBVIOUS
<1> HIDE DEF first, last
<1>5. segs[first].start \in Nat /\ End(segs[last]) \in Nat
  BY <1>1, <1>2, Numbers
<1>6. first <= last
  <2> SUFFICES ASSUME last < first PROVE FALSE
    BY <1>1, <1>2
  <2>1. End(segs[last]) <= segs[first].start
    BY <1>1, <1>2, OneAfterTheOther
  <2>2. from = to
    BY <1>1, <1>2, <1>5, <2>1
  <2> QED
    BY <1>1, <1>4, <2>2
<1> HIDE DEF n
<1>7. first \in 1 .. n + 1 /\ last \in first - 1 .. n /\ last - first + 1 \in Nat
  BY <1>1, <1>2, <1>6
<1>8. /\ m \in Seq(Segment) /\ Len(m) = last - first + 1
      /\ \A i \in 1 .. (last - first + 1) : m[i] = segs[first + i - 1]
  BY <1>7, Slice DEF n
<1>9. a \in Seq(Segment) /\ b \in Seq(Segment)
  BY <1>1, <1>2, BeforeAndAfter DEF n
<1>10. /\ c \in Seq(Segment) /\ Len(c) = last - first + 1
       /\ \A i \in 1 .. (last - first + 1) : c[i] = Piece(m[i], from, to)
  <2>1. c = [i \in 1 .. (last - first + 1) |-> Piece(segs[first + i - 1], from, to)]
    BY DEF Copied
  <2>2. Copyable(Segment)
    BY PieceParts DEF Copyable
  <2>3. c \in Seq(Segment)
    BY <1>1, <1>2, <2>2, CopiedFacts
  <2> HIDE DEF c, m
  <2>4. Len(c) = last - first + 1
    BY <1>7, <2>1, <2>3, LenProperties
  <2> QED
    BY <1>8, <2>1, <2>3, <2>4
<1> HIDE DEF a, b, m, c, S
<1>11. ASSUME NEW i \in 1 .. Len(m) PROVE Seen(<<c[i]>>, Picture) = Seen(<<m[i]>>, S)
  <2> DEFINE k == first + i - 1
             s == m[i]
  <2>1. k \in 1 .. n /\ first <= k /\ k <= last /\ s = segs[k]
    BY <1>1, <1>2, <1>7, <1>8
  <2> HIDE DEF k
  <2>2. s \in Segment
    BY <1>8, ElementOfSeq
  <2> HIDE DEF s
  <2>3. s.start \in Nat /\ s.dur \in Nat /\ End(s) \in Nat /\ End(s) = s.start + s.dur
    BY <2>2, Numbers DEF End
  <2>4. s.start <= to
    <3>1. CASE k = last
      BY <1>2, <2>1, <3>1
    <3>2. CASE k < last
      <4>1. End(s) <= segs[last].start
        BY <1>1, <1>2, <2>1, <3>2, OneAfterTheOther DEF n
      <4>2. segs[last].start \in Nat
        BY <1>2, Numbers
      <4> QED
        BY <1>2, <2>3, <4>1, <4>2
    <3> QED
      BY <1>2, <2>1, <3>1, <3>2
  <2>5. s.start <= from /\ End(s) <= from => s.dur = 0
    <3>1. CASE k = first
      BY <1>3, <2>1, <2>3, <3>1
    <3>2. CASE first < k
      <4>1. End(segs[first]) <= s.start
        BY <1>1, <2>1, <3>2, OneAfterTheOther DEF n
      <4>2. End(segs[first]) \in Nat
        BY <1>1, Numbers
      <4> QED
        BY <1>1, <2>3, <4>1, <4>2
    <3> QED
      BY <1>1, <2>1, <3>1, <3>2
  <2>6. c[i] = Piece(s, from, to)
    BY <1>8, <1>10 DEF s
  <2> QED
    BY <2>2, <2>4, <2>5, <2>6, SeenPiece DEF s, S
<1>12. Seen(c, Picture) = Seen(m, S)
  BY <1>8, <1>10, <1>11, SeenSame
<1>13. S \subseteq Since(from) /\ S \subseteq Before(to)
  BY DEF S
<1>14. Seen(a, S) = <<>>
  BY <1>1, <1>13, SeenEarlier DEF a
<1>15. Seen(b, S) = <<>>
  BY <1>2, <1>13, SeenLater DEF b, n
<1>16. segs = (a \o m) \o b
  <2>1. SubSeq(segs, 1, first - 1) \o SubSeq(segs, first, last) = SubSeq(segs, 1, last)
    <3>1. 1 \in 1 .. n + 1 /\ first - 1 \in 1 - 1 .. n /\ last \in first - 1 .. n
          /\ first - 1 + 1 = first
      BY <1>1, <1>2, <1>7
    <3> QED
      BY <3>1, ConcatAdjacentSubSeq DEF n
  <2>2. SubSeq(segs, 1, last) \o SubSeq(segs, last + 1, n) = SubSeq(segs, 1, n)
    <3>1. 1 \in 1 .. n + 1 /\ last \in 1 - 1 .. n /\ n \in last .. n
      BY <1>1, <1>2
    <3> QED
      BY <3>1, ConcatAdjacentSubSeq DEF n
  <2>3. SubSeq(segs, 1, n) = segs
    BY SubSeqFull DEF n
  <2> QED
    BY <2>1, <2>2, <2>3 DEF a, m, b
<1>17. Seen(segs, S) = (Seen(a, S) \o Seen(m, S)) \o Seen(b, S)
  <2>1. Seen((a \o m) \o b, S) = (Seen(a, S) \o Seen(m, S)) \o Seen(b, S)
    <3> DEFINE L(x, y, z) == Seen((x \o y) \o z, S) = (Seen(x, S) \o Seen(y, S)) \o Seen(z, S)
               W == Seq(Segment)
    <3>1. \A x, y, z \in W : L(x, y, z)
      BY SeenThree, Zenon
    <3>2. a \in W /\ m \in W /\ b \in W
      BY <1>8, <1>9, Zenon
    <3> HIDE DEF L, W
    <3>3. L(a, m, b)
      BY <3>1, <3>2, Zenon
    <3> QED
      BY <3>3, Zenon DEF L
  <2> QED
    BY <1>16, <2>1, Zenon
<1> DEFINE M == Seen(m, S)
<1>18. M \in Seq(Content)
  BY <1>8, SeenFacts
<1> HIDE DEF M
<1>19. <<>> \o M = M /\ M \o <<>> = M
  BY <1>18, ConcatEmptySeq
<1> QED
  BY <1>12, <1>14, <1>15, <1>17, <1>19 DEF c, S, M, first, last

(* What the timeline is, as far as the edits need it.                      *)
LEMMA EditedParts ==
    ASSUME Edited
    PROVE  /\ segments \in Seq(Segment) /\ InTime(segments) /\ clipboard \in Seq(Segment)
           /\ Divisible(Segment) /\ Movable(Segment)
<1>1. Movable(Fitting(Refs))
  BY FittingParts
<1>2. segments \in Seq(Segment) /\ clipboard \in Seq(Segment)
  BY <1>1, MovableSeq DEF Edited
<1>3. Movable(Segment) /\ Divisible(Segment)
  BY MovedParts, UptoParts, FromParts DEF Movable, Divisible
<1> QED
  BY <1>2, <1>3 DEF Edited

(* What remains of a timeline that is rearranged into something.           *)
LEMMA RearrangedPictures ==
    ASSUME NEW segs \in Seq(Segment), NEW x, Seen(segs, Picture) = x, x # <<>>, Rearrange(segs)
    PROVE  Pictures(Shown(segments')) = x
<1>1. segs # <<>>
  BY SeenFacts
<1>2. segments' = segs
  BY <1>1 DEF Rearrange
<1>3. Pictures(Shown(segs)) = Seen(segs, Picture)
  BY SeenFacts
<1> QED
  BY <1>2, <1>3

LEMMA ShownSeen ==
    ASSUME NEW segs \in Seq(Segment), NEW t
    PROVE  /\ ShownBefore(segs, t) \in Seq(Picture) /\ ShownFrom(segs, t) \in Seq(Picture)
           /\ Shown(segs) \in Seq(Picture)
           /\ Pictures(ShownBefore(segs, t)) = Seen(segs, Before(t))
           /\ Pictures(ShownFrom(segs, t)) = Seen(segs, Since(t))
           /\ Pictures(Shown(segs)) = Seen(segs, Picture)
<1>1. Shown(segs) \in Seq(Picture)
  BY ShownType
<1>2. /\ Chosen(Shown(segs), Before(t)) \in Seq(Picture)
      /\ Chosen(Shown(segs), Since(t)) \in Seq(Picture)
      /\ Pictures(Shown(segs)) = Seen(segs, Picture)
  BY SeenFacts
<1> QED
  BY <1>1, <1>2, Zenon DEF ShownBefore, ShownFrom, Seen

(* A time at which something is shown, in the timeline.                    *)
LEMMA ShownHeld ==
    ASSUME Edited, NEW t \in ShownTimes(segments)
    PROVE  /\ segments # <<>> /\ t \in Nat /\ SegAt(segments, t) # 0
           /\ Seen(segments, Since(t)) # <<>> /\ Seen(segments, Since(t)) \in Seq(Content)
<1>1. segments \in Seq(Segment) /\ InTime(segments)
  BY EditedParts
<1>2. segments # <<>> /\ t \in Nat
  BY <1>1, ShownInTimeline
<1>3. SegAt(segments, t) # 0
  BY <1>1, <1>2, HeldTimes
<1> QED
  BY <1>1, <1>2, <1>3, SeenSince, SeenFacts

LEMMA StartHeld ==
    ASSUME Edited, segments # <<>>, NEW from \in Starts
    PROVE  /\ from \in Nat /\ SegAt(segments, from) # 0
           /\ from < End(segments[SegAt(segments, from)]) \/ from = 0
<1>1. segments \in Seq(Segment) /\ InTime(segments)
  BY EditedParts
<1>2. from \in {0, Total(segments)} \cup ShownTimes(segments)
      /\ (from # 0 => from \in ShownTimes(segments) \ {0})
  BY DEF Starts
<1> DEFINE i == SegAt(segments, from)
<1>3. from \in Nat /\ i # 0 /\ (from # 0 => from + 1 <= End(segments[i]))
  BY <1>1, <1>2, HeldTimes
<1>4. i \in DOMAIN segments
  BY <1>1, <1>3, SegAtParts
<1> HIDE DEF i
<1>5. End(segments[i]) \in Nat
  <2>1. segments[i] \in Segment
    BY <1>1, <1>4, BeforeAndAfter
  <2> QED
    BY <2>1, Numbers
<1>6. from < End(segments[i]) \/ from = 0
  BY <1>3, <1>5
<1> QED
  BY <1>3, <1>6 DEF i

LEMMA CutShows ==
    ASSUME Edited, NEW from \in Starts, NEW to \in ShownTimes(segments), RemoveChunk(from, to)
    PROVE  Pictures(Shown(segments'))
             = Pictures(ShownBefore(segments, from) \o ShownFrom(segments, to))
<1> DEFINE c == Cut(segments, from, to)
           b == ShownBefore(segments, from)
           f == ShownFrom(segments, to)
           B == Seen(segments, Before(from))
           F == Seen(segments, Since(to))
<1>1. segments \in Seq(Segment) /\ InTime(segments) /\ Divisible(Segment)
  BY EditedParts
<1>2. /\ segments # <<>> /\ to \in Nat /\ SegAt(segments, to) # 0
      /\ F # <<>> /\ F \in Seq(Content)
  BY ShownHeld
<1>3. from \in Nat /\ SegAt(segments, from) # 0
  BY <1>2, StartHeld
<1>4. c \in Seq(Segment)
  BY <1>1, <1>2, <1>3, CutFacts
<1>5. Seen(c, Picture) = B \o F
  BY <1>1, <1>2, <1>3, SeenCut
<1>6. Rearrange(c)
  BY DEF RemoveChunk
<1>7. b \in Seq(Picture) /\ f \in Seq(Picture) /\ Pictures(b) = B /\ Pictures(f) = F
  BY <1>1, ShownSeen
<1>8. B \in Seq(Content)
  BY <1>1, SeenFacts
<1> HIDE DEF c, b, f, B, F
<1>9. B \o F # <<>>
  BY <1>2, <1>8, ConcatEqualIffEmpty
<1>10. Pictures(Shown(segments')) = B \o F
  BY <1>4, <1>5, <1>6, <1>9, RearrangedPictures
<1>11. Pictures(b \o f) = Pictures(b) \o Pictures(f)
  BY <1>7, PicturesJoined
<1> QED
  BY <1>7, <1>10, <1>11 DEF b, f

(* Whatever segments the two ends are in, removeChunk() removes from what  *)
(* is seen exactly the pictures shown from the one time up to the other:   *)
(* the halves of the segments at the ends keep theirs, empty segments are  *)
(* dropped without loss, and updateStartTime() changes no picture.         *)
THEOREM CutExact == Spec => CutIsExact
<1>1. Edited /\ [Next]_segmentVars
        => [clipboard' = clipboard =>
              \A from \in Starts, to \in ShownTimes(segments) :
                  from <= to /\ RemoveChunk(from, to) =>
                      Pictures(Shown(segments'))
                        = Pictures(ShownBefore(segments, from) \o ShownFrom(segments, to))
           ]_segmentVars
  BY CutShows
<1>2. Spec => []Edited
  BY EditedInit, EditedStep, PTL DEF Spec
<1> QED
  BY <1>1, <1>2, PTL DEF Spec, CutIsExact

-----------------------------------------------------------------------------
(* The clipboard.                                                          *)
LEMMA CopyShows ==
    ASSUME Edited, NEW from \in Starts, NEW to \in Ends, from <= to, Copy(from, to)
    PROVE  Pictures(Shown(clipboard'))
             = Pictures(Chosen(ShownFrom(segments, from), Before(to)))
<1> DEFINE S == Since(from)
           B == Before(to)
           X == S \cap B
           p == Shown(segments)
<1>1. segments \in Seq(Segment) /\ InTime(segments)
  BY EditedParts
<1>2. PICK first \in SegsAt(segments, from), last \in SegsAt(segments, to) :
         clipboard' = Copied(segments, first, last, from, to)
  BY DEF Copy
<1>3. segments # <<>>
  <2> SUFFICES ASSUME segments = <<>> PROVE FALSE
    OBVIOUS
  <2>1. DOMAIN segments = {}
    OBVIOUS
  <2>2. SegAt(segments, from) \in 0 .. Len(segments)
    <3>1. from \in Nat
      <4>1. \A t \in ShownTimes(segments) : t \in Nat
        BY <1>1, ShownInTimeline
      <4> QED
        BY <4>1 DEF Starts
    <3> QED
      BY <1>1, <3>1, SegAtParts
  <2>3. SegAt(segments, from) = 0
    BY <2>2
  <2> QED
    BY <1>2, <2>1, <2>3 DEF SegsAt
<1>4. /\ from \in Nat /\ SegAt(segments, from) # 0
      /\ from < End(segments[SegAt(segments, from)]) \/ from = 0
  BY <1>3, StartHeld
<1>5. to \in Nat /\ SegAt(segments, to) # 0
  BY <1>1, <1>3, HeldTimes DEF Ends
<1> DEFINE c == Copied(segments, SegAt(segments, from), SegAt(segments, to), from, to)
<1>6. clipboard' = c
  BY <1>2, <1>4, <1>5 DEF SegsAt
<1>7. c \in Seq(Segment)
  <2>1. Copyable(Segment)
    BY PieceParts DEF Copyable
  <2>2. SegAt(segments, from) \in DOMAIN segments /\ SegAt(segments, to) \in DOMAIN segments
    BY <1>1, <1>4, <1>5, SegAtParts
  <2> QED
    BY <1>1, <1>4, <1>5, <2>1, <2>2, CopiedFacts
<1>8. Seen(c, Picture) = Seen(segments, X)
  BY <1>1, <1>4, <1>5, SeenCopied
<1> HIDE DEF c
<1>9. Pictures(Shown(c)) = Seen(c, Picture)
  BY <1>7, SeenFacts
<1>10. p \in Seq(Picture)
  BY <1>1, ShownType
<1> HIDE DEF p, S, B
<1>11. Chosen(Chosen(p, S), B) = Chosen(p, X)
  BY <1>10, ChosenTwice
<1> HIDE DEF X
<1>12. Pictures(Chosen(Chosen(p, S), B)) = Seen(segments, X)
  BY <1>11, Zenon DEF Seen, p
<1> QED
  BY <1>6, <1>8, <1>9, <1>12, Zenon DEF ShownFrom, p, S, B

LEMMA PasteShows ==
    ASSUME Edited, NEW t \in ShownTimes(segments), Paste(t)
    PROVE  Pictures(Shown(segments'))
             = Pictures(ShownBefore(segments, t) \o Shown(clipboard) \o ShownFrom(segments, t))
<1> DEFINE c == Pasted(segments, clipboard, t)
           b == ShownBefore(segments, t)
           k == Shown(clipboard)
           f == ShownFrom(segments, t)
           B == Seen(segments, Before(t))
           K == Seen(clipboard, Picture)
           F == Seen(segments, Since(t))
           x == b \o k
           X == B \o K
<1>1. /\ segments \in Seq(Segment) /\ InTime(segments) /\ Divisible(Segment)
      /\ clipboard \in Seq(Segment)
  BY EditedParts
<1>2. /\ segments # <<>> /\ t \in Nat /\ SegAt(segments, t) # 0
      /\ F # <<>> /\ F \in Seq(Content)
  BY ShownHeld
<1>3. c \in Seq(Segment)
  BY <1>1, <1>2, PastedFacts
<1>4. Seen(c, Picture) = X \o F
  BY <1>1, <1>2, SeenPasted
<1>5. Rearrange(c)
  BY DEF Paste
<1>6. /\ b \in Seq(Picture) /\ f \in Seq(Picture) /\ k \in Seq(Picture)
      /\ Pictures(b) = B /\ Pictures(f) = F /\ Pictures(k) = K
  BY <1>1, ShownSeen
<1>7. B \in Seq(Content) /\ K \in Seq(Content)
  BY <1>1, SeenFacts
<1> HIDE DEF c, b, f, k, B, F, K
<1>8. X \in Seq(Content)
  BY <1>7, ConcatProperties
<1>9. x \in Seq(Picture)
  BY <1>6, ConcatProperties
<1>10. Pictures(x) = X
  BY <1>6, PicturesJoined
<1> HIDE DEF X, x
<1>11. X \o F # <<>>
  BY <1>2, <1>8, ConcatEqualIffEmpty
<1>12. Pictures(Shown(segments')) = X \o F
  BY <1>3, <1>4, <1>5, <1>11, RearrangedPictures
<1>13. Pictures(x \o f) = Pictures(x) \o Pictures(f)
  BY <1>6, <1>9, PicturesJoined
<1> QED
  BY <1>6, <1>10, <1>12, <1>13 DEF b, f, k, x

LEMMA AppendShows ==
    ASSUME Edited, clipboard # <<>>, AppendClip
    PROVE  Pictures(Shown(segments')) = Pictures(Shown(segments) \o Shown(clipboard))
<1> DEFINE c == Appended(segments, clipboard)
           x == segments \o clipboard
           g == Shown(segments)
           k == Shown(clipboard)
<1>1. /\ segments \in Seq(Segment) /\ Movable(Segment) /\ clipboard \in Seq(Segment)
  BY EditedParts
<1>2. c \in Seq(Segment) /\ c = Retimed(x)
  BY <1>1, AppendedFacts DEF Appended
<1>3. x \in Seq(Segment) /\ x # <<>>
  <2>1. x \in Seq(Segment)
    BY <1>1, ConcatProperties
  <2>2. x # <<>>
    BY <1>1, ConcatEqualIffEmpty
  <2> QED
    BY <2>1, <2>2
<1>4. Seen(c, Picture) = Seen(segments, Picture) \o Seen(clipboard, Picture)
  BY <1>1, SeenAppended
<1>5. segments' = c
  <2> HIDE DEF x
  <2>1. Retimed(x) # <<>>
    BY <1>1, <1>3, RetimedInTime
  <2> QED
    BY <1>2, <2>1 DEF AppendClip, Rearrange
<1> HIDE DEF c, x
<1>6. Pictures(Shown(c)) = Seen(c, Picture)
  BY <1>2, SeenFacts
<1>7. /\ g \in Seq(Picture) /\ k \in Seq(Picture)
      /\ Pictures(g) = Seen(segments, Picture) /\ Pictures(k) = Seen(clipboard, Picture)
  BY <1>1, ShownSeen
<1> HIDE DEF g, k
<1>8. Pictures(g \o k) = Pictures(g) \o Pictures(k)
  BY <1>7, PicturesJoined
<1> QED
  BY <1>4, <1>5, <1>6, <1>7, <1>8 DEF g, k

(* copyToClipBoard() takes exactly the pictures shown from the one time up *)
(* to the other, whatever segments it has to shorten; pasteFromClipBoard() *)
(* puts the pictures of the clipboard in front of the one that is shown,   *)
(* whether a segment begins there or one is split, and                     *)
(* appendFromClipBoard() behind the last; no other picture comes or goes.  *)
THEOREM ClipboardExact == Spec => ClipboardIsExact
<1>1. Edited /\ [Next]_segmentVars
        => [/\ clipboard' # clipboard =>
                 \A from \in Starts, to \in Ends :
                     from <= to /\ Copy(from, to) =>
                         Pictures(Shown(clipboard'))
                           = Pictures(Chosen(ShownFrom(segments, from), Before(to)))
            /\ clipboard # <<>> /\ clipboard' = clipboard =>
                 /\ \A t \in ShownTimes(segments) :
                       Paste(t) => Pictures(Shown(segments'))
                                     = Pictures(ShownBefore(segments, t) \o Shown(clipboard)
                                                  \o ShownFrom(segments, t))
                 /\ AppendClip => Pictures(Shown(segments'))
                                    = Pictures(Shown(segments) \o Shown(clipboard))
           ]_segmentVars
  BY CopyShows, PasteShows, AppendShows
<1>2. Spec => []Edited
  BY EditedInit, EditedStep, PTL DEF Spec
<1> QED
  BY <1>1, <1>2, PTL DEF Spec, ClipboardIsExact

-----------------------------------------------------------------------------
(* Markers are unsigned numbers.                                           *)
Times == 0 .. PtsModulus - 1

LEMMA MarkersWrap ==
    /\ \A t \in Int : t % PtsModulus \in Times
    /\ \A t \in Times : t % PtsModulus = t
    /\ Times \subseteq Nat /\ 0 \in Times
<1>1. PtsModulus \in Nat /\ PtsModulus > 0
  BY VideosAssumption, SessionAssumption
<1> QED
  BY <1>1 DEF Times

LEMMA MarkersSet ==
    ASSUME NEW a \in Int, NEW b \in Int, SetMarkers(a, b)
    PROVE  markerA' \in Times /\ markerB' \in Times
BY MarkersWrap DEF SetMarkers

-----------------------------------------------------------------------------
(* The undo queue with any kind of records.                                *)
LEMMA UndoLimit == U!Limit \in Nat /\ U!Limit >= 2
BY SessionAssumption DEF U!Limit

Recordable(R, q, c, e) == q \in Seq(R) /\ c \in Nat /\ e \in R

LEMMA RecordedFacts ==
    ASSUME NEW R, NEW q, NEW c, NEW e, Recordable(R, q, c, e)
    PROVE  /\ U!Recorded(q, c, e) \in Seq(R)
           /\ Len(U!Recorded(q, c, e)) \in Nat \ {0}
           /\ U!Recorded(q, c, e)[Len(U!Recorded(q, c, e))] = e
           /\ c = 0 /\ q # <<>> =>
                 /\ Len(U!Recorded(q, c, e)) >= 2
                 /\ U!Recorded(q, c, e)[Len(U!Recorded(q, c, e)) - 1] = q[Len(q)]
<1> DEFINE d == U!CutDead(q, c)
           t == U!Trim(d)
           L == U!Limit
<1> USE DEF Recordable
<1>1. Len(q) \in Nat /\ \A i \in 1 .. Len(q) : q[i] \in R
  BY LenProperties, ElementOfSeq
<1>2. d \in Seq(R) /\ (c = 0 => d = q)
  <2>1. CASE c > 1 /\ Len(q) > 1
    <3> DEFINE n == Len(q) - c
    <3>1. n \in Int /\ \A i \in 1 .. n : q[i] \in R
      BY <1>1
    <3>2. d = SubSeq(q, 1, n)
      BY <2>1 DEF U!CutDead
    <3> HIDE DEF n, d
    <3>3. d \in Seq(R)
      BY <3>1, <3>2, SubSeqProperties
    <3> QED
      BY <2>1, <3>3
  <2>2. CASE ~(c > 1 /\ Len(q) > 1)
    BY <2>2 DEF U!CutDead
  <2> QED
    BY <2>1, <2>2
<1> HIDE DEF d
<1>3. Len(d) \in Nat /\ (d # <<>> => Len(d) > 0) /\ \A i \in 1 .. Len(d) : d[i] \in R
  BY <1>2, LenProperties, ElementOfSeq, EmptySeq
<1>4. L \in Nat /\ L >= 2
  BY UndoLimit
<1>5. t \in Seq(R) /\ Len(t) \in Nat /\ (d # <<>> => Len(t) >= 1 /\ t[Len(t)] = d[Len(d)])
  <2>1. CASE Len(d) > L
    <3> DEFINE m == Len(d) - L + 2
               n == Len(d)
               s == SubSeq(d, m, n)
    <3>1. t = s
      BY <2>1 DEF U!Trim
    <3>2. m \in Int /\ n \in Int /\ m <= n /\ \A i \in m .. n : i \in 1 .. n
      BY <1>3, <1>4, <2>1
    <3>3. \A i \in m .. n : d[i] \in R
      BY <1>3, <3>2
    <3>4. n - m + 1 = L - 1
      BY <1>3, <1>4
    <3> HIDE DEF m, n
    <3>5. s \in Seq(R) /\ Len(s) = n - m + 1 /\ \A i \in 1 .. n - m + 1 : s[i] = d[m + i - 1]
      BY <3>2, <3>3, SubSeqProperties
    <3> HIDE DEF s
    <3>6. n - m + 1 \in 1 .. n - m + 1 /\ m + (n - m + 1) - 1 = n
      BY <3>2
    <3>7. s[Len(s)] = d[n]
      BY <3>5, <3>6
    <3>8. Len(s) \in Nat /\ Len(s) >= 1
      BY <1>4, <3>4, <3>5
    <3> HIDE DEF t
    <3> QED
      BY <3>1, <3>5, <3>7, <3>8 DEF n
  <2>2. CASE ~(Len(d) > L)
    <3>1. t = d
      BY <2>2 DEF U!Trim
    <3> QED
      BY <1>2, <1>3, <3>1
  <2> QED
    BY <2>1, <2>2
<1> DEFINE r == U!Recorded(q, c, e)
<1>6. r = Append(t, e)
  BY DEF U!Recorded, d
<1> HIDE DEF t, r
<1>7. /\ r \in Seq(R) /\ Len(r) = Len(t) + 1
      /\ \A i \in 1 .. Len(t) : r[i] = t[i]
      /\ r[Len(t) + 1] = e
  BY <1>5, <1>6, AppendProperties
<1>8. Len(r) \in Nat \ {0} /\ r[Len(r)] = e
  BY <1>5, <1>7
<1>9. ASSUME c = 0, q # <<>> PROVE Len(r) >= 2 /\ r[Len(r) - 1] = q[Len(q)]
  <2>1. Len(t) >= 1 /\ t[Len(t)] = q[Len(q)]
    BY <1>2, <1>5, <1>9
  <2>2. Len(t) \in 1 .. Len(t) /\ Len(r) - 1 = Len(t) /\ Len(r) >= 2
    BY <1>5, <1>7, <2>1
  <2> QED
    BY <1>7, <2>1, <2>2
<1> QED
  BY <1>7, <1>8, <1>9 DEF r

LEMMA UndoFacts ==
    ASSUME NEW R, undoQueue \in Seq(R), undo_counter \in Nat, Snapshot \in R,
           U!CanUndo(undoQueue, undo_counter)
    PROVE  /\ U!UndoBase \in Seq(R) /\ U!UndoTarget \in R
           /\ undoQueue # <<>> /\ U!UndoCounter \in Nat
           /\ undo_counter = 0 => U!UndoTarget = undoQueue[Len(undoQueue)]
<1> DEFINE q == undoQueue
           c == undo_counter
           b == U!UndoBase
           k == U!UndoCounter
<1>1. q # <<>> /\ Len(q) \in Nat /\ Len(q) >= c + 1
  BY LenProperties DEF U!CanUndo
<1>2. U!UndoTarget = b[Len(b) - k]
  BY DEF U!UndoTarget
<1>3. CASE c = 0
  <2>1. b = U!Recorded(q, c, Snapshot) /\ k = 1
    BY <1>3 DEF U!UndoBase, U!UndoCounter
  <2> HIDE DEF b, k, q, c
  <2>2. /\ b \in Seq(R) /\ Len(b) \in Nat /\ Len(b) >= 2 /\ b[Len(b) - 1] = q[Len(q)]
    <3>1. q \in Seq(R) /\ c \in Nat
      BY DEF q, c
    <3> DEFINE r == U!Recorded(q, c, Snapshot)
    <3>2. /\ r \in Seq(R) /\ Len(r) \in Nat \ {0}
          /\ (c = 0 /\ q # <<>> => Len(r) >= 2 /\ r[Len(r) - 1] = q[Len(q)])
      BY <3>1, RecordedFacts DEF Recordable
    <3> QED
      BY <1>1, <1>3, <2>1, <3>2
  <2>3. Len(b) - 1 \in 1 .. Len(b)
    BY <2>2
  <2>4. b[Len(b) - k] \in R
    BY <2>1, <2>2, <2>3, ElementOfSeq
  <2> QED
    BY <1>1, <1>2, <2>1, <2>2, <2>4 DEF b, k, q, c
<1>4. CASE c # 0
  <2>1. b = q /\ k = c
    BY <1>4 DEF U!UndoBase, U!UndoCounter
  <2> HIDE DEF b, k, q, c
  <2>2. c \in Nat /\ q \in Seq(R)
    BY DEF c, q
  <2>3. Len(q) - c \in 1 .. Len(q)
    BY <1>1, <1>4, <2>2
  <2>4. q[Len(q) - c] \in R
    BY <2>2, <2>3, ElementOfSeq
  <2> QED
    BY <1>1, <1>2, <1>4, <2>1, <2>2, <2>4 DEF b, k, q, c
<1> QED
  BY <1>3, <1>4

LEMMA RedoFacts ==
    ASSUME NEW R, undoQueue \in Seq(R), undo_counter \in Nat,
           U!CanRedo(undoQueue, undo_counter)
    PROVE  U!RedoTarget \in R /\ undoQueue # <<>> /\ undo_counter - 1 \in Nat
<1>1. Len(undoQueue) \in Nat /\ undo_counter >= 2 /\ Len(undoQueue) >= undo_counter
  BY LenProperties DEF U!CanRedo
<1>2. Len(undoQueue) - undo_counter + 2 \in 1 .. Len(undoQueue)
  BY <1>1
<1>3. U!RedoTarget \in R
  BY <1>2, ElementOfSeq DEF U!RedoTarget
<1> QED
  BY <1>1, <1>3, EmptySeq

-----------------------------------------------------------------------------
(* A session.  What is in the timeline are pieces of the videos that are   *)
(* loaded, something of it would survive removeEmptySegments(), and so it  *)
(* is with every record; while a question is open, the last record is what *)
(* was before.                                                             *)
Playable(vids) ==
    {r \in [segm : Seq(Pieces(vids)), a : Times, b : Times] : InTime(r.segm) /\ Solid(r.segm)}

Pending ==
    question # None =>
        /\ question.kind \in {"delete", "paste"}
        /\ question.kind = "paste" => question.pts \in Nat
        /\ undo_counter = 0
        /\ undoQueue # <<>>
        /\ question.before = undoQueue[Len(undoQueue)]

Loads ==
    /\ videos \in Seq(Videos)
    /\ segments \in Seq(Pieces(Refs)) /\ InTime(segments)
    /\ clipboard \in Seq(Pieces(Refs))
    /\ Loaded => Solid(segments)
    /\ ~Loaded => segments = <<>>

Records ==
    /\ undoQueue \in Seq(Playable(Refs))
    /\ undo_counter \in Nat
    /\ ~Loaded => undoQueue = <<>>

Markers == markerA \in Times /\ markerB \in Times

Session == Loads /\ Markers /\ Records /\ Pending

LEMMA PiecesParts ==
    ASSUME NEW vids
    PROVE  Divisible(Pieces(vids)) /\ Movable(Pieces(vids)) /\ Copyable(Pieces(vids))
BY PiecesDivisible, SetsCopyable DEF Divisible

LEMMA LoadsParts ==
    ASSUME Loads
    PROVE  /\ segments \in Seq(Segment) /\ clipboard \in Seq(Segment)
           /\ Total(segments) \in Nat
           /\ segments # <<>> => Loaded
           /\ Loaded => segments # <<>>
<1>1. segments \in Seq(Pieces(Refs)) /\ clipboard \in Seq(Pieces(Refs))
  BY DEF Loads
<1>2. segments \in Seq(Segment) /\ clipboard \in Seq(Segment)
  BY <1>1, PiecesParts, MovableSeq
<1>3. Solid(segments) => segments # <<>>
  BY DEF Solid
<1> QED
  BY <1>2, <1>3, UntilParts DEF Loads

(* The state is one that can be recorded and restored.                     *)
LEMMA SnapshotPlayable ==
    ASSUME Loads, Markers, Loaded
    PROVE  Snapshot \in Playable(Refs)
<1>1. segments \in Seq(Pieces(Refs)) /\ InTime(segments) /\ Solid(segments)
  BY DEF Loads
<1>2. markerA \in Times /\ markerB \in Times
  BY DEF Markers
<1> QED
  BY <1>1, <1>2 DEF Snapshot, Playable

LEMMA SnapshotState == Loads /\ Markers => Snapshot \in [segm : Seq(Segment), a : Nat, b : Nat]
BY LoadsParts, MarkersWrap DEF Snapshot, Markers

LEMMA PlayableParts ==
    ASSUME NEW vids, NEW r \in Playable(vids)
    PROVE  /\ r.segm \in Seq(Pieces(vids)) /\ r.segm \in Seq(Segment)
           /\ InTime(r.segm) /\ Solid(r.segm)
           /\ r.a \in Times /\ r.b \in Times /\ r = [segm |-> r.segm, a |-> r.a, b |-> r.b]
<1>1. /\ r.segm \in Seq(Pieces(vids)) /\ InTime(r.segm) /\ Solid(r.segm)
      /\ r.a \in Times /\ r.b \in Times /\ r = [segm |-> r.segm, a |-> r.a, b |-> r.b]
  BY DEF Playable
<1>2. Pieces(vids) \subseteq Segment
  BY DEF Pieces
<1>3. r.segm \in Seq(Segment)
  BY <1>1, <1>2, SeqMonotonic
<1> QED
  BY <1>1, <1>3

(* Restoring a record gives the state that was recorded.                   *)
LEMMA Restored ==
    ASSUME NEW vids, NEW r \in Playable(vids), Restore(r)
    PROVE  /\ Snapshot' = r /\ segments' = r.segm /\ videos' = videos
           /\ markerA' \in Times /\ markerB' \in Times
<1>1. r.a \in Times /\ r.b \in Times /\ r = [segm |-> r.segm, a |-> r.a, b |-> r.b]
  BY PlayableParts
<1>2. segments' = r.segm /\ videos' = videos
  BY DEF Restore, SetSegments
<1>3. markerA' = r.a /\ markerB' = r.b
  BY <1>1, MarkersWrap DEF Restore, SetMarkers
<1>4. Snapshot' = [segm |-> r.segm, a |-> r.a, b |-> r.b]
  BY <1>2, <1>3 DEF Snapshot
<1> QED
  BY <1>1, <1>2, <1>3, <1>4

(* addToUndoQueue().                                                       *)
LEMMA RecordAdded ==
    ASSUME Session, Loaded, U!AddRecord
    PROVE  /\ undoQueue' \in Seq(Playable(Refs)) /\ undo_counter' = 0
           /\ undoQueue' # <<>> /\ undoQueue'[Len(undoQueue')] = Snapshot
<1> DEFINE R == Playable(Refs)
           q == undoQueue
           c == undo_counter
           s == Snapshot
<1>1. q \in Seq(R) /\ c \in Nat /\ s \in R
  BY SnapshotPlayable DEF Session, Records
<1>2. undoQueue' = U!Recorded(q, c, s) /\ undo_counter' = 0
  BY DEF U!AddRecord
<1> HIDE DEF R, q, c, s
<1>3. Recordable(R, q, c, s)
  BY <1>1 DEF Recordable
<1>4. undoQueue' \in Seq(R) /\ Len(undoQueue') \in Nat \ {0} /\ undoQueue'[Len(undoQueue')] = s
  BY <1>2, <1>3, RecordedFacts
<1>5. undoQueue' # <<>>
  BY <1>4, EmptySeq
<1> QED
  BY <1>2, <1>4, <1>5 DEF R, s

-----------------------------------------------------------------------------
(* Steps that keep the videos.                                             *)
LEMMA SameVideos ==
    ASSUME videos' = videos
    PROVE  /\ Refs' = Refs /\ (Loaded' <=> Loaded)
           /\ Pieces(Refs)' = Pieces(Refs)
           /\ Playable(Refs)' = Playable(Refs)
<1>1. Refs' = Refs /\ (Loaded' <=> Loaded)
  BY DEF Refs, Loaded
<1>2. Pieces(Refs)' = Pieces(Refs)
  BY <1>1 DEF Pieces
<1>3. Playable(Refs)' = {r \in [segm : Seq(Pieces(Refs)'), a : Times, b : Times] :
                            InTime(r.segm) /\ Solid(r.segm)}
  BY DEF Playable, Times, InTime, Solid
<1> QED
  BY <1>1, <1>2, <1>3 DEF Playable

LEMMA LoadsKept ==
    ASSUME Loads, videos' = videos,
           segments' \in Seq(Pieces(Refs)), InTime(segments'),
           clipboard' \in Seq(Pieces(Refs)),
           Loaded => Solid(segments'), ~Loaded => segments' = <<>>
    PROVE  Loads'
<1>1. Pieces(Refs)' = Pieces(Refs) /\ (Loaded' <=> Loaded)
  BY SameVideos
<1>2. InTime(segments)' /\ (Loaded' => Solid(segments)')
  BY <1>1 DEF InTime, Solid
<1> QED
  BY <1>1, <1>2 DEF Loads

LEMMA RecordsKept ==
    ASSUME Session, videos' = videos, undoQueue' \in Seq(Playable(Refs)), undo_counter' \in Nat,
           ~Loaded => undoQueue' = <<>>
    PROVE  Records'
BY SameVideos DEF Records

LEMMA NoQuestionPending == ASSUME NoQuestion PROVE Pending'
BY DEF NoQuestion, Pending

(* An edit of the timeline that is recorded.                               *)
LEMMA EditDone ==
    ASSUME Session, Loaded, U!AddRecord, videos' = videos,
           segments' \in Seq(Pieces(Refs)), InTime(segments'), Solid(segments'),
           clipboard' \in Seq(Pieces(Refs)), Markers',
           \/ NoQuestion
           \/ /\ question'.kind \in {"delete", "paste"}
              /\ question'.kind = "paste" => question'.pts \in Nat
              /\ question'.before = Snapshot
    PROVE  Session'
<1>1. /\ undoQueue' \in Seq(Playable(Refs)) /\ undo_counter' = 0
      /\ undoQueue' # <<>> /\ undoQueue'[Len(undoQueue')] = Snapshot
  BY RecordAdded
<1>2. Loads'
  BY LoadsKept DEF Session
<1>3. Records'
  BY <1>1, RecordsKept
<1>4. Pending'
  <2>1. CASE NoQuestion
    BY <2>1, NoQuestionPending
  <2>2. CASE ~NoQuestion
    BY <1>1, <2>2 DEF Pending
  <2> QED
    BY <2>1, <2>2
<1> QED
  BY <1>2, <1>3, <1>4 DEF Session

(* A step that leaves timeline and clipboard alone, or nearly so.          *)
LEMMA SameTimeline ==
    ASSUME Loads, UNCHANGED <<videos, segments>>, clipboard' \in Seq(Pieces(Refs))
    PROVE  Loads'
<1>1. videos' = videos /\ segments' = segments
  OBVIOUS
<1>2. /\ segments' \in Seq(Pieces(Refs)) /\ InTime(segments')
      /\ Loaded => Solid(segments')
      /\ ~Loaded => segments' = <<>>
  BY <1>1 DEF Loads
<1> QED
  BY <1>1, <1>2, LoadsKept

(* The times the user can stop at lie in the timeline.                     *)
LEMMA PositionHeld ==
    ASSUME Loads, NEW pts \in Positions
    PROVE  pts \in Nat /\ pts <= Total(segments) /\ SegAt(segments, pts) # 0 /\ Loaded
<1>1. segments \in Seq(Segment) /\ InTime(segments)
  BY LoadsParts DEF Loads
<1>2. pts \in Nat /\ pts <= Total(segments) /\ segments # <<>>
  <2>1. CASE pts \in ShownTimes(segments)
    BY <1>1, <2>1, ShownInTimeline, UntilParts
  <2>2. CASE pts \notin ShownTimes(segments)
    <3>1. PICK i \in DOMAIN segments : pts = segments[i].start
      BY <2>2 DEF Positions
    <3>2. i \in 1 .. Len(segments) /\ i - 1 \in 0 .. Len(segments)
      BY <1>1, <3>1, SegmentParts
    <3>3. pts = Until(segments)[i - 1]
      BY <1>1, <3>1, <3>2, TimedParts
    <3>4. segments # <<>>
      BY <3>1
    <3> QED
      BY <1>1, <3>2, <3>3, <3>4, UntilParts, UntilGrows
  <2> QED
    BY <2>1, <2>2
<1>3. SegAt(segments, pts) # 0
  BY <1>1, <1>2, SegAtParts
<1> QED
  BY <1>2, <1>3, LoadsParts

LEMMA Selection ==
    ASSUME Markers
    PROVE  Earlier \in Nat /\ Later \in Nat /\ Earlier <= Later /\ Earlier \in Times /\ Later \in Times
<1>1. markerA \in Times /\ markerB \in Times /\ markerA \in Nat /\ markerB \in Nat
  BY MarkersWrap DEF Markers
<1> QED
  BY <1>1 DEF Earlier, Later

LEMMA CopyFacts ==
    ASSUME Loads, Markers, Copy(Earlier, Later)
    PROVE  clipboard' \in Seq(Pieces(Refs)) /\ Loaded
<1>1. PICK first \in SegsAt(segments, Earlier), last \in SegsAt(segments, Later) :
         clipboard' = Copied(segments, first, last, Earlier, Later)
  BY DEF Copy
<1>2. Earlier \in Nat /\ Later \in Nat /\ Earlier <= Later
  BY Selection
<1>3. segments \in Seq(Segment) /\ InTime(segments) /\ segments \in Seq(Pieces(Refs))
  BY LoadsParts DEF Loads
<1>4. first \in DOMAIN segments /\ last \in DOMAIN segments
  BY <1>1, <1>2, <1>3, SegAtParts DEF SegsAt
<1>5. clipboard' \in Seq(Pieces(Refs))
  BY <1>1, <1>2, <1>3, <1>4, PiecesParts, CopiedFacts
<1> QED
  BY <1>5 DEF Copy, Loaded

-----------------------------------------------------------------------------
(* The handlers.                                                           *)
LEMMA OpenSession == ASSUME Session, NEW v \in Videos, Open(v) PROVE Session'
<1> DEFINE P == Pieces(Refs')
           w == <<WholeVideo(v)>>
<1>1. videos' = <<v>> /\ segments' = Retimed(w) /\ clipboard' = <<>> /\ ResetMarkers /\ NoQuestion
  BY DEF Open
<1>2. videos' \in Seq(Videos) /\ v \in Refs' /\ Loaded'
  BY <1>1, Single DEF Refs, Loaded
<1>3. WholeVideo(v) \in P /\ ~IsEmptySegment(WholeVideo(v))
  BY <1>2, WholeParts
<1>4. w \in Seq(P) /\ Solid(w)
  BY <1>3, Single
<1>5. Movable(P)
  BY PiecesParts
<1> HIDE DEF P, w
<1>6. segments' \in Seq(P) /\ InTime(segments') /\ Solid(segments')
  BY <1>1, <1>4, <1>5, RetimedFacts, RetimedInTime
<1>7. Pieces(Refs)' = P
  BY DEF P, Pieces
<1>8. <<>> \in Seq(P)
  BY Emptied
<1>9. Loads'
  BY <1>1, <1>2, <1>6, <1>7, <1>8 DEF Loads, InTime, Solid
<1>10. Markers'
  <2>1. Total(segments') \in Nat
    BY <1>5, <1>6, MovableSeq, UntilParts
  <2> QED
    BY <1>1, <2>1, MarkersSet DEF ResetMarkers, Markers
<1>11. undoQueue' = <<>> /\ undo_counter' = undo_counter
  BY DEF Open, ClearUndo, U!ClearRecords, Session, Records, undoVars
<1>12. Records'
  BY <1>11, EmptySeq DEF Session, Records
<1>13. Pending'
  BY <1>1, NoQuestionPending
<1> QED
  BY <1>9, <1>10, <1>12, <1>13 DEF Session

LEMMA CloseSession == ASSUME Session, Close PROVE Session'
<1>1. /\ videos' = <<>> /\ segments' = <<>> /\ clipboard' = <<>>
      /\ undoQueue' = <<>> /\ undo_counter' = undo_counter
      /\ SetMarkers(0, 0) /\ NoQuestion
  BY DEF Close, DeleteAll, U!ClearRecords
<1>2. Loads'
  BY <1>1, Emptied DEF Loads, Loaded, InTime
<1>3. Markers'
  BY <1>1, MarkersSet DEF Markers
<1>4. Records'
  BY <1>1, Emptied DEF Session, Records
<1>5. Pending'
  BY <1>1, NoQuestionPending
<1> QED
  BY <1>2, <1>3, <1>4, <1>5 DEF Session

LEMMA AppendVideoSession == ASSUME Session, NEW v \in Videos, AppendVideo(v) PROVE Session'
<1> DEFINE P == Pieces(Refs')
           w == <<WholeVideo(v)>>
<1>1. Loaded /\ U!AddRecord /\ NoQuestion
  BY DEF AppendVideo
<1>2. undoQueue' \in Seq(Playable(Refs)) /\ undo_counter' = 0
  BY <1>1, RecordAdded
<1>3. Loads /\ Markers
  BY DEF Session
<1>4. CASE AddVideo(v)
  <2>1. videos' \in Seq(Videos) /\ Refs \subseteq Refs' /\ v \in Refs'
    BY <1>3, <1>4, AddVideoRefs DEF Loads
  <2>2. segments' = Appended(segments, w) /\ clipboard' = clipboard /\ videos' = Append(videos, v)
    BY <1>4 DEF AddVideo
  <2>3. segments \in Seq(P) /\ clipboard \in Seq(P)
    BY <1>3, <2>1, MoreVideos DEF Loads
  <2>4. w \in Seq(P) /\ Solid(w)
    BY <2>1, WholeParts, Single
  <2>5. Movable(P)
    BY PiecesParts
  <2>6. Playable(Refs) \subseteq Playable(Refs')
    BY <2>1, MoreVideos DEF Playable
  <2> DEFINE R == Playable(Refs')
  <2> HIDE DEF P, w, R
  <2>7. segments' \in Seq(P) /\ InTime(segments') /\ Solid(segments')
    BY <2>2, <2>3, <2>4, <2>5, AppendedFacts
  <2>8. Pieces(Refs)' = P /\ Playable(Refs)' = R
    BY DEF P, R, Pieces, Playable, Times, InTime, Solid
  <2>9. Loaded'
    <3>1. videos' # <<>>
      BY <1>3, <2>2, AppendProperties DEF Loads
    <3> QED
      BY <3>1 DEF Loaded
  <2>10. Loads'
    BY <2>1, <2>2, <2>3, <2>7, <2>8, <2>9 DEF Loads, InTime, Solid
  <2>11. undoQueue' \in Seq(R)
    BY <1>2, <2>6, SeqMonotonic DEF R
  <2>12. Records'
    BY <1>2, <2>8, <2>9, <2>11 DEF Records
  <2>13. Markers'
    <3>1. Total(segments') \in Nat
      BY <2>5, <2>7, MovableSeq, UntilParts
    <3>2. markerA \in Int /\ markerB \in Int
      BY <1>3, MarkersWrap DEF Markers
    <3>3. SetMarkers(markerA, IF MarkersUntouched THEN Total(segments') ELSE markerB)
          \/ UNCHANGED <<markerA, markerB>>
      BY DEF AppendVideo
    <3>4. (IF MarkersUntouched THEN Total(segments') ELSE markerB) \in Int
      BY <3>1, <3>2
    <3>5. CASE SetMarkers(markerA, IF MarkersUntouched THEN Total(segments') ELSE markerB)
      <4> DEFINE b == IF MarkersUntouched THEN Total(segments') ELSE markerB
      <4> HIDE DEF b
      <4> QED
        BY <3>2, <3>4, <3>5, MarkersSet DEF Markers, b
    <3>6. CASE UNCHANGED <<markerA, markerB>>
      BY <1>3, <3>6 DEF Markers
    <3> QED
      BY <3>3, <3>5, <3>6
  <2> QED
    BY <1>1, <2>10, <2>12, <2>13, NoQuestionPending DEF Session
<1>5. CASE UNCHANGED <<segmentVars, markerA, markerB>>
  <2>1. /\ videos' = videos /\ segments' = segments /\ clipboard' = clipboard
        /\ markerA' = markerA /\ markerB' = markerB
    BY <1>5 DEF segmentVars
  <2>2. Loads'
    BY <1>3, <2>1, SameTimeline DEF Loads
  <2>3. Records'
    BY <1>1, <1>2, <2>1, RecordsKept
  <2>4. Markers'
    BY <1>3, <2>1 DEF Markers
  <2> QED
    BY <1>1, <2>2, <2>3, <2>4, NoQuestionPending DEF Session
<1> QED
  BY <1>4, <1>5 DEF AppendVideo

(* A handler that records the state and changes nothing but the markers.   *)
LEMMA MarkersSession ==
    ASSUME Session, Loaded, U!AddRecord, UNCHANGED segmentVars, Markers', NoQuestion
    PROVE  Session'
<1>1. videos' = videos /\ segments' = segments /\ clipboard' = clipboard
  BY DEF segmentVars
<1>2. /\ segments' \in Seq(Pieces(Refs)) /\ InTime(segments') /\ Solid(segments')
      /\ clipboard' \in Seq(Pieces(Refs))
  BY <1>1 DEF Session, Loads
<1> QED
  BY <1>1, <1>2, EditDone

LEMMA SetMarkerSession == ASSUME Session, SetMarker PROVE Session'
<1>1. PICK pts \in Positions : Mark(pts, markerB) \/ Mark(markerA, pts)
  BY DEF SetMarker
<1>2. pts \in Int /\ Loaded
  BY PositionHeld DEF Session
<1>3. markerA \in Int /\ markerB \in Int
  BY MarkersWrap DEF Session, Markers
<1>4. \A a, b \in Int : Mark(a, b) => Markers'
  <2> SUFFICES ASSUME NEW a \in Int, NEW b \in Int, Mark(a, b) PROVE Markers'
    OBVIOUS
  <2>1. SetMarkers(b, a) \/ SetMarkers(a, b)
    BY DEF Mark
  <2> QED
    BY <2>1, MarkersSet DEF Markers
<1>5. Markers'
  BY <1>1, <1>2, <1>3, <1>4
<1> QED
  BY <1>2, <1>5, MarkersSession DEF SetMarker

(* The markers that A_ResetMarkers() sets.                                 *)
LEMMA ResetMarkersSet ==
    ASSUME ResetMarkers, segments' \in Seq(Segment)
    PROVE  Markers'
BY UntilParts, MarkersSet DEF ResetMarkers, Markers

LEMMA ResetSelectionSession == ASSUME Session, ResetSelection PROVE Session'
<1>1. segments' \in Seq(Segment)
  BY LoadsParts DEF ResetSelection, segmentVars, Session
<1> QED
  BY <1>1, ResetMarkersSet, MarkersSession DEF ResetSelection

LEMMA KeptMarkers ==
    ASSUME Markers, KeepMarkers
    PROVE  markerA' = markerA /\ markerB' = markerB /\ Markers'
BY MarkersWrap DEF Markers, KeepMarkers, SetMarkers

LEMMA CopySelectionSession == ASSUME Session, CopySelection PROVE Session'
<1>1. Loads /\ Markers /\ Records
  BY DEF Session
<1>2. videos' = videos /\ segments' = segments /\ undoQueue' = undoQueue /\ undo_counter' = undo_counter
  BY DEF CopySelection, undoVars
<1>3. clipboard' \in Seq(Pieces(Refs))
  BY <1>1, CopyFacts DEF CopySelection
<1>4. Loads'
  BY <1>1, <1>2, <1>3, SameTimeline
<1>5. Records'
  BY <1>1, <1>2, RecordsKept DEF Records
<1> QED
  BY <1>1, <1>4, <1>5, KeptMarkers, NoQuestionPending DEF CopySelection, Session

(* ACT_Cut, ACT_Delete.                                                    *)
LEMMA WithoutFacts ==
    ASSUME Loads, Markers, NEW lastFrame \in BOOLEAN
    PROVE  /\ Without(lastFrame) \in Seq(Pieces(Refs))
           /\ InTime(Without(lastFrame))
           /\ Without(lastFrame) # <<>> => Solid(Without(lastFrame))
<1> DEFINE P == Pieces(Refs)
           w == Without(lastFrame)
           first == SegAt(segments, Earlier)
<1>1. Earlier \in Nat /\ Later \in Nat /\ segments \in Seq(P) /\ InTime(segments)
  BY Selection DEF Loads
<1>2. Divisible(P)
  BY PiecesParts
<1> HIDE DEF P
<1>3. CASE first = 0 \/ SegAt(segments, Later) = 0
  BY <1>3, Emptied DEF Without, InTime
<1>4. CASE first # 0 /\ SegAt(segments, Later) # 0 /\ lastFrame
  <2>1. w = Truncated(segments, Earlier)
    BY <1>4 DEF Without
  <2>2. Upto(segments[first], Earlier + 1) \in P
    <3>1. segments[first] \in P /\ segments[first] \in Segment /\ segments[first].start <= Earlier
      BY <1>1, <1>2, <1>4, DivideAt
    <3> HIDE DEF first
    <3>2. segments[first].start <= Earlier + 1 /\ Earlier + 1 \in Nat
      BY <1>1, <3>1 DEF Segment
    <3> QED
      BY <3>1, <3>2, UptoParts DEF P, Pieces
  <2> HIDE DEF w
  <2> QED
    BY <1>1, <1>2, <1>4, <2>1, <2>2, TruncatedFacts DEF w, P
<1>5. CASE first # 0 /\ SegAt(segments, Later) # 0 /\ ~lastFrame
  <2>1. w = Cut(segments, Earlier, Later)
    BY <1>5 DEF Without
  <2> HIDE DEF w
  <2> QED
    BY <1>1, <1>2, <1>5, <2>1, CutFacts DEF w, P
<1> QED
  BY <1>3, <1>4, <1>5

LEMMA DeleteSelectionSession == ASSUME Session, DeleteSelection PROVE Session'
<1> DEFINE lastFrame == Later = Total(segments) \/ AtLastFrame(Later)
           rest == Without(lastFrame)
<1>1. Loads /\ Markers
  BY DEF Session
<1>2. /\ Loaded /\ U!AddRecord /\ videos' = videos
      /\ segments' = (IF rest = <<>> THEN segments ELSE rest)
      /\ Copy(Earlier, Later) \/ clipboard' = clipboard
      /\ KeepMarkers \/ ResetMarkers
      /\ NoQuestion \/ Asks([kind |-> "delete", before |-> Snapshot])
  BY DEF DeleteSelection, SetSegments
<1>3. /\ rest \in Seq(Pieces(Refs)) /\ InTime(rest)
      /\ rest # <<>> => Solid(rest)
  <2>1. lastFrame \in BOOLEAN
    BY DEF AtLastFrame
  <2> HIDE DEF lastFrame
  <2> QED
    BY <1>1, <2>1, WithoutFacts
<1> HIDE DEF rest
<1>4. segments' \in Seq(Pieces(Refs)) /\ InTime(segments') /\ Solid(segments')
  BY <1>1, <1>2, <1>3 DEF Loads
<1>5. clipboard' \in Seq(Pieces(Refs))
  BY <1>1, <1>2, CopyFacts DEF Loads
<1>6. Markers'
  <2>1. segments' \in Seq(Segment)
    BY <1>4, PiecesParts, MovableSeq
  <2> QED
    BY <1>1, <1>2, <2>1, KeptMarkers, ResetMarkersSet
<1>7. NoQuestion \/ (question'.kind = "delete" /\ question'.before = Snapshot)
  BY <1>2 DEF Asks
<1> QED
  BY <1>2, <1>4, <1>5, <1>6, <1>7, EditDone

(* ACT_Paste.                                                              *)
LEMMA ShiftedMarkers ==
    ASSUME Markers, NEW pts \in Nat, NEW growth \in Int, Shifted(pts, growth)
    PROVE  Markers'
<1> DEFINE behind == Earlier > pts
           a == (IF behind THEN Earlier + growth ELSE Earlier) % PtsModulus
           b == (IF behind THEN Later + growth ELSE Later) % PtsModulus
           c == IF a <= pts /\ pts <= b THEN b + growth ELSE b
<1>1. Earlier \in Int /\ Later \in Int
  BY Selection
<1>2. SetMarkers(a, c)
  BY DEF Shifted
<1>3. a \in Int /\ b \in Int
  <2>1. (IF behind THEN Earlier + growth ELSE Earlier) \in Int
    BY <1>1
  <2>2. (IF behind THEN Later + growth ELSE Later) \in Int
    BY <1>1
  <2>3. \A t \in Int : t % PtsModulus \in Int
    <3>1. \A t \in Int : t % PtsModulus \in Times
      BY MarkersWrap
    <3>2. \A t \in Times : t \in Int
      BY MarkersWrap
    <3> QED
      BY <3>1, <3>2, Zenon
  <2> QED
    BY <2>1, <2>2, <2>3
<1> HIDE DEF a, b
<1>4. c \in Int
  BY <1>3
<1> HIDE DEF c
<1> QED
  BY <1>2, <1>3, <1>4, MarkersSet DEF Markers

LEMMA PasteSession == ASSUME Session, PasteClip PROVE Session'
<1>1. PICK pts \in Positions : PasteAt(pts)
  BY DEF PasteClip
<1>2. Loads /\ Markers
  BY DEF Session
<1>3. pts \in Nat /\ SegAt(segments, pts) # 0 /\ Loaded
  BY <1>2, PositionHeld
<1>4. /\ U!AddRecord /\ videos' = videos /\ clipboard' = clipboard
      /\ \/ segments' = Appended(segments, clipboard)
         \/ segments' = Pasted(segments, clipboard, pts)
      /\ \/ Shifted(pts, Total(segments') - Total(segments)) /\ NoQuestion
         \/ KeepMarkers /\ question' = [kind |-> "paste", before |-> Snapshot,
                                        pts |-> pts, lastFrame |-> AtLastFrame(pts)]
  BY <1>1 DEF PasteAt, SetSegments, Asks
<1>5. segments' \in Seq(Pieces(Refs)) /\ InTime(segments') /\ Solid(segments')
  <2> DEFINE P == Pieces(Refs)
  <2>1. segments \in Seq(P) /\ clipboard \in Seq(P) /\ InTime(segments) /\ Solid(segments)
    BY <1>2, <1>3 DEF Loads
  <2>2. Divisible(P) /\ Movable(P)
    BY PiecesParts
  <2> HIDE DEF P
  <2>3. CASE segments' = Appended(segments, clipboard)
    BY <2>1, <2>2, <2>3, AppendedFacts DEF P
  <2>4. CASE segments' = Pasted(segments, clipboard, pts)
    BY <1>3, <2>1, <2>2, <2>4, PastedFacts DEF P
  <2> QED
    BY <1>4, <2>3, <2>4
<1>6. Markers'
  <2>1. Total(segments) \in Nat /\ Total(segments') \in Nat
    BY <1>2, <1>5, LoadsParts, PiecesParts, MovableSeq, UntilParts
  <2>2. Total(segments') - Total(segments) \in Int
    BY <2>1
  <2> QED
    BY <1>2, <1>3, <1>4, <2>2, KeptMarkers, ShiftedMarkers
<1>7. NoQuestion \/ (question'.kind = "paste" /\ question'.pts \in Nat /\ question'.before = Snapshot)
  BY <1>3, <1>4
<1> QED
  BY <1>2, <1>3, <1>4, <1>5, <1>6, <1>7, EditDone DEF Loads

(* The answers.                                                            *)
LEMMA PendingRecord ==
    ASSUME Session, question # None
    PROVE  /\ question.before \in Playable(Refs)
           /\ U!CanUndo(undoQueue, undo_counter)
           /\ question.before = undoQueue[Len(undoQueue)] /\ undo_counter = 0
<1>1. /\ undoQueue \in Seq(Playable(Refs)) /\ undoQueue # <<>> /\ undo_counter = 0
      /\ question.before = undoQueue[Len(undoQueue)]
  BY DEF Session, Records, Pending
<1>2. Len(undoQueue) \in Nat /\ Len(undoQueue) # 0
  BY <1>1, EmptySeq, LenProperties
<1>3. Len(undoQueue) \in 1 .. Len(undoQueue) /\ Len(undoQueue) >= undo_counter + 1
  BY <1>1, <1>2
<1>4. question.before \in Playable(Refs)
  BY <1>1, <1>3, ElementOfSeq
<1> QED
  BY <1>1, <1>3, <1>4 DEF U!CanUndo

LEMMA ProceedSession == ASSUME Session, Proceed PROVE Session'
<1>1. Loads /\ Markers /\ Records
  BY DEF Session
<1>2. /\ videos' = videos /\ segments' = segments /\ clipboard' = clipboard
      /\ undoQueue' = undoQueue /\ undo_counter' = undo_counter /\ NoQuestion
      /\ question # None
  BY DEF Proceed, segmentVars, undoVars
<1>3. Loads' /\ Records'
  BY <1>1, <1>2, SameTimeline, RecordsKept DEF Loads, Records
<1>4. Markers'
  <2>1. CASE question.kind = "delete"
    <3>1. segments' \in Seq(Segment)
      BY <1>1, <1>2, LoadsParts
    <3> QED
      BY <2>1, <3>1, ResetMarkersSet DEF Proceed
  <2>2. CASE question.kind # "delete"
    <3>1. question.pts \in Nat
      BY <1>2, <2>2 DEF Session, Pending
    <3>2. question.before.segm \in Seq(Segment)
      BY <1>2, PendingRecord, PlayableParts
    <3>3. Total(question.before.segm) \in Nat /\ Total(segments) \in Nat
      BY <1>1, <3>2, UntilParts, LoadsParts
    <3>4. Total(segments) - Total(question.before.segm) \in Int
      BY <3>3
    <3>5. Shifted(question.pts, Total(segments) - Total(question.before.segm))
      BY <2>2 DEF Proceed
    <3> QED
      BY <1>1, <3>1, <3>4, <3>5, ShiftedMarkers
  <2> QED
    BY <2>1, <2>2
<1> QED
  BY <1>2, <1>3, <1>4, NoQuestionPending DEF Session

(* undo() and redo() lead to a record, which is one of the videos that are *)
(* loaded.                                                                 *)
LEMMA SessionRestored ==
    ASSUME Session, Loaded, NEW r \in Playable(Refs), Restore(r), UNCHANGED clipboard, NoQuestion,
           undoQueue' \in Seq(Playable(Refs)), undo_counter' \in Nat
    PROVE  Session'
<1>1. segments' = r.segm /\ videos' = videos /\ markerA' \in Times /\ markerB' \in Times
  BY Restored
<1>2. r.segm \in Seq(Pieces(Refs)) /\ InTime(r.segm) /\ Solid(r.segm)
  BY PlayableParts
<1>3. Loads'
  BY <1>1, <1>2, LoadsKept DEF Session, Loads
<1>4. Records'
  BY <1>1, RecordsKept
<1> QED
  BY <1>1, <1>3, <1>4, NoQuestionPending DEF Session, Markers

LEMMA UndoReady ==
    ASSUME Session, U!CanUndo(undoQueue, undo_counter)
    PROVE  /\ Loaded /\ Snapshot \in Playable(Refs)
           /\ U!UndoBase \in Seq(Playable(Refs)) /\ U!UndoTarget \in Playable(Refs)
           /\ U!UndoCounter \in Nat
           /\ undo_counter = 0 => U!UndoTarget = undoQueue[Len(undoQueue)]
<1>1. undoQueue \in Seq(Playable(Refs)) /\ undo_counter \in Nat
  BY DEF Session, Records
<1>2. Loaded
  BY DEF Session, Records, U!CanUndo
<1>3. Snapshot \in Playable(Refs)
  BY <1>2, SnapshotPlayable DEF Session
<1> DEFINE R == Playable(Refs)
<1> HIDE DEF R
<1>4. undoQueue \in Seq(R) /\ Snapshot \in R
  BY <1>1, <1>3 DEF R
<1>5. /\ U!UndoBase \in Seq(R) /\ U!UndoTarget \in R /\ U!UndoCounter \in Nat
      /\ undo_counter = 0 => U!UndoTarget = undoQueue[Len(undoQueue)]
  BY <1>1, <1>4, UndoFacts
<1> QED
  BY <1>2, <1>3, <1>5 DEF R

LEMMA UndoMade ==
    ASSUME Session, U!UndoRecord, Restore(U!UndoTarget), UNCHANGED clipboard, NoQuestion
    PROVE  Session'
<1>1. /\ Loaded /\ U!UndoBase \in Seq(Playable(Refs)) /\ U!UndoTarget \in Playable(Refs)
      /\ U!UndoCounter \in Nat
  BY UndoReady DEF U!UndoRecord
<1>2. undoQueue' \in Seq(Playable(Refs)) /\ undo_counter' \in Nat
  BY <1>1 DEF U!UndoRecord
<1> QED
  BY <1>1, <1>2, SessionRestored

LEMMA TakeBackParts ==
    ASSUME Session, TakeBack
    PROVE  /\ U!UndoRecord /\ Restore(U!UndoTarget) /\ UNCHANGED clipboard /\ NoQuestion
           /\ U!UndoTarget = question.before /\ question.before \in Playable(Refs)
<1>1. /\ question.before \in Playable(Refs) /\ U!CanUndo(undoQueue, undo_counter)
      /\ question.before = undoQueue[Len(undoQueue)] /\ undo_counter = 0
  BY PendingRecord DEF TakeBack
<1>2. U!UndoRecord /\ Restore(U!UndoTarget) /\ UNCHANGED clipboard /\ NoQuestion
  BY <1>1 DEF TakeBack
<1> QED
  BY <1>1, <1>2, UndoReady

LEMMA RedoReady ==
    ASSUME Session, U!CanRedo(undoQueue, undo_counter)
    PROVE  /\ Loaded /\ U!RedoTarget \in Playable(Refs) /\ undo_counter - 1 \in Nat
<1> DEFINE R == Playable(Refs)
<1>1. undoQueue \in Seq(R) /\ undo_counter \in Nat
  BY DEF Session, Records
<1> HIDE DEF R
<1>2. U!RedoTarget \in R /\ undoQueue # <<>> /\ undo_counter - 1 \in Nat
  BY <1>1, RedoFacts
<1> QED
  BY <1>2 DEF R, Session, Records

LEMMA RedoSession == ASSUME Session, Redo PROVE Session'
<1>1. Loaded /\ U!RedoTarget \in Playable(Refs) /\ undo_counter - 1 \in Nat
  BY RedoReady DEF Redo, U!RedoRecord
<1>2. undoQueue' \in Seq(Playable(Refs)) /\ undo_counter' \in Nat
  BY <1>1 DEF Redo, U!RedoRecord, Session, Records
<1> QED
  BY <1>1, <1>2, SessionRestored DEF Redo

(* ACT_ResetSegments.                                                      *)
LEMMA ResetEditsSession == ASSUME Session, ResetEdits PROVE Session'
<1> DEFINE P == Pieces(Refs)
           all == [i \in DOMAIN videos |-> WholeVideo(videos[i])]
<1>1. /\ U!ClearRecords /\ Rearrange(Retimed(all)) /\ clipboard' = clipboard
      /\ ResetMarkers /\ NoQuestion
  BY DEF ResetEdits, ResetSegments
<1>2. Loads
  BY DEF Session
<1>3. videos \in Seq(Videos) /\ segments \in Seq(P)
  BY <1>2 DEF Loads
<1>4. \A i \in DOMAIN videos : WholeVideo(videos[i]) \in P
  <2> SUFFICES ASSUME NEW i \in DOMAIN videos PROVE WholeVideo(videos[i]) \in P
    OBVIOUS
  <2>1. videos[i] \in Videos /\ videos[i] \in Refs
    BY <1>3, LenProperties, ElementOfSeq DEF Refs
  <2> QED
    BY <2>1, WholeParts
<1>5. Movable(P)
  BY PiecesParts
<1> HIDE DEF P
<1>6. Retimed(all) \in Seq(P) /\ InTime(Retimed(all)) /\ (videos # <<>> => Solid(Retimed(all)))
  BY <1>3, <1>4, <1>5, ResetFacts
<1> DEFINE segs == Retimed(all)
<1>7. segs \in Seq(P) /\ InTime(segs) /\ (videos # <<>> => Solid(segs)) /\ Rearrange(segs)
  BY <1>1, <1>6
<1> HIDE DEF segs
<1>8. /\ segments' \in Seq(P) /\ InTime(segments') /\ videos' = videos /\ Loaded
      /\ segs # <<>> => segments' = segs
  BY <1>3, <1>5, <1>7, Rearranged DEF Loaded
<1>9. segments' = segs /\ Solid(segments')
  BY <1>7, <1>8 DEF Solid, Loaded
<1>10. Loads'
  BY <1>1, <1>2, <1>8, <1>9, LoadsKept DEF P, Loads
<1>11. Records'
  <2>1. undoQueue' = <<>> /\ undo_counter' = undo_counter
    BY <1>1 DEF U!ClearRecords
  <2> QED
    BY <1>8, <2>1, Emptied, RecordsKept DEF Session, Records
<1>12. Markers'
  BY <1>1, <1>5, <1>8, MovableSeq, ResetMarkersSet
<1> QED
  BY <1>1, <1>10, <1>11, <1>12, NoQuestionPending DEF Session

LEMMA StutterSession == ASSUME Session, UNCHANGED sessionVars PROVE Session'
<1>1. /\ videos' = videos /\ segments' = segments /\ clipboard' = clipboard
      /\ undoQueue' = undoQueue /\ undo_counter' = undo_counter
      /\ markerA' = markerA /\ markerB' = markerB /\ question' = question
  BY DEF sessionVars, segmentVars, undoVars
<1>2. Loads'
  BY <1>1, SameTimeline DEF Session, Loads
<1>3. Records'
  BY <1>1, RecordsKept DEF Session, Records
<1>4. Pending' /\ Markers'
  BY <1>1 DEF Session, Pending, Markers
<1> QED
  BY <1>2, <1>3, <1>4 DEF Session

-----------------------------------------------------------------------------
(* The session.                                                            *)
LEMMA SessionBegins == SessionInit => Session
<1> SUFFICES ASSUME SessionInit PROVE Session
  OBVIOUS
<1>1. videos = <<>> /\ segments = <<>> /\ clipboard = <<>>
  BY DEF SessionInit, NoVideo
<1>2. Loads
  BY <1>1, Emptied DEF Loads, Loaded, InTime
<1>3. Markers
  BY MarkersWrap DEF SessionInit, Markers
<1>4. Records /\ Pending
  BY Emptied DEF SessionInit, Records, Pending
<1> QED
  BY <1>2, <1>3, <1>4 DEF Session

LEMMA SessionStep == Session /\ [SessionNext]_sessionVars => Session'
<1> SUFFICES ASSUME Session, [SessionNext]_sessionVars PROVE Session'
  OBVIOUS
<1>1. ASSUME NEW v \in Videos, Open(v) PROVE Session'
  BY <1>1, OpenSession
<1>2. ASSUME NEW v \in Videos, AppendVideo(v) PROVE Session'
  BY <1>2, AppendVideoSession
<1>3. CASE Close
  BY <1>3, CloseSession
<1>4. CASE SetMarker
  BY <1>4, SetMarkerSession
<1>5. CASE ResetSelection
  BY <1>5, ResetSelectionSession
<1>6. CASE CopySelection
  BY <1>6, CopySelectionSession
<1>7. CASE DeleteSelection
  BY <1>7, DeleteSelectionSession
<1>8. CASE PasteClip
  BY <1>8, PasteSession
<1>9. CASE Undo
  BY <1>9, UndoMade DEF Undo
<1>10. CASE Redo
  BY <1>10, RedoSession
<1>11. CASE ResetEdits
  BY <1>11, ResetEditsSession
<1>12. CASE Proceed
  BY <1>12, ProceedSession
<1>13. CASE TakeBack
  BY <1>13, TakeBackParts, UndoMade
<1>14. CASE UNCHANGED sessionVars
  BY <1>14, StutterSession
<1> QED
  BY <1>1, <1>2, <1>3, <1>4, <1>5, <1>6, <1>7, <1>8, <1>9, <1>10, <1>11, <1>12, <1>13, <1>14
  DEF SessionNext, UserAction

LEMMA SessionMeans == Session => RecordsArePlayable
<1> SUFFICES ASSUME Session PROVE RecordsArePlayable
  OBVIOUS
<1> DEFINE R == Playable(Refs)
<1>1. Loads /\ Markers /\ Records /\ Pending
  BY DEF Session
<1>2. undoQueue \in Seq(R) /\ undo_counter \in Nat /\ videos \in Seq(Videos)
  BY <1>1 DEF Records, Loads
<1>3. ASSUME NEW r \in R PROVE r \in [segm : Seq(Segment), a : Nat, b : Nat]
  BY PlayableParts, MarkersWrap
<1>4. ASSUME NEW r \in R
      PROVE  /\ r.segm # <<>> /\ r.segm = Retimed(r.segm)
             /\ \A j \in DOMAIN r.segm : r.segm[j].ref \in Refs
  <2>1. /\ r.segm \in Seq(Pieces(Refs)) /\ InTime(r.segm) /\ Solid(r.segm)
    BY PlayableParts
  <2>2. \A j \in DOMAIN r.segm : r.segm[j] \in Pieces(Refs)
    BY <2>1, LenProperties, ElementOfSeq
  <2>3. r.segm # <<>> /\ r.segm = Retimed(r.segm)
    BY <2>1 DEF Solid, InTime
  <2> QED
    BY <2>2, <2>3 DEF Pieces
<1> HIDE DEF R
<1>5. \A i \in DOMAIN undoQueue : undoQueue[i] \in R
  BY <1>2, LenProperties, ElementOfSeq
<1>6. undoQueue \in Seq([segm : Seq(Segment), a : Nat, b : Nat])
  <2> DEFINE T == [segm : Seq(Segment), a : Nat, b : Nat]
  <2>1. R \subseteq T
    BY <1>3
  <2> HIDE DEF T
  <2>2. undoQueue \in Seq(T)
    BY <1>2, <2>1, SeqMonotonic
  <2> QED
    BY <2>2 DEF T
<1>7. question.kind \in {"none", "delete", "paste"}
  BY <1>1 DEF Pending, None
<1>8. SessionTypeOK
  BY <1>1, <1>2, <1>6, <1>7, LoadsParts, MarkersWrap DEF SessionTypeOK, TypeOK, Markers
<1>9. Refs = ToSet(videos)
  BY DEF Refs, ToSet
<1> QED
  BY <1>4, <1>5, <1>8, <1>9 DEF RecordsArePlayable

(* Throughout a session, whatever the user does and however the questions  *)
(* are answered, every state that addToUndoQueue() and undo() have         *)
(* recorded can be restored: it is a timeline without holes, not empty, of *)
(* videos that are still loaded.                                           *)
THEOREM RecordsPlayable == SessionSpec => []RecordsArePlayable
<1>1. SessionSpec => []Session
  BY SessionBegins, SessionStep, PTL DEF SessionSpec
<1> QED
  BY <1>1, SessionMeans, PTL

(* Whoever answers "No" to the question whether to proceed with a cut or a *)
(* paste has the timeline and the markers from before: undo() can be made, *)
(* and what it restores is what the handler recorded before it began.      *)
LEMMA Refused ==
    ASSUME Session, TakeBack
    PROVE  Snapshot' = question.before
BY TakeBackParts, Restored

THEOREM RefusalCorrect == SessionSpec => RefusalRestores
<1>1. Session /\ [SessionNext]_sessionVars
        => [question # None /\ TakeBack => Snapshot' = question.before]_sessionVars
  BY Refused
<1>2. SessionSpec => []Session
  BY SessionBegins, SessionStep, PTL DEF SessionSpec
<1> QED
  BY <1>1, <1>2, PTL DEF SessionSpec, RefusalRestores

-----------------------------------------------------------------------------
(* A session walks the undo queue.                                         *)
LEMMA WalkBegins == SessionInit => U!Init
BY SessionBegins, SnapshotState DEF Session, SessionInit, U!Init

LEMMA WalkStep ==
    ASSUME Session, Snapshot' \in [segm : Seq(Segment), a : Nat, b : Nat],
           [SessionNext]_sessionVars
    PROVE  [U!Next]_(U!vars)
<1>1. ASSUME U!AddRecord PROVE U!Edit
  BY <1>1 DEF U!Edit
<1>2. ASSUME U!ClearRecords PROVE U!Clear
  BY <1>2 DEF U!Clear
<1>3. ASSUME undoQueue' = undoQueue, undo_counter' = undo_counter, undo_counter = 0 \/ undoQueue = <<>>
      PROVE  U!Amend
  BY <1>3 DEF U!Amend, U!AtTheTip
<1>4. CASE \E v \in Videos : Open(v)
  <2>1. CASE Loaded
    BY <1>2, <1>4, <2>1 DEF Open, ClearUndo, U!Next
  <2>2. CASE ~Loaded
    <3>1. undoQueue = <<>> /\ undoQueue' = undoQueue /\ undo_counter' = undo_counter
      BY <1>4, <2>2 DEF Open, ClearUndo, undoVars, Session, Records
    <3> QED
      BY <1>3, <3>1 DEF U!Next
  <2> QED
    BY <2>1, <2>2
<1>5. CASE Close \/ ResetEdits
  BY <1>2, <1>5 DEF Close, ResetEdits, U!Next
<1>6. CASE (\E v \in Videos : AppendVideo(v)) \/ SetMarker \/ ResetSelection
  BY <1>1, <1>6 DEF AppendVideo, SetMarker, ResetSelection, U!Next
<1>7. CASE CopySelection
  <2>1. markerA' = markerA /\ markerB' = markerB
    BY <1>7, KeptMarkers DEF CopySelection, Session
  <2>2. segments' = segments /\ undoQueue' = undoQueue /\ undo_counter' = undo_counter
    BY <1>7 DEF CopySelection, undoVars
  <2> QED
    BY <2>1, <2>2 DEF U!vars, Snapshot
<1>8. CASE DeleteSelection \/ PasteClip
  BY <1>1, <1>8 DEF DeleteSelection, PasteClip, PasteAt, U!Next
<1>9. CASE Undo \/ TakeBack
  <2>1. U!UndoRecord /\ Restore(U!UndoTarget)
    BY <1>9, TakeBackParts DEF Undo
  <2>2. U!UndoTarget \in Playable(Refs)
    BY <2>1, UndoReady DEF U!UndoRecord
  <2>3. Snapshot' = U!UndoTarget
    BY <2>1, <2>2, Restored
  <2> QED
    BY <2>1, <2>3 DEF U!Undo, U!Next
<1>10. CASE Redo
  <2>1. U!RedoRecord /\ Restore(U!RedoTarget)
    BY <1>10 DEF Redo
  <2>2. U!RedoTarget \in Playable(Refs)
    BY <2>1, RedoReady DEF U!RedoRecord
  <2>3. Snapshot' = U!RedoTarget
    BY <2>1, <2>2, Restored
  <2> QED
    BY <2>1, <2>3 DEF U!Redo, U!Next
<1>11. CASE Proceed
  <2>1. undo_counter = 0
    BY <1>11, PendingRecord DEF Proceed
  <2> QED
    BY <1>3, <1>11, <2>1 DEF Proceed, undoVars, U!Next
<1>12. CASE UNCHANGED sessionVars
  BY <1>12 DEF sessionVars, undoVars, segmentVars, Snapshot, U!vars
<1> QED
  BY <1>4, <1>5, <1>6, <1>7, <1>8, <1>9, <1>10, <1>11, <1>12 DEF SessionNext, UserAction

(* What the handlers of the user interface do to the undo queue is what    *)
(* UndoQueue describes: every one of them records the state before it      *)
(* changes it, restores what undo() and redo() point at, or empties the    *)
(* queue; and what "Yes" completes is a change that needs no record.       *)
THEOREM UndoIsUndoQueue == SessionSpec => UndoRefined
<1>1. SessionSpec => []Session
  BY SessionBegins, SessionStep, PTL DEF SessionSpec
<1>2. Session => Snapshot \in [segm : Seq(Segment), a : Nat, b : Nat]
  BY SnapshotState DEF Session
<1>3. Session /\ (Snapshot \in [segm : Seq(Segment), a : Nat, b : Nat])' /\ [SessionNext]_sessionVars
        => [U!Next]_(U!vars)
  BY WalkStep
<1> QED
  BY <1>1, <1>2, <1>3, WalkBegins, PTL DEF SessionSpec, UndoRefined, U!Spec

(* So the user walks a history of edits, of which nothing is lost but the  *)
(* oldest, and the menu offers to undo and to redo when there is           *)
(* something to go to.                                                     *)
Queue == INSTANCE UndoQueue_proofs
    WITH current <- Snapshot, States <- [segm : Seq(Segment), a : Nat, b : Nat]

THEOREM SessionHistory == SessionSpec => Queue!HistoryRefined /\ []Queue!MenuIsRight
<1>1. MaxUndoSteps \in Nat /\ LeastUndoSteps \in Nat /\ LeastUndoSteps >= 2
  BY SessionAssumption
<1>2. (Queue!Spec => Queue!HistoryRefined) /\ (Queue!Spec => []Queue!MenuIsRight)
  BY <1>1, Queue!Refinement, Queue!MenuCorrect
<1>3. U!Init => Queue!Init
  BY DEF U!Init, Queue!Init
<1>4. [U!Next]_(U!vars) => [Queue!Next]_(Queue!vars)
  <2>1. (U!AddRecord <=> Queue!AddRecord) /\ U!UndoBase = Queue!UndoBase
    BY Zenon
       DEF U!AddRecord, U!UndoBase, U!Recorded, U!Trim, U!CutDead, U!Limit,
           Queue!AddRecord, Queue!UndoBase, Queue!Recorded, Queue!Trim, Queue!CutDead,
           Queue!Limit
  <2>2. U!UndoCounter = Queue!UndoCounter /\ U!RedoTarget = Queue!RedoTarget
    BY Zenon DEF U!UndoCounter, Queue!UndoCounter, U!RedoTarget, Queue!RedoTarget
  <2>3. U!UndoTarget = Queue!UndoTarget
    BY <2>1, <2>2, Zenon DEF U!UndoTarget, Queue!UndoTarget
  <2>4. U!UndoRecord <=> Queue!UndoRecord
    BY <2>1, <2>2, Zenon DEF U!UndoRecord, Queue!UndoRecord, U!CanUndo, Queue!CanUndo
  <2>5. U!RedoRecord <=> Queue!RedoRecord
    BY Zenon DEF U!RedoRecord, Queue!RedoRecord, U!CanRedo, Queue!CanRedo
  <2>6. (U!ClearRecords <=> Queue!ClearRecords) /\ (U!AtTheTip <=> Queue!AtTheTip)
    BY Zenon DEF U!ClearRecords, Queue!ClearRecords, U!AtTheTip, Queue!AtTheTip
  <2>7. (U!Edit <=> Queue!Edit) /\ (U!Clear <=> Queue!Clear)
    BY <2>1, <2>6, Zenon DEF U!Edit, Queue!Edit, U!Clear, Queue!Clear
  <2>8. U!Amend <=> Queue!Amend
    BY <2>6, Zenon DEF U!Amend, Queue!Amend
  <2>9. (U!Undo <=> Queue!Undo) /\ (U!Redo <=> Queue!Redo)
    BY <2>2, <2>3, <2>4, <2>5, Zenon DEF U!Undo, Queue!Undo, U!Redo, Queue!Redo
  <2>10. U!vars = Queue!vars /\ U!vars' = Queue!vars'
    BY Zenon DEF U!vars, Queue!vars
  <2> QED
    BY <2>7, <2>8, <2>9, <2>10, Zenon DEF U!Next, Queue!Next
<1>5. U!Spec => Queue!Spec
  BY <1>3, <1>4, PTL DEF U!Spec, Queue!Spec
<1> QED
  BY <1>2, <1>5, UndoIsUndoQueue DEF UndoRefined

-----------------------------------------------------------------------------
(* How long the timeline is after an edit.                                 *)
LEMMA TotalEmpty == Total(<<>>) = 0
<1>1. <<>> \in Seq(Segment) /\ Len(<<>>) = 0
  BY EmptySeq
<1> QED
  BY <1>1, UntilParts DEF Total

LEMMA TotalJoined ==
    ASSUME NEW a \in Seq(Segment), NEW b \in Seq(Segment)
    PROVE  a \o b \in Seq(Segment) /\ Total(a \o b) = Total(a) + Total(b)
<1> DEFINE c == a \o b
           m == Len(a)
           n == Len(b)
<1>1. m \in Nat /\ n \in Nat
  BY LenProperties
<1>2. /\ c \in Seq(Segment) /\ Len(c) = m + n
      /\ \A i \in 1 .. m + n : c[i] = IF i <= m THEN a[i] ELSE b[i - m]
  BY ConcatProperties
<1> HIDE DEF c
<1>3. \A i \in 1 .. m : c[i].dur = a[i].dur
  <2>1. \A i \in 1 .. m : i \in 1 .. m + n /\ i <= m
    BY <1>1
  <2> QED
    BY <1>2, <2>1
<1>4. \A i \in 1 .. n : m + i \in 1 .. m + n /\ c[m + i].dur = b[i].dur
  <2> SUFFICES ASSUME NEW i \in 1 .. n PROVE m + i \in 1 .. m + n /\ c[m + i].dur = b[i].dur
    OBVIOUS
  <2>1. m + i \in 1 .. m + n /\ ~(m + i <= m) /\ m + i - m = i
    BY <1>1
  <2> QED
    BY <1>2, <2>1
<1>5. Until(c)[m] = Until(a)[m]
  <2>1. m <= Len(c) /\ m <= Len(a) /\ m \in 0 .. m
    BY <1>1, <1>2
  <2> HIDE DEF m
  <2> QED
    BY <1>1, <1>2, <1>3, <2>1, SameUntil
<1>6. /\ \A i \in 1 .. m + n : Until(c)[i] = Until(c)[i - 1] + c[i].dur
      /\ Until(b)[0] = 0
      /\ \A i \in 1 .. n : Until(b)[i] = Until(b)[i - 1] + b[i].dur
      /\ \A i \in 0 .. n : Until(b)[i] \in Nat
      /\ Until(a)[m] \in Nat
  <2>1. m \in 0 .. Len(a)
    BY <1>1
  <2> QED
    BY <1>2, <2>1, UntilParts
<1>7. \A i \in 1 .. n : b[i].dur \in Nat /\ i - 1 \in 0 .. n /\ m + i - 1 = m + (i - 1)
  BY <1>1, SegmentParts
<1> DEFINE Q == {i \in 0 .. n : Until(c)[m + i] = Until(a)[m] + Until(b)[i]}
<1>8. 0 \in Q
  <2>1. m + 0 = m /\ 0 \in 0 .. n
    BY <1>1
  <2> QED
    BY <1>5, <1>6, <2>1
<1>9. ASSUME NEW i \in 1 .. n, i - 1 \in Q PROVE i \in Q
  <2> HIDE DEF m, n
  <2>1. Until(c)[m + i] = Until(c)[m + (i - 1)] + b[i].dur
    <3> DEFINE j == m + i
    <3>1. j \in 1 .. m + n /\ c[j].dur = b[i].dur /\ j - 1 = m + (i - 1)
      <4>1. j \in 1 .. m + n /\ c[j].dur = b[i].dur
        BY <1>4
      <4>2. j - 1 = m + (i - 1)
        BY <1>1
      <4> QED
        BY <4>1, <4>2
    <3>2. \A x \in 1 .. m + n : Until(c)[x] = Until(c)[x - 1] + c[x].dur
      BY <1>6
    <3> HIDE DEF j
    <3>3. Until(c)[j] = Until(c)[j - 1] + c[j].dur
      BY <3>1, <3>2
    <3> QED
      BY <3>1, <3>3 DEF j
  <2>2. Until(c)[m + (i - 1)] = Until(a)[m] + Until(b)[i - 1]
    BY <1>9
  <2>3. Until(b)[i] = Until(b)[i - 1] + b[i].dur
    BY <1>6
  <2>4. Until(b)[i - 1] \in Nat /\ b[i].dur \in Nat /\ Until(a)[m] \in Nat /\ i \in 0 .. n
    BY <1>1, <1>6, <1>7
  <2> QED
    BY <2>1, <2>2, <2>3, <2>4
<1> HIDE DEF Q, m, n
<1>10. \A i \in 0 .. n : i \in Q
  BY <1>1, <1>8, <1>9, Induction
<1>11. n \in Q
  BY <1>1, <1>10
<1> QED
  BY <1>2, <1>11 DEF Q, Total, c, m, n

LEMMA TotalSingle ==
    ASSUME NEW s \in Segment
    PROVE  <<s>> \in Seq(Segment) /\ Total(<<s>>) = s.dur
<1> DEFINE one == <<s>>
<1>1. one \in Seq(Segment) /\ one[1] = s /\ Len(one) = 1
  BY Single
<1> HIDE DEF one
<1>2. 1 \in 1 .. Len(one) /\ 1 - 1 = 0 /\ s.dur \in Nat
  BY <1>1 DEF Segment
<1>3. Until(one)[1] = 0 + s.dur
  BY <1>1, <1>2, UntilParts
<1> QED
  BY <1>1, <1>2, <1>3 DEF Total, one

(* A segment, what is before it and what is after it.                      *)
LEMMA Lengths == \A k, n \in Nat : (k - 1) + 1 = k /\ k + (n - k) = n
OBVIOUS

LEMMA TotalAround ==
    ASSUME NEW segs \in Seq(Segment), NEW k \in DOMAIN segs
    PROVE  Total(SubSeq(segs, 1, k - 1)) + segs[k].dur + Total(SubSeq(segs, k + 1, Len(segs)))
             = Total(segs)
<1> DEFINE a == SubSeq(segs, 1, k - 1)
           b == SubSeq(segs, k + 1, Len(segs))
           s == segs[k]
           n == Len(segs)
<1>1. /\ a \in Seq(Segment) /\ Len(a) = k - 1 /\ \A i \in 1 .. k - 1 : a[i] = segs[i]
      /\ b \in Seq(Segment) /\ Len(b) = n - k /\ \A i \in 1 .. n - k : b[i] = segs[k + i]
      /\ s \in Segment /\ k \in 1 .. n /\ n \in Nat
  BY BeforeAndAfter
<1> HIDE DEF a, b, n, s
<1> DEFINE one == <<s>>
<1>2. one \in Seq(Segment) /\ Len(one) = 1 /\ one[1] = s /\ Total(one) = s.dur
  BY <1>1, Single, TotalSingle
<1> HIDE DEF one
<1> DEFINE d == a \o one
<1>3. /\ d \in Seq(Segment) /\ Len(d) = Len(a) + Len(one)
      /\ \A i \in 1 .. Len(a) + Len(one) :
            d[i] = IF i <= Len(a) THEN a[i] ELSE one[i - Len(a)]
  <2>1. a \in Seq(Segment) /\ one \in Seq(Segment)
    BY <1>1, <1>2
  <2> QED
    BY <2>1, ConcatProperties
<1>4. k \in Nat /\ n \in Nat /\ 1 <= k /\ k <= n /\ Len(a) = k - 1 /\ Len(one) = 1 /\ Len(b) = n - k
  BY <1>1, <1>2
<1> HIDE DEF d
<1> DEFINE c == d \o b
<1>5. /\ c \in Seq(Segment) /\ Len(c) = Len(d) + Len(b)
      /\ \A i \in 1 .. Len(d) + Len(b) : c[i] = IF i <= Len(d) THEN d[i] ELSE b[i - Len(d)]
  <2>1. d \in Seq(Segment) /\ b \in Seq(Segment)
    BY <1>1, <1>3
  <2> QED
    BY <2>1, ConcatProperties
<1> HIDE DEF c
<1>6. Len(d) = k /\ Len(c) = n
  <2> DEFINE la == Len(a)
             lo == Len(one)
             lb == Len(b)
             ld == Len(d)
             lc == Len(c)
  <2>1. ld = la + lo /\ lc = ld + lb
    BY <1>3, <1>5, Zenon
  <2>2. k \in Nat /\ n \in Nat /\ la = k - 1 /\ lo = 1 /\ lb = n - k
    BY <1>4, Zenon
  <2> HIDE DEF la, lo, lb, ld, lc
  <2>3. ld = k /\ lc = n
    BY <2>1, <2>2, Lengths, Zenon
  <2> QED
    BY <2>3 DEF ld, lc
<1>7. ASSUME NEW i \in 1 .. n PROVE c[i] = segs[i]
  <2>0. i \in 1 .. Len(d) + Len(b)
    BY <1>4, <1>6
  <2>1. CASE i < k
    <3>1. i \in 1 .. Len(a) + Len(one) /\ i <= Len(a) /\ i <= Len(d) /\ i \in 1 .. k - 1
      BY <1>4, <1>6, <2>1
    <3>2. d[i] = a[i] /\ c[i] = d[i]
      BY <1>3, <1>5, <2>0, <3>1
    <3> QED
      BY <1>1, <3>1, <3>2
  <2>2. CASE i = k
    <3>1. i \in 1 .. Len(a) + Len(one) /\ ~(i <= Len(a)) /\ i - Len(a) = 1 /\ i <= Len(d)
      BY <1>4, <1>6, <2>2
    <3>2. d[i] = one[1] /\ c[i] = d[i]
      BY <1>3, <1>5, <2>0, <3>1
    <3> QED
      BY <1>2, <2>2, <3>2 DEF s
  <2>3. CASE i > k
    <3>1. ~(i <= Len(d)) /\ i - Len(d) = i - k /\ i - k \in 1 .. n - k /\ k + (i - k) = i
      BY <1>4, <1>6, <2>3
    <3>2. c[i] = b[i - k]
      BY <1>5, <2>0, <3>1
    <3> QED
      BY <1>1, <3>1, <3>2
  <2> QED
    BY <1>4, <2>1, <2>2, <2>3
<1>8. c = segs
  <2>1. c \in Seq(Segment) /\ Len(c) = Len(segs)
    BY <1>5, <1>6 DEF n
  <2> QED
    BY <1>7, <2>1, SeqEqual DEF n
<1>9. Total(c) = Total(d) + Total(b)
  BY <1>1, <1>3, TotalJoined DEF c
<1>10. Total(d) = Total(a) + s.dur
  BY <1>1, <1>2, TotalJoined DEF d
<1> QED
  BY <1>8, <1>9, <1>10 DEF a, b, s, n

(* Where every video shows its first picture at 0, nothing that lasts      *)
(* counts as empty.                                                        *)
Gapless == \A v \in Videos : FirstPts[v] = 0

LEMMA NothingLost ==
    ASSUME Gapless, NEW segs \in Seq(Segment)
    PROVE  NoEmpty(segs) \in Seq(Segment) /\ Total(NoEmpty(segs)) = Total(segs)
<1> DEFINE P == {q \in Seq(Segment) : Total(NoEmpty(q)) = Total(q)}
<1>1. <<>> \in P
  BY EmptySeq, NoEmptyType
<1>2. ASSUME NEW q \in Seq(Segment), NEW e \in Segment, q \in P PROVE q \o <<e>> \in P
  <2>1. q \o <<e>> \in Seq(Segment) /\ <<e>> \in Seq(Segment)
    OBVIOUS
  <2>2. NoEmpty(q) \in Seq(Segment) /\ NoEmpty(<<e>>) \in Seq(Segment)
    BY <2>1, NoEmptyType
  <2>3. NoEmpty(q \o <<e>>) = NoEmpty(q) \o NoEmpty(<<e>>)
    BY <2>1, NoEmptyJoined
  <2>4. Total(NoEmpty(<<e>>)) = Total(<<e>>)
    <3>1. CASE IsEmptySegment(e)
      <4>1. FirstPts[e.ref] = 0 /\ e.dur \in Nat
        BY DEF Gapless, Segment
      <4>2. e.dur = 0
        BY <3>1, <4>1 DEF IsEmptySegment
      <4>3. NoEmpty(<<e>>) = <<>>
        BY <3>1, NoEmptySingle
      <4> QED
        BY <4>2, <4>3, TotalEmpty, TotalSingle
    <3>2. CASE ~IsEmptySegment(e)
      BY <3>2, NoEmptySingle
    <3> QED
      BY <3>1, <3>2
  <2>5. Total(NoEmpty(q \o <<e>>)) = Total(NoEmpty(q)) + Total(NoEmpty(<<e>>))
    BY <2>2, <2>3, TotalJoined
  <2>6. Total(q \o <<e>>) = Total(q) + Total(<<e>>)
    BY <2>1, TotalJoined
  <2>7. Total(NoEmpty(q)) = Total(q)
    BY <1>2
  <2> QED
    BY <2>1, <2>4, <2>5, <2>6, <2>7
<1> HIDE DEF P
<1>3. segs \in P
  BY <1>1, <1>2, Growing
<1> QED
  BY <1>3, NoEmptyType DEF P

LEMMA AppendedTotal ==
    ASSUME NEW segs \in Seq(Segment), NEW clip \in Seq(Segment)
    PROVE  Total(Appended(segs, clip)) = Total(segs) + Total(clip)
<1>1. Movable(Segment)
  BY MovedParts DEF Movable
<1>2. segs \o clip \in Seq(Segment) /\ Total(segs \o clip) = Total(segs) + Total(clip)
  BY TotalJoined
<1>3. Total(Retimed(segs \o clip)) = Total(segs \o clip)
  BY <1>1, <1>2, RetimedInTime
<1> QED
  BY <1>2, <1>3 DEF Appended

LEMMA PastedTotal ==
    ASSUME Gapless, NEW segs \in Seq(Segment), NEW clip \in Seq(Segment), InTime(segs),
           NEW t \in Nat, SegAt(segs, t) # 0
    PROVE  Total(Pasted(segs, clip, t)) = Total(segs) + Total(clip)
<1> DEFINE at == SegAt(segs, t)
           s == segs[at]
           u == Upto(s, t)
           f == From(s, t)
           a == SubSeq(segs, 1, at - 1)
           b == SubSeq(segs, at + 1, Len(segs))
           m == IF s.start = t THEN Append(clip, s) ELSE <<u>> \o clip \o <<f>>
           all == a \o m \o b
<1>1. at \in DOMAIN segs /\ s.start <= t /\ t <= End(s)
  BY SegAtParts
<1>2. Pasted(segs, clip, t) = Retimed(NoEmpty(all))
  BY Zenon DEF Pasted
<1> HIDE DEF at
<1>3. /\ a \in Seq(Segment) /\ b \in Seq(Segment) /\ s \in Segment
      /\ Total(a) + s.dur + Total(b) = Total(segs)
  BY <1>1, BeforeAndAfter, TotalAround
<1> HIDE DEF a, b, s
<1>4. /\ u \in Segment /\ f \in Segment /\ u.dur = t - s.start /\ f.dur = s.dur - (t - s.start)
  BY <1>1, <1>3, UptoParts, FromParts
<1>5. s.dur \in Nat /\ s.start \in Nat /\ Total(clip) \in Nat /\ Total(a) \in Nat /\ Total(b) \in Nat
  BY <1>3, UntilParts DEF Segment
<1>6. m \in Seq(Segment) /\ Total(m) = Total(clip) + s.dur
  <2> HIDE DEF u, f
  <2>1. CASE s.start = t
    <3>1. m = clip \o <<s>>
      BY <1>3, <2>1, AppendIsConcat
    <3> HIDE DEF m
    <3> QED
      BY <1>3, <3>1, TotalSingle, TotalJoined
  <2>2. CASE s.start # t
    <3>1. m = (<<u>> \o clip) \o <<f>>
      BY <2>2
    <3> DEFINE head == <<u>>
               tail == <<f>>
               first == head \o clip
    <3>2. /\ head \in Seq(Segment) /\ Total(head) = u.dur
          /\ tail \in Seq(Segment) /\ Total(tail) = f.dur /\ m = first \o tail
      BY <1>4, <3>1, TotalSingle
    <3> HIDE DEF m, head, tail
    <3>3. first \in Seq(Segment) /\ Total(first) = u.dur + Total(clip)
      BY <3>2, TotalJoined
    <3> HIDE DEF first
    <3>4. m \in Seq(Segment) /\ Total(m) = u.dur + Total(clip) + f.dur
      BY <3>2, <3>3, TotalJoined
    <3>5. u.dur + Total(clip) + f.dur = Total(clip) + s.dur
      BY <1>4, <1>5
    <3> QED
      BY <3>4, <3>5
  <2> QED
    BY <2>1, <2>2
<1> HIDE DEF m
<1> DEFINE front == a \o m
<1>7. front \in Seq(Segment) /\ Total(front) = Total(a) + (Total(clip) + s.dur)
  BY <1>3, <1>6, TotalJoined
<1>8. all = front \o b
  OBVIOUS
<1> HIDE DEF front, all
<1>9. all \in Seq(Segment) /\ Total(all) = Total(a) + (Total(clip) + s.dur) + Total(b)
  BY <1>3, <1>7, <1>8, TotalJoined
<1>10. Total(all) = Total(segs) + Total(clip)
  BY <1>3, <1>5, <1>9
<1>11. NoEmpty(all) \in Seq(Segment) /\ Total(NoEmpty(all)) = Total(all)
  BY <1>9, NothingLost
<1>12. Movable(Segment)
  BY MovedParts DEF Movable
<1>13. Total(Retimed(NoEmpty(all))) = Total(NoEmpty(all))
  BY <1>11, <1>12, RetimedInTime
<1> QED
  BY <1>2, <1>10, <1>11, <1>13

-----------------------------------------------------------------------------
(* The selection.  While the user goes on with every edit, the markers lie *)
(* in the timeline and in that of each record; a question about a paste is *)
(* asked with the markers from before, which a longer timeline holds too.  *)
Recordings == [segm : Seq(Segment), a : Nat, b : Nat]

Inside == {r \in Recordings : r.a <= Total(r.segm) /\ r.b <= Total(r.segm)}

Stays ==
    /\ undoQueue \in Seq(Inside)
    /\ Total(segments) <= MaxTotal
    /\ question = None => Snapshot \in Inside
    /\ question # None /\ question.kind = "paste" =>
          /\ markerA = question.before.a /\ markerB = question.before.b
          /\ Total(question.before.segm) <= Total(segments)

LEMMA RecordingParts ==
    ASSUME NEW segs, NEW a, NEW b
    PROVE  /\ [segm |-> segs, a |-> a, b |-> b] \in Recordings
                => segs \in Seq(Segment) /\ a \in Nat /\ b \in Nat
           /\ [segm |-> segs, a |-> a, b |-> b] \in Inside
                <=> /\ [segm |-> segs, a |-> a, b |-> b] \in Recordings
                    /\ a <= Total(segs) /\ b <= Total(segs)
BY DEF Recordings, Inside

LEMMA Settled ==
    ASSUME Snapshot' \in Recordings, Total(segments') <= MaxTotal, undoQueue' \in Seq(Inside),
           NoQuestion, markerA' <= Total(segments'), markerB' <= Total(segments')
    PROVE  Stays'
<1>1. Snapshot' = [segm |-> segments', a |-> markerA', b |-> markerB']
  BY DEF Snapshot
<1>2. Snapshot' \in Inside
  BY <1>1, RecordingParts
<1>3. Inside' = Inside /\ Total(segments)' = Total(segments')
  BY DEF Inside, Recordings, Total, Until, Segment
<1> QED
  BY <1>2, <1>3 DEF Stays, NoQuestion

LEMMA RecordStays ==
    ASSUME Session, Stays, question = None, U!AddRecord
    PROVE  /\ undoQueue' \in Seq(Inside)
           /\ Len(undoQueue') \in 1 .. Len(undoQueue') /\ undoQueue'[Len(undoQueue')] = Snapshot
<1> DEFINE q == undoQueue
           c == undo_counter
           s == Snapshot
<1>1. undoQueue' = U!Recorded(q, c, s)
  BY DEF U!AddRecord
<1>2. Recordable(Inside, q, c, s)
  BY DEF Stays, Session, Records, Recordable
<1> HIDE DEF q, c, s
<1>3. undoQueue' \in Seq(Inside) /\ Len(undoQueue') \in Nat \ {0} /\ undoQueue'[Len(undoQueue')] = s
  BY <1>1, <1>2, RecordedFacts
<1> QED
  BY <1>3 DEF s

LEMMA WrapDown == \A t \in Nat : t % PtsModulus \in Nat /\ t % PtsModulus <= t
<1> SUFFICES ASSUME NEW t \in Nat PROVE t % PtsModulus \in Nat /\ t % PtsModulus <= t
  OBVIOUS
<1> DEFINE w == t % PtsModulus
<1>1. w \in Times /\ (t \in Times => w = t)
  BY MarkersWrap
<1>2. PtsModulus \in Nat
  BY SessionAssumption
<1> HIDE DEF w
<1>3. w \in Nat /\ w <= t
  BY <1>1, <1>2 DEF Times
<1> QED
  BY <1>3 DEF w

LEMMA SetWithin ==
    ASSUME NEW n \in Nat, NEW a \in Nat, NEW b \in Nat, a <= n, b <= n, SetMarkers(a, b)
    PROVE  markerA' \in Nat /\ markerB' \in Nat /\ markerA' <= n /\ markerB' <= n
<1> DEFINE x == a % PtsModulus
           y == b % PtsModulus
<1>1. x \in Nat /\ x <= a /\ y \in Nat /\ y <= b
  BY WrapDown
<1>2. markerA' = x /\ markerB' = y
  BY DEF SetMarkers
<1> HIDE DEF x, y
<1> QED
  BY <1>1, <1>2

LEMMA ResetWithin ==
    ASSUME ResetMarkers, segments' \in Seq(Segment)
    PROVE  markerA' <= Total(segments') /\ markerB' <= Total(segments')
<1>1. Total(segments') \in Nat
  BY UntilParts
<1> QED
  BY <1>1, SetWithin DEF ResetMarkers

(* A paste moves the markers by as much as it makes the timeline longer.   *)
LEMMA ShiftedWithin ==
    ASSUME Markers, NEW n \in Nat, markerA <= n, markerB <= n,
           NEW pts \in Nat, NEW growth \in Nat, n + growth < PtsModulus, Shifted(pts, growth)
    PROVE  markerA' <= n + growth /\ markerB' <= n + growth
<1>1. Earlier \in Nat /\ Later \in Nat /\ Earlier <= Later /\ Earlier \in Times /\ Later \in Times
  BY Selection
<1>2. Later <= n
  BY DEF Later
<1>3. n + growth \in Nat /\ PtsModulus \in Nat
  BY SessionAssumption
<1>4. CASE Earlier > pts
  <2> DEFINE a == Earlier + growth
             b == Later + growth
  <2>1. /\ a \in Nat /\ b \in Nat /\ a <= n + growth /\ b <= n + growth
        /\ a \in Times /\ b \in Times /\ ~(a <= pts)
    BY <1>1, <1>2, <1>3, <1>4 DEF Times
  <2>2. a % PtsModulus = a /\ b % PtsModulus = b
    BY <2>1, MarkersWrap
  <2>3. SetMarkers(a, b)
    <3>1. SetMarkers(a % PtsModulus, IF a % PtsModulus <= pts /\ pts <= b % PtsModulus
                                     THEN (b % PtsModulus) + growth ELSE b % PtsModulus)
      BY <1>4, Zenon DEF Shifted
    <3> HIDE DEF a, b
    <3> QED
      BY <2>1, <2>2, <3>1, Zenon
  <2> HIDE DEF a, b
  <2> QED
    BY <1>3, <2>1, <2>3, SetWithin
<1>5. CASE ~(Earlier > pts)
  <2> DEFINE a == Earlier
             b == Later
             c == IF a <= pts /\ pts <= b THEN b + growth ELSE b
  <2>1. a \in Nat /\ b \in Nat /\ a <= n + growth /\ b <= n + growth /\ b + growth <= n + growth
    BY <1>1, <1>2
  <2>2. a % PtsModulus = a /\ b % PtsModulus = b
    BY <1>1, MarkersWrap
  <2>3. SetMarkers(a, c)
    <3>1. SetMarkers(a % PtsModulus, IF a % PtsModulus <= pts /\ pts <= b % PtsModulus
                                     THEN (b % PtsModulus) + growth ELSE b % PtsModulus)
      BY <1>5, Zenon DEF Shifted
    <3> HIDE DEF a, b
    <3> QED
      BY <2>2, <3>1, Zenon
  <2> HIDE DEF a, b
  <2>4. c \in Nat /\ c <= n + growth
    BY <2>1
  <2> HIDE DEF c
  <2> QED
    BY <1>3, <2>1, <2>3, <2>4, SetWithin
<1> QED
  BY <1>4, <1>5

(* The markers as they are, while no question is open.                     *)
LEMMA StaysParts ==
    ASSUME Session, Stays, question = None
    PROVE  /\ segments \in Seq(Segment) /\ Total(segments) \in Nat
           /\ markerA \in Nat /\ markerB \in Nat
           /\ markerA <= Total(segments) /\ markerB <= Total(segments)
<1>1. Snapshot \in Inside /\ Snapshot = [segm |-> segments, a |-> markerA, b |-> markerB]
  BY DEF Stays, Snapshot
<1> QED
  BY <1>1, RecordingParts, UntilParts

LEMMA SnapshotNext ==
    ASSUME Snapshot' \in Recordings
    PROVE  segments' \in Seq(Segment) /\ Total(segments') \in Nat /\ markerA' \in Nat /\ markerB' \in Nat
<1>1. Snapshot' = [segm |-> segments', a |-> markerA', b |-> markerB']
  BY DEF Snapshot
<1> QED
  BY <1>1, RecordingParts, UntilParts

(* A step that leaves a question about an edit open.                       *)
LEMMA Asked ==
    ASSUME Total(segments') <= MaxTotal, undoQueue' \in Seq(Inside),
           question' # None,
           question'.kind = "paste" =>
              /\ markerA' = question'.before.a /\ markerB' = question'.before.b
              /\ Total(question'.before.segm) <= Total(segments')
    PROVE  Stays'
<1>1. Inside' = Inside /\ Total(segments)' = Total(segments')
      /\ Total(question.before.segm)' = Total(question'.before.segm)
  BY DEF Inside, Recordings, Total, Until, Segment
<1> QED
  BY <1>1 DEF Stays

LEMMA FitsNext == Fits' => Total(segments') <= MaxTotal
BY DEF Fits

LEMMA AppendVideoStays ==
    ASSUME Session, Stays, Snapshot' \in Recordings, Fits', NEW v \in Videos, AppendVideo(v)
    PROVE  Stays'
<1>1. question = None /\ U!AddRecord /\ NoQuestion
  BY DEF AppendVideo, Handler
<1>2. undoQueue' \in Seq(Inside)
  BY <1>1, RecordStays
<1>3. /\ segments \in Seq(Segment) /\ Total(segments) \in Nat
      /\ markerA \in Nat /\ markerB \in Nat
      /\ markerA <= Total(segments) /\ markerB <= Total(segments)
      /\ Total(segments') \in Nat
  BY <1>1, StaysParts, SnapshotNext
<1>4. markerA' <= Total(segments') /\ markerB' <= Total(segments')
  <2>1. CASE AddVideo(v) /\ SetMarkers(markerA, IF MarkersUntouched THEN Total(segments') ELSE markerB)
    <3> DEFINE w == <<WholeVideo(v)>>
               n == Total(segments')
               b == IF MarkersUntouched THEN n ELSE markerB
    <3>1. w \in Seq(Segment) /\ segments' = Appended(segments, w)
      <4>1. WholeVideo(v) \in Pieces({v})
        BY WholeParts
      <4>2. WholeVideo(v) \in Segment
        BY <4>1 DEF Pieces
      <4> QED
        BY <2>1, <4>2, Single DEF AddVideo
    <3> HIDE DEF w
    <3>2. n = Total(segments) + Total(w) /\ Total(w) \in Nat
      BY <1>3, <3>1, AppendedTotal, UntilParts
    <3> HIDE DEF n
    <3>3. n \in Nat /\ markerA <= n /\ markerB <= n
      BY <1>3, <3>2
    <3>4. b \in Nat /\ b <= n
      BY <1>3, <3>3
    <3>5. SetMarkers(markerA, b)
      BY <2>1 DEF n
    <3> HIDE DEF b
    <3> QED
      BY <1>3, <3>3, <3>4, <3>5, SetWithin DEF n
  <2>2. CASE UNCHANGED <<segmentVars, markerA, markerB>>
    BY <1>3, <2>2 DEF segmentVars
  <2> QED
    BY <2>1, <2>2 DEF AppendVideo
<1> QED
  BY <1>1, <1>2, <1>4, FitsNext, Settled

LEMMA SetMarkerStays ==
    ASSUME Session, Stays, Snapshot' \in Recordings, SetMarker
    PROVE  Stays'
<1>1. question = None /\ U!AddRecord /\ NoQuestion /\ segments' = segments
  BY DEF SetMarker, Handler, segmentVars
<1>2. PICK pts \in Positions : Mark(pts, markerB) \/ Mark(markerA, pts)
  BY DEF SetMarker
<1> DEFINE n == Total(segments)
<1>3. markerA \in Nat /\ markerB \in Nat /\ markerA <= n /\ markerB <= n /\ n \in Nat /\ n <= MaxTotal
  BY <1>1, StaysParts DEF Stays
<1>4. pts \in Nat /\ pts <= n
  BY PositionHeld DEF Session
<1> HIDE DEF n
<1>5. ASSUME NEW a \in Nat, NEW b \in Nat, a <= n, b <= n, Mark(a, b)
      PROVE  markerA' <= n /\ markerB' <= n
  <2>1. SetMarkers(a, b) \/ SetMarkers(b, a)
    BY <1>5 DEF Mark
  <2> QED
    BY <1>3, <1>5, <2>1, SetWithin
<1>6. markerA' <= n /\ markerB' <= n
  BY <1>2, <1>3, <1>4, <1>5
<1>7. undoQueue' \in Seq(Inside)
  BY <1>1, RecordStays
<1> QED
  BY <1>1, <1>3, <1>6, <1>7, Settled DEF n

LEMMA DeleteStays ==
    ASSUME Session, Stays, Snapshot' \in Recordings, Fits', DeleteSelection
    PROVE  Stays'
<1> DEFINE rest == Without(Later = Total(segments) \/ AtLastFrame(Later))
<1>1. question = None /\ U!AddRecord /\ segments' = (IF rest = <<>> THEN segments ELSE rest)
  BY DEF DeleteSelection, Handler, SetSegments
<1>2. \/ rest = <<>> /\ KeepMarkers /\ NoQuestion
      \/ ResetMarkers /\ NoQuestion
      \/ question' = [kind |-> "delete", before |-> Snapshot]
  BY DEF DeleteSelection, Asks
<1> HIDE DEF rest
<1>3. undoQueue' \in Seq(Inside)
  BY <1>1, RecordStays
<1>4. Total(segments') <= MaxTotal /\ segments' \in Seq(Segment)
  BY FitsNext, SnapshotNext
<1>5. CASE rest = <<>> /\ KeepMarkers /\ NoQuestion
  <2>1. markerA' = markerA /\ markerB' = markerB /\ segments' = segments
    BY <1>1, <1>5, KeptMarkers DEF Session
  <2>2. markerA' <= Total(segments') /\ markerB' <= Total(segments')
    BY <1>1, <2>1, StaysParts
  <2> QED
    BY <1>3, <1>4, <1>5, <2>2, Settled
<1>6. CASE ResetMarkers /\ NoQuestion
  BY <1>3, <1>4, <1>6, ResetWithin, Settled
<1>7. CASE question' = [kind |-> "delete", before |-> Snapshot]
  <2>1. question'.kind = "delete" /\ question' # None
    BY <1>7 DEF None
  <2> QED
    BY <1>3, <1>4, <2>1, Asked
<1> QED
  BY <1>2, <1>5, <1>6, <1>7

LEMMA PasteStays ==
    ASSUME Gapless, Session, Stays, Snapshot' \in Recordings, Fits', PasteClip
    PROVE  Stays'
<1>1. PICK pts \in Positions : PasteAt(pts)
  BY DEF PasteClip
<1>2. /\ question = None /\ U!AddRecord
      /\ \/ segments' = Appended(segments, clipboard)
         \/ segments' = Pasted(segments, clipboard, pts)
      /\ \/ Shifted(pts, Total(segments') - Total(segments)) /\ NoQuestion
         \/ KeepMarkers /\ question' = [kind |-> "paste", before |-> Snapshot,
                                        pts |-> pts, lastFrame |-> AtLastFrame(pts)]
  BY <1>1 DEF PasteAt, Handler, SetSegments, Asks
<1>3. Loads /\ Markers
  BY DEF Session
<1>4. pts \in Nat /\ SegAt(segments, pts) # 0
  BY <1>3, PositionHeld
<1>5. /\ segments \in Seq(Segment) /\ clipboard \in Seq(Segment) /\ InTime(segments)
      /\ Total(clipboard) \in Nat
  BY <1>3, LoadsParts, UntilParts DEF Loads
<1>6. undoQueue' \in Seq(Inside)
  BY <1>2, RecordStays
<1>7. Total(segments') <= MaxTotal
  BY FitsNext
<1>8. /\ Total(segments) \in Nat /\ markerA <= Total(segments) /\ markerB <= Total(segments)
      /\ Total(segments') \in Nat
  BY <1>2, StaysParts, SnapshotNext
<1>9. Total(segments') = Total(segments) + Total(clipboard)
  BY <1>2, <1>4, <1>5, AppendedTotal, PastedTotal
<1> DEFINE n == Total(segments)
           growth == Total(segments') - Total(segments)
<1>10. CASE Shifted(pts, growth) /\ NoQuestion
  <2>1. growth \in Nat /\ n \in Nat /\ n + growth = Total(segments')
    BY <1>5, <1>8, <1>9
  <2>2. n + growth < PtsModulus
    <3>1. PtsModulus \in Nat /\ MaxTotal \in Nat /\ MaxTotal < PtsModulus
      BY SessionAssumption, VideosAssumption
    <3> QED
      BY <1>7, <1>8, <2>1, <3>1
  <2> HIDE DEF n, growth
  <2>3. markerA <= n /\ markerB <= n
    BY <1>8 DEF n
  <2>4. markerA' <= n + growth /\ markerB' <= n + growth
    BY <1>3, <1>4, <1>10, <2>1, <2>2, <2>3, ShiftedWithin
  <2> QED
    BY <1>6, <1>7, <1>10, <2>1, <2>4, Settled
<1>11. CASE KeepMarkers /\ question' = [kind |-> "paste", before |-> Snapshot,
                                        pts |-> pts, lastFrame |-> AtLastFrame(pts)]
  <2>1. question'.kind = "paste" /\ question' # None /\ question'.before = Snapshot
    BY <1>11 DEF None
  <2>2. markerA' = markerA /\ markerB' = markerB
    BY <1>3, <1>11, KeptMarkers
  <2>3. Snapshot.a = markerA /\ Snapshot.b = markerB /\ Snapshot.segm = segments
    BY DEF Snapshot
  <2>4. Total(segments) <= Total(segments')
    BY <1>5, <1>8, <1>9
  <2>5. /\ markerA' = question'.before.a /\ markerB' = question'.before.b
        /\ Total(question'.before.segm) <= Total(segments')
    BY <2>1, <2>2, <2>3, <2>4
  <2> QED
    BY <1>6, <1>7, <2>1, <2>5, Asked
<1> QED
  BY <1>2, <1>10, <1>11

LEMMA ProceedStays ==
    ASSUME Session, Stays, Snapshot' \in Recordings, Proceed
    PROVE  Stays'
<1>1. /\ question # None /\ segments' = segments /\ undoQueue' = undoQueue /\ NoQuestion
      /\ Total(segments) <= MaxTotal /\ undoQueue \in Seq(Inside)
  BY DEF Proceed, segmentVars, undoVars, Stays
<1>2. segments' \in Seq(Segment) /\ Total(segments) \in Nat
  BY <1>1, SnapshotNext
<1>3. markerA' <= Total(segments') /\ markerB' <= Total(segments')
  <2>1. CASE question.kind = "delete"
    BY <1>2, <2>1, ResetWithin DEF Proceed
  <2>2. CASE question.kind # "delete"
    <3> DEFINE r == question.before
               n == Total(r.segm)
               growth == Total(segments) - n
    <3>1. question.kind = "paste" /\ question.pts \in Nat
      BY <1>1, <2>2 DEF Session, Pending
    <3>2. r = undoQueue[Len(undoQueue)] /\ undoQueue # <<>>
      BY <1>1 DEF Session, Pending
    <3>3. r \in Inside
      <4>1. Len(undoQueue) \in 1 .. Len(undoQueue)
        BY <1>1, <3>2, EmptySeq, LenProperties
      <4> QED
        BY <1>1, <3>2, <4>1, ElementOfSeq
    <3>4. markerA = r.a /\ markerB = r.b /\ n <= Total(segments)
      BY <1>1, <3>1 DEF Stays
    <3>5. r.segm \in Seq(Segment) /\ r.a <= n /\ r.b <= n
      BY <3>3 DEF Inside, Recordings
    <3>6. Shifted(question.pts, growth)
      BY <2>2 DEF Proceed
    <3> HIDE DEF r
    <3>7. n \in Nat
      BY <3>5, UntilParts
    <3> HIDE DEF n
    <3>8. growth \in Nat /\ n + growth = Total(segments)
      BY <1>2, <3>4, <3>7
    <3>9. n + growth < PtsModulus
      <4>1. PtsModulus \in Nat /\ MaxTotal \in Nat /\ MaxTotal < PtsModulus
        BY SessionAssumption, VideosAssumption
      <4> QED
        BY <1>1, <1>2, <3>8, <4>1
    <3>10. markerA <= n /\ markerB <= n /\ Markers
      BY <3>4, <3>5 DEF Session
    <3> HIDE DEF growth
    <3>11. markerA' <= n + growth /\ markerB' <= n + growth
      BY <3>1, <3>6, <3>7, <3>8, <3>9, <3>10, ShiftedWithin
    <3> QED
      BY <1>1, <3>8, <3>11
  <2> QED
    BY <2>1, <2>2
<1> QED
  BY <1>1, <1>3, Settled

(* undo() and redo() set the markers that lay in the timeline then.        *)
LEMMA RestoredStays ==
    ASSUME Snapshot' \in Recordings, Fits', NEW r \in Inside, r \in Playable(Refs), Restore(r),
           undoQueue' \in Seq(Inside), NoQuestion
    PROVE  Stays'
<1>1. Snapshot' = r
  BY Restored
<1>2. Snapshot' = [segm |-> segments', a |-> markerA', b |-> markerB']
  BY DEF Snapshot
<1>3. markerA' <= Total(segments') /\ markerB' <= Total(segments')
  BY <1>1, <1>2, RecordingParts
<1> QED
  BY <1>3, FitsNext, Settled

LEMMA UndoStays ==
    ASSUME Session, Stays, Snapshot' \in Recordings, Fits', Undo
    PROVE  Stays'
<1>1. question = None /\ U!UndoRecord /\ Restore(U!UndoTarget) /\ NoQuestion
  BY DEF Undo, Handler
<1>2. U!UndoTarget \in Playable(Refs)
  BY <1>1, UndoReady DEF U!UndoRecord
<1>3. undoQueue \in Seq(Inside) /\ undo_counter \in Nat /\ Snapshot \in Inside
  BY <1>1 DEF Stays, Session, Records
<1>4. U!UndoBase \in Seq(Inside) /\ U!UndoTarget \in Inside
  BY <1>1, <1>3, UndoFacts DEF U!UndoRecord
<1> QED
  BY <1>1, <1>2, <1>4, RestoredStays DEF U!UndoRecord

LEMMA RedoStays ==
    ASSUME Session, Stays, Snapshot' \in Recordings, Fits', Redo
    PROVE  Stays'
<1>1. U!RedoRecord /\ Restore(U!RedoTarget) /\ NoQuestion
  BY DEF Redo
<1>2. U!RedoTarget \in Playable(Refs)
  BY <1>1, RedoReady DEF U!RedoRecord
<1>3. undoQueue \in Seq(Inside) /\ undo_counter \in Nat
  BY DEF Stays, Session, Records
<1>4. U!RedoTarget \in Inside
  BY <1>1, <1>3, RedoFacts DEF U!RedoRecord
<1> QED
  BY <1>1, <1>2, <1>3, <1>4, RestoredStays DEF U!RedoRecord

LEMMA StaysStep ==
    ASSUME Gapless, Session, Snapshot' \in Recordings, Stays,
           [(UserAction /\ Fits') \/ Proceed]_sessionVars
    PROVE  Stays'
<1>1. CASE Fits' /\ ((\E v \in Videos : Open(v)) \/ ResetEdits \/ Close)
  <2>1. undoQueue' \in Seq(Inside)
    <3>1. <<>> \in Seq(Inside) /\ undoQueue \in Seq(Inside)
      BY Emptied DEF Stays
    <3>2. undoQueue' = <<>> \/ undoQueue' = undoQueue
      BY <1>1 DEF Open, ResetEdits, Close, ClearUndo, U!ClearRecords, undoVars
    <3> QED
      BY <3>1, <3>2
  <2>2. markerA' <= Total(segments') /\ markerB' <= Total(segments')
    <3>1. CASE ResetMarkers
      BY <3>1, SnapshotNext, ResetWithin
    <3>2. CASE SetMarkers(0, 0)
      BY <3>2, SnapshotNext, SetWithin
    <3> QED
      BY <1>1, <3>1, <3>2 DEF Open, ResetEdits, Close
  <2>3. NoQuestion
    BY <1>1 DEF Open, ResetEdits, Close
  <2> QED
    BY <1>1, <2>1, <2>2, <2>3, FitsNext, Settled
<1>2. CASE Fits' /\ ResetSelection
  <2>1. question = None /\ U!AddRecord /\ ResetMarkers /\ NoQuestion
    BY <1>2 DEF ResetSelection, Handler
  <2>2. undoQueue' \in Seq(Inside)
    BY <2>1, RecordStays
  <2> QED
    BY <1>2, <2>1, <2>2, SnapshotNext, ResetWithin, FitsNext, Settled
<1>3. CASE CopySelection
  <2>1. question = None /\ NoQuestion /\ segments' = segments /\ undoQueue' = undoQueue
    BY <1>3 DEF CopySelection, Handler, undoVars
  <2>2. markerA' = markerA /\ markerB' = markerB
    BY <1>3, KeptMarkers DEF CopySelection, Session
  <2> QED
    BY <2>1, <2>2, StaysParts, Settled DEF Stays
<1>4. CASE UNCHANGED sessionVars
  <2>1. /\ segments' = segments /\ markerA' = markerA /\ markerB' = markerB
        /\ undoQueue' = undoQueue /\ question' = question
    BY <1>4 DEF sessionVars, segmentVars, undoVars
  <2>2. Inside' = Inside /\ Snapshot' = Snapshot
    BY <2>1 DEF Inside, Recordings, Total, Until, Segment, Snapshot
  <2> QED
    BY <2>1, <2>2 DEF Stays
<1>5. ASSUME NEW v \in Videos, Fits', AppendVideo(v) PROVE Stays'
  BY <1>5, AppendVideoStays
<1>6. ASSUME Fits', SetMarker \/ DeleteSelection \/ PasteClip \/ Undo \/ Redo PROVE Stays'
  BY <1>6, SetMarkerStays, DeleteStays, PasteStays, UndoStays, RedoStays
<1>7. CASE Proceed
  BY <1>7, ProceedStays
<1> QED
  BY <1>1, <1>2, <1>3, <1>4, <1>5, <1>6, <1>7 DEF UserAction

LEMMA StaysBegins == SessionInit => Stays
<1> SUFFICES ASSUME SessionInit PROVE Stays
  OBVIOUS
<1>1. segments = <<>> /\ undoQueue = <<>> /\ markerA = 0 /\ markerB = 0 /\ question = None
  BY DEF SessionInit, NoVideo
<1>2. Total(segments) = 0 /\ <<>> \in Seq(Segment) /\ <<>> \in Seq(Inside)
  BY <1>1, TotalEmpty, Emptied
<1>3. Snapshot = [segm |-> segments, a |-> 0, b |-> 0]
  BY <1>1 DEF Snapshot
<1>4. Snapshot \in Inside
  BY <1>1, <1>2, <1>3 DEF Inside, Recordings
<1> QED
  BY <1>1, <1>2, <1>4, VideosAssumption DEF Stays

LEMMA StaysMeans == Session /\ Stays => MarkersInTimeline
BY StaysParts DEF MarkersInTimeline

(* Where every video shows its first picture at 0, and as long as the      *)
(* question whether to proceed is answered with "Yes", the selection never *)
(* reaches past the end of the timeline: no cut, paste, undo or redo       *)
(* leaves copyToClipBoard() looking for a segment that is not there.       *)
THEOREM MarkersStay == Gapless => (ProceedSpec => []MarkersInTimeline)
<1> SUFFICES ASSUME Gapless PROVE ProceedSpec => []MarkersInTimeline
  OBVIOUS
<1>1. Session /\ [(UserAction /\ Fits') \/ Proceed]_sessionVars => Session'
  BY SessionStep DEF SessionNext
<1>2. ProceedSpec => []Session
  BY <1>1, SessionBegins, PTL DEF ProceedSpec
<1>3. Session => Snapshot \in Recordings
  BY SnapshotState DEF Session, Recordings
<1>4. Session /\ (Snapshot \in Recordings)' /\ Stays /\ [(UserAction /\ Fits') \/ Proceed]_sessionVars
        => Stays'
  BY StaysStep DEF Recordings
<1> QED
  BY <1>2, <1>3, <1>4, StaysBegins, StaysMeans, PTL DEF ProceedSpec

-----------------------------------------------------------------------------
(* Segments played one after the other from a time on, and what is seen    *)
(* then of the pictures in a set.                                          *)
Delayed(q, d) == [i \in DOMAIN q |-> MovedTo(q[i], d + Until(q)[i - 1])]

Played(q, d, S) == Seen(Delayed(q, d), S)

LEMMA DelayedFacts ==
    ASSUME NEW q \in Seq(Segment), NEW d \in Nat
    PROVE  /\ Delayed(q, d) \in Seq(Segment) /\ Len(Delayed(q, d)) = Len(q)
           /\ \A i \in 1 .. Len(q) :
                 /\ Delayed(q, d)[i] = MovedTo(q[i], d + Until(q)[i - 1])
                 /\ d + Until(q)[i - 1] \in Nat /\ Until(q)[i - 1] \in Nat /\ q[i] \in Segment
<1> DEFINE n == Len(q)
           r == Delayed(q, d)
<1>1. n \in Nat /\ DOMAIN q = 1 .. n /\ \A i \in 1 .. n : q[i] \in Segment
  BY SegmentParts
<1>2. \A i \in 1 .. n : i - 1 \in 0 .. n
  BY <1>1
<1>3. \A i \in 1 .. n : Until(q)[i - 1] \in Nat
  BY <1>2, UntilParts
<1>4. \A i \in 1 .. n : d + Until(q)[i - 1] \in Nat
  BY <1>3
<1>5. r = [i \in 1 .. n |-> MovedTo(q[i], d + Until(q)[i - 1])]
  BY <1>1 DEF Delayed
<1> HIDE DEF r, n
<1>6. \A i \in 1 .. n : r[i] = MovedTo(q[i], d + Until(q)[i - 1])
  BY <1>5
<1>7. \A i \in 1 .. n : r[i] \in Segment
  BY <1>1, <1>4, <1>6, MovedParts
<1>8. r = [i \in 1 .. n |-> r[i]]
  BY <1>5
<1>9. r \in Seq(Segment)
  BY <1>1, <1>7, <1>8, IsASeq
<1>10. Len(r) = n
  BY <1>1, <1>5, <1>9, LenProperties
<1> QED
  BY <1>1, <1>3, <1>4, <1>6, <1>9, <1>10 DEF r, n

LEMMA PlayedNone == ASSUME NEW d, NEW S PROVE Played(<<>>, d, S) = <<>>
<1>1. Delayed(<<>>, d) = <<>>
  BY DEF Delayed
<1>2. <<>> \in Seq(Segment)
  BY EmptySeq
<1> QED
  BY <1>1, <1>2, SeenFacts DEF Played

LEMMA PlayedThen ==
    ASSUME NEW q \in Seq(Segment), NEW e \in Segment, NEW d \in Nat, NEW S
    PROVE  Played(q \o <<e>>, d, S) = Played(q, d, S) \o Seen(<<MovedTo(e, d + Total(q))>>, S)
<1> DEFINE g == q \o <<e>>
           n == Len(q)
           m == n + 1
           x == MovedTo(e, d + Total(q))
           D == Delayed(q, d)
           E == Delayed(g, d)
           F == D \o <<x>>
<1>1. /\ n \in Nat /\ g \in Seq(Segment) /\ Len(g) = m /\ g[m] = e
      /\ \A i \in 1 .. n : g[i] = q[i]
  BY AppendIsConcat, AppendProperties, LenProperties
<1>2. Total(q) \in Nat /\ Total(q) = Until(q)[n]
  BY UntilParts DEF Total
<1>3. x \in Segment
  <2>1. d + Total(q) \in Nat
    BY <1>2
  <2> QED
    BY <2>1, MovedParts
<1>4. D \in Seq(Segment) /\ Len(D) = n /\ \A i \in 1 .. n : D[i] = MovedTo(q[i], d + Until(q)[i - 1])
  BY DelayedFacts
<1> HIDE DEF g
<1>5. E \in Seq(Segment) /\ Len(E) = m /\ \A i \in 1 .. m : E[i] = MovedTo(g[i], d + Until(g)[i - 1])
  BY <1>1, DelayedFacts
<1> HIDE DEF n, D, E
<1>6. F \in Seq(Segment) /\ Len(F) = m /\ F[m] = x /\ \A i \in 1 .. n : F[i] = D[i]
  <2> HIDE DEF x
  <2> QED
    BY <1>3, <1>4, AppendIsConcat, AppendProperties
<1>7. \A i \in 0 .. n : Until(g)[i] = Until(q)[i]
  <2>1. n <= Len(q) /\ n <= Len(g) /\ \A i \in 1 .. n : g[i].dur = q[i].dur
    BY <1>1 DEF n
  <2> QED
    BY <1>1, <2>1, SameUntil
<1> HIDE DEF F
<1>8. \A i \in 1 .. m : E[i] = F[i]
  <2> SUFFICES ASSUME NEW i \in 1 .. m PROVE E[i] = F[i]
    OBVIOUS
  <2>1. E[i] = MovedTo(g[i], d + Until(g)[i - 1])
    BY <1>5
  <2>2. CASE i \in 1 .. n
    <3>1. i - 1 \in 0 .. n
      BY <1>1, <2>2
    <3> QED
      BY <1>1, <1>4, <1>6, <1>7, <2>1, <2>2, <3>1
  <2>3. CASE i = m
    <3>1. i - 1 = n /\ n \in 0 .. n
      BY <1>1, <2>3
    <3> QED
      BY <1>1, <1>2, <1>6, <1>7, <2>1, <2>3, <3>1 DEF x
  <2> QED
    BY <1>1, <2>2, <2>3
<1> HIDE DEF m
<1>9. E = F
  BY <1>5, <1>6, <1>8, SeqEqual
<1> DEFINE o == <<x>>
<1>10. o \in Seq(Segment)
  BY <1>3
<1> HIDE DEF o, x
<1>11. Seen(D \o o, S) = Seen(D, S) \o Seen(o, S)
  BY <1>4, <1>10, SeenJoined
<1> QED
  BY <1>9, <1>11 DEF Played, E, F, D, o, x, g

LEMMA PlayedType ==
    ASSUME NEW q \in Seq(Segment), NEW d \in Nat, NEW S
    PROVE  Played(q, d, S) \in Seq(Content)
<1>1. Delayed(q, d) \in Seq(Segment)
  BY DelayedFacts
<1> QED
  BY <1>1, SeenFacts DEF Played

LEMMA PlayedOne ==
    ASSUME NEW e \in Segment, NEW d \in Nat, NEW S
    PROVE  Played(<<e>>, d, S) = Seen(<<MovedTo(e, d)>>, S)
<1> DEFINE o == <<e>>
           x == Seen(<<MovedTo(e, d)>>, S)
           z == <<>>
<1>1. o \in Seq(Segment) /\ z \in Seq(Segment)
  BY EmptySeq
<1>2. z \o o = o
  BY <1>1, ConcatEmptySeq
<1>3. d + Total(z) = d
  BY TotalEmpty
<1>4. Played(z \o o, d, S) = Played(z, d, S) \o x
  <2> HIDE DEF z
  <2>1. Played(z \o <<e>>, d, S) = Played(z, d, S) \o Seen(<<MovedTo(e, d + Total(z))>>, S)
    BY <1>1, PlayedThen
  <2> QED
    BY <1>3, <2>1, Zenon
<1>5. x \in Seq(Content)
  <2>1. MovedTo(e, d) \in Segment
    BY MovedParts
  <2>2. <<MovedTo(e, d)>> \in Seq(Segment)
    BY <2>1
  <2> QED
    BY <2>2, SeenFacts
<1> HIDE DEF o, x
<1>6. z \o x = x
  BY <1>5, ConcatEmptySeq
<1>7. Played(z, d, S) = z
  BY PlayedNone
<1> QED
  BY <1>2, <1>4, <1>6, <1>7, Zenon DEF o, x

LEMMA PlayedGrows ==
    \A S : \A d \in Nat : \A q \in Seq(Segment), e \in Segment :
        Played(q \o <<e>>, d, S) = Played(q, d, S) \o Seen(<<MovedTo(e, d + Total(q))>>, S)
BY PlayedThen

LEMMA PlayedOften ==
    \A S : \A d \in Nat : \A q \in Seq(Segment) : Played(q, d, S) \in Seq(Content)
BY PlayedType

LEMMA TotalOfBoth ==
    \A a, b \in Seq(Segment) : a \o b \in Seq(Segment) /\ Total(a \o b) = Total(a) + Total(b)
BY TotalJoined

LEMMA BothThen ==
    \A a, b \in Seq(Segment), e \in Segment : a \o (b \o <<e>>) = (a \o b) \o <<e>>
BY JoinedThen

LEMMA PlayedJoined ==
    ASSUME NEW a \in Seq(Segment), NEW b \in Seq(Segment), NEW d \in Nat, NEW S
    PROVE  Played(a \o b, d, S) = Played(a, d, S) \o Played(b, d + Total(a), S)
<1> DEFINE D == d + Total(a)
           A == Played(a, d, S)
           P == {q \in Seq(Segment) : Played(a \o q, d, S) = A \o Played(q, D, S)}
<1>1. D \in Nat /\ Total(a) \in Nat
  BY UntilParts
<1>2. A \in Seq(Content)
  BY PlayedType
<1>3. <<>> \in P
  <2>1. a \o <<>> = a /\ <<>> \in Seq(Segment)
    BY ConcatEmptySeq, EmptySeq
  <2>2. A \o <<>> = A
    BY <1>2, ConcatEmptySeq
  <2> QED
    BY <2>1, <2>2, PlayedNone
<1>4. \A q \in Seq(Segment), e \in Segment : q \in P => q \o <<e>> \in P
  <2> DEFINE W == Seq(Segment)
             V == Seq(Content)
             J(x, y) == x \o y
             O(e) == <<e>>
             K(x) == Played(x, d, S)
             M(x) == Played(x, D, S)
             N(e, t) == Seen(<<MovedTo(e, t)>>, S)
  <2>1. \A x \in W, e \in Segment : K(J(x, O(e))) = J(K(x), N(e, d + Total(x)))
    BY PlayedGrows, Zenon
  <2>2. \A x \in W, e \in Segment : M(J(x, O(e))) = J(M(x), N(e, D + Total(x)))
    BY <1>1, PlayedGrows, Zenon
  <2>3. \A x, y, z \in V : J(J(x, y), z) = J(x, J(y, z)) /\ J(x, y) \in V
    BY JoinedAssociative, Zenon
  <2>4. \A x \in W : M(x) \in V
    BY <1>1, PlayedOften, Zenon
  <2>5. \A x, y \in W : J(x, y) \in W /\ Total(J(x, y)) = Total(x) + Total(y)
    BY TotalOfBoth, Zenon
  <2>6. \A x, y \in W, e \in Segment : J(x, J(y, O(e))) = J(J(x, y), O(e))
    BY BothThen, Zenon
  <2>7. \A e \in Segment, t \in Nat : N(e, t) \in V
    <3> SUFFICES ASSUME NEW e \in Segment, NEW t \in Nat PROVE N(e, t) \in V
      OBVIOUS
    <3>1. MovedTo(e, t) \in Segment
      BY MovedParts
    <3>2. <<MovedTo(e, t)>> \in Seq(Segment)
      BY <3>1
    <3> QED
      BY <3>2, SeenFacts
  <2>8. \A x \in W : Total(x) \in Nat
    BY UntilParts
  <2>9. \A e \in Segment : O(e) \in W
    OBVIOUS
  <2>10. a \in W /\ A \in V /\ A = K(a) /\ D = d + Total(a)
    BY <1>2
  <2>11. \A q : q \in P <=> q \in W /\ K(J(a, q)) = J(A, M(q))
    OBVIOUS
  <2>12. \A q \in W, e \in Segment : q \in P => J(q, O(e)) \in P
    <3> HIDE DEF A, D, P, W, V, J, O, K, M, N
    <3> SUFFICES ASSUME NEW q \in W, NEW e \in Segment, q \in P PROVE J(q, O(e)) \in P
      OBVIOUS
    <3>1. J(q, O(e)) \in W
      BY <2>5, <2>9
    <3>2. K(J(a, J(q, O(e)))) = K(J(J(a, q), O(e)))
      BY <2>6, <2>10
    <3>3. d + Total(J(a, q)) = D + Total(q) /\ D + Total(q) \in Nat
      BY <1>1, <2>5, <2>8, <2>10
    <3>4. K(J(J(a, q), O(e))) = J(J(A, M(q)), N(e, D + Total(q)))
      BY <2>1, <2>5, <2>10, <2>11, <3>3
    <3>5. J(J(A, M(q)), N(e, D + Total(q))) = J(A, J(M(q), N(e, D + Total(q))))
      BY <2>3, <2>4, <2>7, <2>10, <3>3
    <3> QED
      BY <2>2, <2>11, <3>1, <3>2, <3>4, <3>5
  <2> HIDE DEF P, A, D
  <2> QED
    BY <2>12, Zenon
<1> HIDE DEF P
<1>5. b \in P
  BY <1>3, <1>4, Growing
<1> QED
  BY <1>5 DEF P

(* From the beginning: updateStartTime().                                  *)
LEMMA PlayedRetimed ==
    ASSUME NEW q \in Seq(Segment), NEW S
    PROVE  /\ Seen(Retimed(q), S) = Played(q, 0, S)
           /\ InTime(q) => Seen(q, S) = Played(q, 0, S)
<1> DEFINE r == Retimed(q)
           x == Delayed(q, 0)
           n == Len(q)
<1>1. Movable(Segment)
  BY MovedParts DEF Movable
<1>2. /\ r \in Seq(Segment) /\ Len(r) = n
      /\ \A i \in 1 .. n : r[i] = MovedTo(q[i], Until(q)[i - 1])
  BY <1>1, RetimedFacts
<1>3. /\ x \in Seq(Segment) /\ Len(x) = n
      /\ \A i \in 1 .. n : /\ x[i] = MovedTo(q[i], 0 + Until(q)[i - 1])
                           /\ Until(q)[i - 1] \in Nat
  BY DelayedFacts
<1> HIDE DEF r, x, n
<1>4. \A i \in 1 .. n : r[i] = x[i]
  <2> SUFFICES ASSUME NEW i \in 1 .. n PROVE r[i] = x[i]
    OBVIOUS
  <2>1. 0 + Until(q)[i - 1] = Until(q)[i - 1]
    BY <1>3
  <2> QED
    BY <1>2, <1>3, <2>1
<1>5. r = x
  BY <1>2, <1>3, <1>4, SeqEqual
<1>6. Seen(r, S) = Played(q, 0, S)
  BY <1>5 DEF Played, x
<1> QED
  BY <1>6 DEF r, InTime

(* The time of a picture that is played.                                   *)
LEMMA TimesOfPicture ==
    ASSUME NEW p \in Picture, NEW t \in Nat
    PROVE  /\ p.at \in Nat
           /\ p \in Before(t) <=> p.at < t
           /\ p \in Since(t) <=> p.at >= t
<1>1. p.at \in Nat
  BY DEF Picture
<1>2. p \in Before(t) <=> p.at < t
  BY DEF Before
<1>3. p \in Since(t) <=> p.at >= t
  BY DEF Since
<1> QED
  BY <1>1, <1>2, <1>3

LEMMA WhenPlayed ==
    ASSUME NEW q \in Seq(Segment), NEW d \in Nat, NEW i \in 1 .. Len(q),
           NEW pts \in Covered(Delayed(q, d)[i])
    PROVE  LET p == PictureAt(Delayed(q, d)[i], pts)
           IN  p \in Picture /\ d <= p.at /\ p.at < d + Total(q)
<1> DEFINE e == Delayed(q, d)[i]
           u == Until(q)[i - 1]
           w == Until(q)[i]
           p == PictureAt(e, pts)
<1>1. e = MovedTo(q[i], d + u) /\ d + u \in Nat /\ u \in Nat /\ q[i] \in Segment
  BY DelayedFacts
<1>2. Len(q) \in Nat /\ i \in 0 .. Len(q)
  BY LenProperties
<1>3. w = u + q[i].dur /\ w <= Total(q) /\ Total(q) \in Nat
  BY <1>2, UntilParts, UntilGrows
<1> HIDE DEF e, u, w
<1>4. e \in Segment /\ e.start = d + u /\ e.dur = q[i].dur /\ q[i].dur \in Nat
  <2>1. q[i].dur \in Nat
    BY <1>1 DEF Segment
  <2> QED
    BY <1>1, <2>1, MovedParts
<1>5. End(e) = d + w
  BY <1>1, <1>3, <1>4 DEF End
<1>6. pts \in Covered(e)
  BY DEF e
<1>7. e.start <= ShownAt(e, pts) /\ ShownAt(e, pts) < End(e) /\ ShownAt(e, pts) \in Nat /\ p \in Picture
  BY <1>4, <1>6, WhenShown
<1>8. p.at = ShownAt(e, pts)
  BY DEF PictureAt
<1> HIDE DEF p
<1>9. d <= p.at /\ p.at < d + Total(q)
  BY <1>1, <1>3, <1>4, <1>5, <1>7, <1>8
<1> QED
  BY <1>7, <1>9 DEF p, e

(* What is played from time d on lasts until d + Total(q).                 *)
LEMMA PlayedAlike ==
    ASSUME NEW q \in Seq(Segment), NEW d \in Nat, NEW S, NEW R,
           \A p \in Picture : d <= p.at /\ p.at < d + Total(q) => (p \in S <=> p \in R)
    PROVE  Played(q, d, S) = Played(q, d, R)
<1> DEFINE x == Delayed(q, d)
<1>1. x \in Seq(Segment) /\ Len(x) = Len(q)
  BY DelayedFacts
<1>2. \A i \in 1 .. Len(x) : \A pts \in Covered(x[i]) : PictureAt(x[i], pts) \in S <=> PictureAt(x[i], pts) \in R
  BY <1>1, WhenPlayed
<1> HIDE DEF x
<1>3. Seen(x, S) = Seen(x, R)
  BY <1>1, <1>2, SeenAllAlike
<1> QED
  BY <1>3 DEF x, Played

LEMMA PlayedNothing ==
    ASSUME NEW q \in Seq(Segment), NEW d \in Nat, NEW S,
           \A p \in Picture : d <= p.at /\ p.at < d + Total(q) => p \notin S
    PROVE  Played(q, d, S) = <<>>
<1>1. Played(q, d, S) = Played(q, d, {})
  BY PlayedAlike
<1>2. Delayed(q, d) \in Seq(Segment)
  BY DelayedFacts
<1>3. Played(q, d, {}) = <<>>
  BY <1>2, SeenFacts DEF Played
<1> QED
  BY <1>1, <1>3

(* Played later, the same is seen that much later.                         *)
AllLater(c, d, a, b, D, A, B) ==
    /\ c \in Nat /\ d \in Nat /\ a \in Nat /\ b \in Nat
    /\ D = d + c /\ A = a + c /\ B = b + c

LEMMA PlayedLater ==
    ASSUME NEW q \in Seq(Segment), NEW c, NEW d, NEW a, NEW b, NEW D, NEW A, NEW B,
           AllLater(c, d, a, b, D, A, B)
    PROVE  Played(q, D, Since(A) \cap Before(B)) = Played(q, d, Since(a) \cap Before(b))
<1> DEFINE R == Since(a) \cap Before(b)
           S == Since(A) \cap Before(B)
           x == Delayed(q, d)
           y == Delayed(q, D)
           n == Len(q)
<1>0. /\ c \in Nat /\ d \in Nat /\ a \in Nat /\ b \in Nat /\ D \in Nat /\ A \in Nat /\ B \in Nat
      /\ D = d + c /\ A = a + c /\ B = b + c
  BY DEF AllLater
<1>1. /\ x \in Seq(Segment) /\ Len(x) = n
      /\ \A i \in 1 .. n : /\ x[i] = MovedTo(q[i], d + Until(q)[i - 1])
                           /\ d + Until(q)[i - 1] \in Nat /\ Until(q)[i - 1] \in Nat /\ q[i] \in Segment
  BY <1>0, DelayedFacts
<1>2. /\ y \in Seq(Segment) /\ Len(y) = n
      /\ \A i \in 1 .. n : /\ y[i] = MovedTo(q[i], D + Until(q)[i - 1])
                           /\ D + Until(q)[i - 1] \in Nat
  BY <1>0, DelayedFacts
<1> HIDE DEF x, y, n
<1>3. ASSUME NEW i \in 1 .. n PROVE Seen(<<y[i]>>, S) = Seen(<<x[i]>>, R)
  <2> DEFINE e == x[i]
             g == y[i]
             u == Until(q)[i - 1]
  <2>1. e = MovedTo(q[i], d + u) /\ d + u \in Nat /\ u \in Nat /\ q[i] \in Segment
    BY <1>1
  <2>2. g = MovedTo(q[i], D + u) /\ D + u \in Nat
    BY <1>2
  <2> HIDE DEF e, g, u
  <2>3. e \in Segment /\ g \in Segment
    BY <2>1, <2>2, MovedParts
  <2>4. /\ g.ref = e.ref /\ g.refStart = e.refStart /\ g.dur = e.dur /\ g.start = e.start + c
        /\ e.start \in Nat
    <3>1. e.ref = q[i].ref /\ e.refStart = q[i].refStart /\ e.dur = q[i].dur /\ e.start = d + u
      BY <1>0, <2>1, MovedParts
    <3>2. g.ref = q[i].ref /\ g.refStart = q[i].refStart /\ g.dur = q[i].dur /\ g.start = D + u
      BY <2>1, <2>2, MovedParts
    <3>3. D + u = (d + u) + c
      BY <1>0, <2>1
    <3> QED
      BY <2>1, <3>1, <3>2, <3>3, Zenon
  <2>5. Covered(g) = Covered(e)
    BY <2>4 DEF Covered
  <2>6. ASSUME NEW pts \in Covered(e) PROVE PictureAt(g, pts) \in S <=> PictureAt(e, pts) \in R
    <3> DEFINE m == ShownAt(e, pts)
               k == ShownAt(g, pts)
    <3>1. /\ m \in Nat /\ m = e.start + (pts - e.refStart) /\ pts \in Nat /\ e.refStart <= pts
          /\ PictureAt(e, pts) \in Before(b) <=> m < b
          /\ PictureAt(e, pts) \in Since(a) <=> ~(m < a)
      BY <1>0, <2>3, WhenShown
    <3>2. /\ k = g.start + (pts - g.refStart)
          /\ PictureAt(g, pts) \in Before(B) <=> k < B
          /\ PictureAt(g, pts) \in Since(A) <=> ~(k < A)
      <4>1. pts \in Covered(g)
        BY <2>5
      <4> QED
        BY <1>0, <2>3, <4>1, WhenShown
    <3> HIDE DEF m, k
    <3>3. e.refStart \in Nat
      BY <2>3 DEF Segment
    <3>4. k = m + c
      <4> DEFINE f == e.start
                 h == e.refStart
      <4>1. m = f + (pts - h) /\ k = (f + c) + (pts - h) /\ f \in Nat /\ h \in Nat /\ pts \in Nat
        BY <2>4, <3>1, <3>2, <3>3, Zenon
      <4> HIDE DEF f, h
      <4> QED
        BY <1>0, <4>1
    <3>5. (k < B <=> m < b) /\ (k < A <=> m < a)
      BY <1>0, <3>1, <3>4
    <3> QED
      BY <3>1, <3>2, <3>5
  <2>7. {pts \in Covered(g) : PictureAt(g, pts) \in S} = {pts \in Covered(e) : PictureAt(e, pts) \in R}
    BY <2>5, <2>6
  <2>8. /\ Seen(<<g>>, S) = Frames(g.ref, {pts \in Covered(g) : PictureAt(g, pts) \in S})
        /\ Seen(<<e>>, R) = Frames(e.ref, {pts \in Covered(e) : PictureAt(e, pts) \in R})
    BY <2>3, SeenSingle
  <2> QED
    BY <2>4, <2>7, <2>8 DEF e, g
<1>4. Seen(y, S) = Seen(x, R)
  <2>1. Len(y) = Len(x) /\ \A i \in 1 .. Len(x) : Seen(<<y[i]>>, S) = Seen(<<x[i]>>, R)
    BY <1>1, <1>2, <1>3
  <2> HIDE DEF S, R
  <2> QED
    BY <1>1, <1>2, <2>1, SeenSame
<1> QED
  BY <1>4 DEF x, y, Played

LEMMA PlayedWhole ==
    ASSUME NEW q \in Seq(Segment), NEW d \in Nat
    PROVE  Played(q, d, Picture) = Seen(q, Picture)
<1> DEFINE x == Delayed(q, d)
           n == Len(q)
<1>1. /\ x \in Seq(Segment) /\ Len(x) = n
      /\ \A i \in 1 .. n : /\ x[i] = MovedTo(q[i], d + Until(q)[i - 1])
                           /\ d + Until(q)[i - 1] \in Nat /\ q[i] \in Segment
  BY DelayedFacts
<1> HIDE DEF x
<1>2. ASSUME NEW i \in 1 .. n PROVE Seen(<<x[i]>>, Picture) = Seen(<<q[i]>>, Picture)
  <2> DEFINE s == q[i]
             m == x[i]
  <2>1. m = MovedTo(s, d + Until(q)[i - 1]) /\ d + Until(q)[i - 1] \in Nat /\ s \in Segment
    BY <1>1
  <2> HIDE DEF s, m
  <2>2. m \in Segment /\ m.ref = s.ref /\ m.refStart = s.refStart /\ m.dur = s.dur
    BY <2>1, MovedParts
  <2>3. Covered(m) = Covered(s)
    BY <2>2 DEF Covered
  <2>4. Seen(<<m>>, Picture) = Frames(m.ref, Covered(m)) /\ Seen(<<s>>, Picture) = Frames(s.ref, Covered(s))
    BY <2>1, <2>2, SeenWhole
  <2> QED
    BY <2>2, <2>3, <2>4 DEF m, s
<1>3. Seen(x, Picture) = Seen(q, Picture)
  BY <1>1, <1>2, SeenSame DEF n
<1> QED
  BY <1>3 DEF x, Played

(* What removeEmptySegments() drops lasts no time, so that the pictures    *)
(* behind it are seen when they were.                                      *)
LEMMA PlayedTidied ==
    ASSUME Gapless, NEW segs \in Seq(Segment), NEW S
    PROVE  Seen(Retimed(NoEmpty(segs)), S) = Played(segs, 0, S)
<1> DEFINE P == {q \in Seq(Segment) : Played(NoEmpty(q), 0, S) = Played(q, 0, S)}
<1>1. <<>> \in P
  BY EmptySeq, NoEmptyType
<1>2. ASSUME NEW q \in Seq(Segment), NEW e \in Segment, q \in P PROVE q \o <<e>> \in P
  <2> DEFINE o == <<e>>
             y == q \o o
             x == NoEmpty(o)
             z == NoEmpty(q)
             h == Total(q)
  <2>1. o \in Seq(Segment) /\ y \in Seq(Segment)
    OBVIOUS
  <2>2. h \in Nat
    BY UntilParts
  <2>3. Total(z) = h
    BY NothingLost
  <2>4. Played(x, 0 + h, S) = Played(o, 0 + h, S)
    <3>0. 0 + h = h
      BY <2>2
    <3>1. CASE IsEmptySegment(e)
      <4>1. FirstPts[e.ref] = 0 /\ e.dur \in Nat
        BY DEF Gapless, Segment
      <4>2. e.dur = 0
        BY <3>1, <4>1 DEF IsEmptySegment
      <4>3. Total(o) = 0
        BY <4>2, TotalSingle
      <4>4. x = <<>>
        BY <3>1, NoEmptySingle
      <4> HIDE DEF o, h
      <4>5. \A p \in Picture : h <= p.at /\ p.at < h + Total(o) => p \notin S
        BY <2>2, <4>3 DEF Picture
      <4>6. Played(o, h, S) = <<>>
        BY <2>1, <2>2, <4>5, PlayedNothing
      <4> QED
        BY <3>0, <4>4, <4>6, PlayedNone
    <3>2. CASE ~IsEmptySegment(e)
      BY <3>2, NoEmptySingle
    <3> QED
      BY <3>1, <3>2
  <2>5. Played(z, 0, S) = Played(q, 0, S)
    BY <1>2
  <2> HIDE DEF o
  <2>6. NoEmpty(y) = z \o x /\ z \in Seq(Segment) /\ x \in Seq(Segment)
    BY <2>1, NoEmptyJoined, NoEmptyType
  <2>7. Played(y, 0, S) = Played(q, 0, S) \o Played(o, 0 + h, S)
    BY <2>1, PlayedJoined
  <2> HIDE DEF x, z, y
  <2>8. Played(z \o x, 0, S) = Played(z, 0, S) \o Played(x, 0 + Total(z), S)
    BY <2>6, PlayedJoined
  <2> HIDE DEF h
  <2>9. Played(NoEmpty(y), 0, S) = Played(y, 0, S)
    BY <2>3, <2>4, <2>5, <2>6, <2>7, <2>8
  <2> QED
    BY <2>1, <2>9 DEF y, o
<1> HIDE DEF P
<1>3. segs \in P
  BY <1>1, <1>2, Growing
<1>4. NoEmpty(segs) \in Seq(Segment)
  BY NoEmptyType
<1>5. Seen(Retimed(NoEmpty(segs)), S) = Played(NoEmpty(segs), 0, S)
  BY <1>4, PlayedRetimed
<1> QED
  BY <1>3, <1>5 DEF P

(* What is seen of a segment before a time is seen of its Upto, and since  *)
(* then of its From.                                                       *)
LEMMA PlayedUpto ==
    ASSUME NEW s \in Segment, NEW t \in Nat, s.start <= t, t <= End(s), NEW S
    PROVE  Played(<<s>>, s.start, S \cap Before(t)) = Played(<<Upto(s, t)>>, s.start, S)
<1> DEFINE u == Upto(s, t)
           h == s.start
           g == MovedTo(s, h)
           v == MovedTo(u, h)
<1>1. h \in Nat /\ s.refStart \in Nat /\ s.dur \in Nat /\ End(s) = h + s.dur
  BY DEF Segment, End
<1>2. u \in Segment /\ u.ref = s.ref /\ u.refStart = s.refStart /\ u.dur = t - h
  BY UptoParts
<1>3. h <= t /\ t <= End(s)
  OBVIOUS
<1> HIDE DEF u, h
<1>4. g \in Segment /\ g.ref = s.ref /\ g.refStart = s.refStart /\ g.dur = s.dur /\ g.start = h
  BY <1>1, MovedParts
<1>5. v \in Segment /\ v.ref = s.ref /\ v.refStart = s.refStart /\ v.dur = t - h /\ v.start = h
  BY <1>1, <1>2, MovedParts
<1> HIDE DEF g, v
<1>6. \A pts \in Covered(g) : PictureAt(g, pts) \in Before(t) <=> h + (pts - s.refStart) < t
  BY <1>4, WhenShown
<1>7. \A pts : pts \in Covered(v) <=> pts \in Covered(g) /\ h + (pts - s.refStart) < t
  BY <1>1, <1>3, <1>4, <1>5 DEF Covered
<1>8. \A pts : PictureAt(g, pts) = PictureAt(v, pts)
  BY <1>4, <1>5 DEF PictureAt, ShownAt
<1>9. {pts \in Covered(g) : PictureAt(g, pts) \in S \cap Before(t)} = {pts \in Covered(v) : PictureAt(v, pts) \in S}
  BY <1>6, <1>7, <1>8
<1>10. /\ Seen(<<g>>, S \cap Before(t)) = Frames(g.ref, {pts \in Covered(g) : PictureAt(g, pts) \in S \cap Before(t)})
       /\ Seen(<<v>>, S) = Frames(v.ref, {pts \in Covered(v) : PictureAt(v, pts) \in S})
  BY <1>4, <1>5, SeenSingle
<1>11. Seen(<<g>>, S \cap Before(t)) = Seen(<<v>>, S)
  BY <1>4, <1>5, <1>9, <1>10
<1>12. /\ Played(<<s>>, h, S \cap Before(t)) = Seen(<<g>>, S \cap Before(t))
       /\ Played(<<u>>, h, S) = Seen(<<v>>, S)
  BY <1>1, <1>2, PlayedOne DEF g, v
<1> QED
  BY <1>11, <1>12 DEF u, h

LEMMA PlayedFrom ==
    ASSUME NEW s \in Segment, NEW t \in Nat, s.start <= t, t <= End(s), NEW S
    PROVE  Played(<<s>>, s.start, S \cap Since(t)) = Played(<<From(s, t)>>, t, S)
<1> DEFINE f == From(s, t)
           h == s.start
           g == MovedTo(s, h)
           v == MovedTo(f, t)
<1>1. h \in Nat /\ s.refStart \in Nat /\ s.dur \in Nat /\ End(s) = h + s.dur
  BY DEF Segment, End
<1>2. f \in Segment /\ f.ref = s.ref /\ f.refStart = s.refStart + (t - h) /\ f.dur = s.dur - (t - h)
  BY FromParts
<1>3. h <= t /\ t <= End(s)
  OBVIOUS
<1> HIDE DEF f, h
<1>4. g \in Segment /\ g.ref = s.ref /\ g.refStart = s.refStart /\ g.dur = s.dur /\ g.start = h
  BY <1>1, MovedParts
<1>5. /\ v \in Segment /\ v.ref = s.ref /\ v.refStart = s.refStart + (t - h)
      /\ v.dur = s.dur - (t - h) /\ v.start = t
  BY <1>1, <1>2, MovedParts
<1> HIDE DEF g, v
<1>6. \A pts \in Covered(g) : PictureAt(g, pts) \in Since(t) <=> ~(h + (pts - s.refStart) < t)
  BY <1>4, WhenShown
<1>7. \A pts : pts \in Covered(v) <=> pts \in Covered(g) /\ ~(h + (pts - s.refStart) < t)
  BY <1>1, <1>3, <1>4, <1>5 DEF Covered
<1>8. \A pts \in Covered(g) : PictureAt(g, pts) = PictureAt(v, pts)
  <2> SUFFICES ASSUME NEW pts \in Covered(g) PROVE PictureAt(g, pts) = PictureAt(v, pts)
    OBVIOUS
  <2>1. pts \in Int
    BY DEF Covered
  <2>2. h + (pts - s.refStart) = t + (pts - (s.refStart + (t - h)))
    BY <1>1, <2>1
  <2>3. ShownAt(g, pts) = ShownAt(v, pts)
    BY <1>4, <1>5, <2>2 DEF ShownAt
  <2> QED
    BY <1>4, <1>5, <2>3 DEF PictureAt
<1>9. {pts \in Covered(g) : PictureAt(g, pts) \in S \cap Since(t)} = {pts \in Covered(v) : PictureAt(v, pts) \in S}
  BY <1>6, <1>7, <1>8
<1>10. /\ Seen(<<g>>, S \cap Since(t)) = Frames(g.ref, {pts \in Covered(g) : PictureAt(g, pts) \in S \cap Since(t)})
       /\ Seen(<<v>>, S) = Frames(v.ref, {pts \in Covered(v) : PictureAt(v, pts) \in S})
  BY <1>4, <1>5, SeenSingle
<1>11. Seen(<<g>>, S \cap Since(t)) = Seen(<<v>>, S)
  BY <1>4, <1>5, <1>9, <1>10
<1>12. /\ Played(<<s>>, h, S \cap Since(t)) = Seen(<<g>>, S \cap Since(t))
       /\ Played(<<f>>, t, S) = Seen(<<v>>, S)
  BY <1>1, <1>2, PlayedOne DEF g, v
<1> QED
  BY <1>11, <1>12 DEF f, h

(* A segment of a timeline begins when those before it have been played.   *)
LEMMA StartsAt ==
    ASSUME NEW segs \in Seq(Segment), InTime(segs), NEW k \in DOMAIN segs
    PROVE  Total(SubSeq(segs, 1, k - 1)) = segs[k].start
<1> DEFINE a == SubSeq(segs, 1, k - 1)
           n == k - 1
<1>1. a \in Seq(Segment) /\ Len(a) = n /\ \A i \in 1 .. n : a[i] = segs[i]
  BY BeforeAndAfter
<1>2. k \in 1 .. Len(segs) /\ Len(segs) \in Nat
  BY BeforeAndAfter
<1>3. n \in Nat /\ n <= Len(segs) /\ n \in 0 .. n
  BY <1>2
<1>4. Movable(Segment)
  BY MovedParts DEF Movable
<1>5. segs[k] = MovedTo(segs[k], Until(segs)[n])
  BY <1>2, <1>4, RetimedFacts DEF InTime
<1>6. segs[k] \in Segment /\ Until(segs)[n] \in Nat
  BY <1>2, <1>3, SegmentParts, UntilParts
<1>7. segs[k].start = Until(segs)[n]
  <2>1. MovedTo(segs[k], Until(segs)[n]).start = Until(segs)[n]
    BY <1>6, MovedParts
  <2> QED
    BY <1>5, <2>1, Zenon
<1> HIDE DEF a, n
<1>8. Until(a)[n] = Until(segs)[n]
  BY <1>1, <1>3, SameUntil
<1> QED
  BY <1>1, <1>7, <1>8 DEF Total, a

LEMMA PlayedAround ==
    ASSUME NEW segs \in Seq(Segment), InTime(segs), NEW k \in DOMAIN segs, NEW S
    PROVE  Seen(segs, S) = (Played(SubSeq(segs, 1, k - 1), 0, S) \o Played(<<segs[k]>>, segs[k].start, S))
                            \o Played(SubSeq(segs, k + 1, Len(segs)), End(segs[k]), S)
<1> DEFINE a == SubSeq(segs, 1, k - 1)
           b == SubSeq(segs, k + 1, Len(segs))
           s == segs[k]
           o == <<segs[k]>>
           c == a \o o
<1>1. a \in Seq(Segment) /\ b \in Seq(Segment) /\ s \in Segment
  BY BeforeAndAfter
<1>2. segs = c \o b
  BY Divided
<1>3. o \in Seq(Segment) /\ Total(o) = s.dur
  BY <1>1, TotalSingle
<1>4. Total(a) = s.start
  BY StartsAt
<1>5. s.start \in Nat /\ s.dur \in Nat /\ End(s) = s.start + s.dur
  BY <1>1 DEF End, Segment
<1>6. Seen(segs, S) = Played(segs, 0, S)
  BY PlayedRetimed
<1> HIDE DEF a, b, o, s
<1>7. c \in Seq(Segment) /\ Total(c) = Total(a) + Total(o)
  BY <1>1, <1>3, TotalJoined
<1>8. 0 + Total(a) = s.start /\ 0 + Total(c) = End(s)
  BY <1>3, <1>4, <1>5, <1>7
<1>9. Played(c, 0, S) = Played(a, 0, S) \o Played(o, 0 + Total(a), S)
  BY <1>1, <1>3, PlayedJoined
<1> HIDE DEF c
<1>10. Played(c \o b, 0, S) = Played(c, 0, S) \o Played(b, 0 + Total(c), S)
  BY <1>1, <1>7, PlayedJoined
<1> QED
  BY <1>2, <1>6, <1>8, <1>9, <1>10, Zenon DEF a, b, o, s

LEMMA NothingJoined == ASSUME NEW T, NEW q \in Seq(T) PROVE <<>> \o q = q /\ q \o <<>> = q
BY ConcatEmptySeq

(* What is seen of a timeline before and since a time at which it is       *)
(* divided.                                                                *)
LEMMA PlayedBefore ==
    ASSUME NEW segs \in Seq(Segment), InTime(segs), NEW k \in DOMAIN segs, NEW t \in Nat,
           segs[k].start <= t, t <= End(segs[k]), NEW S
    PROVE  Seen(segs, S \cap Before(t))
             = Played(SubSeq(segs, 1, k - 1), 0, S) \o Played(<<Upto(segs[k], t)>>, segs[k].start, S)
<1> DEFINE a == SubSeq(segs, 1, k - 1)
           b == SubSeq(segs, k + 1, Len(segs))
           s == segs[k]
           W == S \cap Before(t)
           A == Played(a, 0, S)
           H == Played(<<Upto(s, t)>>, s.start, S)
<1>1. a \in Seq(Segment) /\ b \in Seq(Segment) /\ s \in Segment
  BY BeforeAndAfter
<1>2. Total(a) = s.start /\ s.start <= t /\ t <= End(s)
  BY StartsAt
<1>3. s.start \in Nat /\ End(s) \in Nat
  BY <1>1, Numbers
<1>4. Seen(segs, W) = (Played(a, 0, W) \o Played(<<s>>, s.start, W)) \o Played(b, End(s), W)
  BY PlayedAround
<1>5. Upto(s, t) \in Segment
  BY <1>1, <1>2, UptoParts
<1>6. Played(<<s>>, s.start, W) = H
  <2> HIDE DEF s
  <2> QED
    BY <1>1, <1>2, PlayedUpto
<1> HIDE DEF a, b, s, W
<1>7. Played(a, 0, W) = A
  <2>1. \A p \in Picture : 0 <= p.at /\ p.at < 0 + Total(a) => (p \in W <=> p \in S)
    BY <1>2, <1>3, TimesOfPicture DEF W
  <2>2. a \in Seq(Segment) /\ 0 \in Nat
    BY <1>1
  <2> QED
    BY <2>1, <2>2, PlayedAlike, Zenon
<1>8. Played(b, End(s), W) = <<>>
  <2>1. \A p \in Picture : End(s) <= p.at => p \notin W
    BY <1>2, <1>3, TimesOfPicture DEF W
  <2> QED
    BY <1>1, <1>3, <2>1, PlayedNothing
<1>9. A \in Seq(Content) /\ H \in Seq(Content)
  <2>1. <<Upto(s, t)>> \in Seq(Segment)
    BY <1>5
  <2> QED
    BY <1>1, <1>3, <2>1, PlayedType
<1> HIDE DEF A, H
<1>10. A \o H \in Seq(Content)
  BY <1>9, ConcatProperties
<1>11. (A \o H) \o <<>> = A \o H
  BY <1>10, NothingJoined
<1> QED
  BY <1>4, <1>6, <1>7, <1>8, <1>11, Zenon DEF A, H, W, a, s

LEMMA PlayedSince ==
    ASSUME NEW segs \in Seq(Segment), InTime(segs), NEW k \in DOMAIN segs, NEW t \in Nat,
           segs[k].start <= t, t <= End(segs[k]), NEW S
    PROVE  Seen(segs, S \cap Since(t))
             = Played(<<From(segs[k], t)>>, t, S)
                \o Played(SubSeq(segs, k + 1, Len(segs)), End(segs[k]), S)
<1> DEFINE a == SubSeq(segs, 1, k - 1)
           b == SubSeq(segs, k + 1, Len(segs))
           s == segs[k]
           W == S \cap Since(t)
           B == Played(b, End(s), S)
           F == Played(<<From(s, t)>>, t, S)
<1>1. a \in Seq(Segment) /\ b \in Seq(Segment) /\ s \in Segment
  BY BeforeAndAfter
<1>2. Total(a) = s.start /\ s.start <= t /\ t <= End(s)
  BY StartsAt
<1>3. s.start \in Nat /\ End(s) \in Nat
  BY <1>1, Numbers
<1>4. Seen(segs, W) = (Played(a, 0, W) \o Played(<<s>>, s.start, W)) \o Played(b, End(s), W)
  BY PlayedAround
<1>5. From(s, t) \in Segment
  BY <1>1, <1>2, FromParts
<1>6. Played(<<s>>, s.start, W) = F
  <2> HIDE DEF s
  <2> QED
    BY <1>1, <1>2, PlayedFrom
<1> HIDE DEF a, b, s, W
<1>7. Played(a, 0, W) = <<>>
  <2>1. \A p \in Picture : p.at < 0 + Total(a) => p \notin W
    BY <1>2, <1>3, TimesOfPicture DEF W
  <2> QED
    BY <1>1, <2>1, PlayedNothing
<1>8. Played(b, End(s), W) = B
  <2>1. \A p \in Picture : End(s) <= p.at => (p \in W <=> p \in S)
    BY <1>2, <1>3, TimesOfPicture DEF W
  <2> QED
    BY <1>1, <1>3, <2>1, PlayedAlike
<1>9. F \in Seq(Content)
  <2>1. <<From(s, t)>> \in Seq(Segment)
    BY <1>5
  <2> QED
    BY <2>1, PlayedType
<1> HIDE DEF B, F
<1>10. <<>> \o F = F
  BY <1>9, NothingJoined
<1> QED
  BY <1>4, <1>6, <1>7, <1>8, <1>10, Zenon DEF B, F, W, b, s

(* pasteFromClipBoard(): the segments of the clipboard come between what   *)
(* was seen before a time and what was seen since.                         *)
LEMMA PlayedOfBoth == \A S : \A d, e \in Nat : \A a, b \in Seq(Segment) :
    e = d + Total(a) => Played(a \o b, d, S) = Played(a, d, S) \o Played(b, e, S)
<1>1. \A S : \A d \in Nat : \A a, b \in Seq(Segment) :
        Played(a \o b, d, S) = Played(a, d, S) \o Played(b, d + Total(a), S)
  BY PlayedJoined
<1> SUFFICES ASSUME NEW S, NEW d \in Nat, NEW e \in Nat, NEW a \in Seq(Segment), NEW b \in Seq(Segment),
                    e = d + Total(a)
             PROVE  Played(a \o b, d, S) = Played(a, d, S) \o Played(b, e, S)
  BY Zenon
<1>2. Played(a \o b, d, S) = Played(a, d, S) \o Played(b, d + Total(a), S)
  BY <1>1, Zenon
<1> QED
  BY <1>2, Zenon

(* The parts that a clip comes between.                                    *)
Between(segs, clip, t, x, y) ==
    /\ x \in Seq(Segment) /\ y \in Seq(Segment)
    /\ Total(x) = t
    /\ Pasted(segs, clip, t) = Retimed(NoEmpty((x \o clip) \o y))
    /\ \A S : /\ Seen(segs, S \cap Before(t)) = Played(x, 0, S)
              /\ Seen(segs, S \cap Since(t)) = Played(y, t, S)

LEMMA PastedInside ==
    ASSUME NEW segs \in Seq(Segment), NEW clip \in Seq(Segment), InTime(segs), NEW t \in Nat,
           SegAt(segs, t) # 0, segs[SegAt(segs, t)].start # t
    PROVE  \E x, y : Between(segs, clip, t, x, y)
<1> DEFINE at == SegAt(segs, t)
           s == segs[at]
           u == Upto(s, t)
           f == From(s, t)
           a == SubSeq(segs, 1, at - 1)
           b == SubSeq(segs, at + 1, Len(segs))
           o == <<u>>
           p == <<f>>
           m == (o \o clip) \o p
           x == a \o o
           y == p \o b
<1>1. at \in DOMAIN segs /\ s.start <= t /\ t <= End(s) /\ s \in Segment
  BY SegAtParts, BeforeAndAfter
<1>2. /\ u \in Segment /\ u.dur = t - s.start
      /\ f \in Segment /\ f.dur = s.dur - (t - s.start)
  BY <1>1, UptoParts, FromParts
<1>3. Pasted(segs, clip, t) = Retimed(NoEmpty((a \o m) \o b))
  BY Zenon DEF Pasted
<1> HIDE DEF at
<1>4. a \in Seq(Segment) /\ b \in Seq(Segment) /\ Total(a) = s.start
  BY <1>1, BeforeAndAfter, StartsAt
<1>5. \A S : /\ Seen(segs, S \cap Before(t)) = Played(a, 0, S) \o Played(o, s.start, S)
             /\ Seen(segs, S \cap Since(t)) = Played(p, t, S) \o Played(b, End(s), S)
  <2> SUFFICES ASSUME NEW S
               PROVE  /\ Seen(segs, S \cap Before(t)) = Played(a, 0, S) \o Played(o, s.start, S)
                      /\ Seen(segs, S \cap Since(t)) = Played(p, t, S) \o Played(b, End(s), S)
    OBVIOUS
  <2>1. Seen(segs, S \cap Before(t)) = Played(a, 0, S) \o Played(o, s.start, S)
    BY <1>1, PlayedBefore, Zenon
  <2>2. Seen(segs, S \cap Since(t)) = Played(p, t, S) \o Played(b, End(s), S)
    BY <1>1, PlayedSince, Zenon
  <2> QED
    BY <2>1, <2>2
<1>6. o \in Seq(Segment) /\ p \in Seq(Segment) /\ Total(o) = t - s.start /\ Total(p) = s.dur - (t - s.start)
  BY <1>2, TotalSingle
<1>7. s.start \in Nat /\ s.dur \in Nat /\ End(s) \in Nat /\ End(s) = s.start + s.dur
  BY <1>1, Numbers DEF End
<1> HIDE DEF a, b, o, p, s
<1>8. x \in Seq(Segment) /\ Total(x) = Total(a) + Total(o) /\ y \in Seq(Segment)
  BY <1>4, <1>6, TotalJoined
<1>9. Total(x) = t /\ s.start = 0 + Total(a) /\ End(s) = t + Total(p)
  <2> DEFINE A == Total(a)
             O == Total(o)
             P == Total(p)
             X == Total(x)
             g == s.start
             h == End(s)
             w == s.dur
  <2>1. A = g /\ O = t - g /\ P = w - (t - g) /\ X = A + O
    BY <1>4, <1>6, <1>8, Zenon
  <2>2. g \in Nat /\ w \in Nat /\ h = g + w
    BY <1>7, Zenon
  <2> HIDE DEF A, O, P, X, g, h, w
  <2>3. X = t /\ g = 0 + A /\ h = t + P
    BY <2>1, <2>2
  <2> QED
    BY <2>3 DEF A, P, X, g, h
<1>10. \A S : Played(x, 0, S) = Played(a, 0, S) \o Played(o, s.start, S)
  <2> SUFFICES ASSUME NEW S PROVE Played(x, 0, S) = Played(a, 0, S) \o Played(o, s.start, S)
    OBVIOUS
  <2> DEFINE J(v, w) == v \o w
             K(v, h) == Played(v, h, S)
             W == Seq(Segment)
             N == Nat
  <2>1. \A h, e \in N : \A v, w \in W : e = h + Total(v) => K(J(v, w), h) = J(K(v, h), K(w, e))
    BY PlayedOfBoth, Zenon
  <2>2. a \in W /\ o \in W /\ 0 \in N /\ s.start \in N /\ s.start = 0 + Total(a)
    BY <1>4, <1>6, <1>7, <1>9
  <2>3. x = J(a, o)
    OBVIOUS
  <2> HIDE DEF J, K, W, N, x
  <2>4. K(x, 0) = J(K(a, 0), K(o, s.start))
    BY <2>1, <2>2, <2>3
  <2> QED
    BY <2>4, Zenon DEF J, K
<1>11. \A S : Played(y, t, S) = Played(p, t, S) \o Played(b, End(s), S)
  <2> SUFFICES ASSUME NEW S PROVE Played(y, t, S) = Played(p, t, S) \o Played(b, End(s), S)
    OBVIOUS
  <2> DEFINE J(v, w) == v \o w
             K(v, h) == Played(v, h, S)
             W == Seq(Segment)
             N == Nat
  <2>1. \A h, e \in N : \A v, w \in W : e = h + Total(v) => K(J(v, w), h) = J(K(v, h), K(w, e))
    BY PlayedOfBoth, Zenon
  <2>2. p \in W /\ b \in W /\ t \in N /\ End(s) \in N /\ End(s) = t + Total(p)
    BY <1>4, <1>6, <1>7, <1>9
  <2>3. y = J(p, b)
    OBVIOUS
  <2> HIDE DEF J, K, W, N, y
  <2>31. K(J(p, b), t) = J(K(p, t), K(b, End(s)))
    BY <2>1, <2>2, Zenon
  <2>4. K(y, t) = J(K(p, t), K(b, End(s)))
    BY <2>3, <2>31, Zenon
  <2> QED
    BY <2>4, Zenon DEF J, K
<1>12. (a \o m) \o b = (x \o clip) \o y
  <2> DEFINE J(v, w) == v \o w
             W == Seq(Segment)
  <2>1. \A v, w, z \in W : J(J(v, w), z) = J(v, J(w, z)) /\ J(v, w) \in W
    BY JoinedAssociative, Zenon
  <2>2. a \in W /\ b \in W /\ o \in W /\ p \in W /\ clip \in W
    BY <1>4, <1>6
  <2> HIDE DEF J, W
  <2>3. J(J(a, J(J(o, clip), p)), b) = J(J(J(a, o), clip), J(p, b))
    <3>1. J(o, clip) \in W /\ J(a, o) \in W /\ J(J(a, o), clip) \in W
      BY <2>1, <2>2
    <3>2. J(a, J(J(o, clip), p)) = J(J(a, J(o, clip)), p)
      BY <2>1, <2>2, <3>1
    <3>3. J(a, J(o, clip)) = J(J(a, o), clip)
      BY <2>1, <2>2
    <3>4. J(J(J(J(a, o), clip), p), b) = J(J(J(a, o), clip), J(p, b))
      BY <2>1, <2>2, <3>1
    <3> QED
      BY <3>2, <3>3, <3>4, Zenon
  <2> QED
    BY <2>3, Zenon DEF J
<1>13. Pasted(segs, clip, t) = Retimed(NoEmpty((x \o clip) \o y))
  BY <1>3, <1>12, Zenon
<1> HIDE DEF x, y, m
<1>14. Between(segs, clip, t, x, y)
  BY <1>5, <1>8, <1>9, <1>10, <1>11, <1>13, Zenon DEF Between
<1> QED
  BY <1>14, Zenon

LEMMA PastedInFront ==
    ASSUME NEW segs \in Seq(Segment), NEW clip \in Seq(Segment), InTime(segs), NEW t \in Nat,
           SegAt(segs, t) # 0, segs[SegAt(segs, t)].start = t
    PROVE  \E x, y : Between(segs, clip, t, x, y)
<1> DEFINE at == SegAt(segs, t)
           s == segs[at]
           u == Upto(s, t)
           f == From(s, t)
           a == SubSeq(segs, 1, at - 1)
           b == SubSeq(segs, at + 1, Len(segs))
           o == <<u>>
           p == <<f>>
           r == <<s>>
           y == r \o b
<1>1. at \in DOMAIN segs /\ s.start <= t /\ t <= End(s) /\ s \in Segment /\ s.start = t
  BY SegAtParts, BeforeAndAfter
<1>2. u \in Segment /\ u.dur = t - s.start /\ f \in Segment
  BY <1>1, UptoParts, FromParts
<1>3. Pasted(segs, clip, t) = Retimed(NoEmpty((a \o (clip \o r)) \o b))
  <2>1. Append(clip, s) = clip \o r
    BY <1>1, AppendIsConcat
  <2>2. Pasted(segs, clip, t) = Retimed(NoEmpty((a \o Append(clip, s)) \o b))
    BY <1>1, Zenon DEF Pasted
  <2> QED
    BY <2>1, <2>2, Zenon
<1> HIDE DEF at
<1>4. a \in Seq(Segment) /\ b \in Seq(Segment) /\ Total(a) = t
  BY <1>1, BeforeAndAfter, StartsAt
<1>5. \A S : /\ Seen(segs, S \cap Before(t)) = Played(a, 0, S) \o Played(o, t, S)
             /\ Seen(segs, S \cap Since(t)) = Played(p, t, S) \o Played(b, End(s), S)
  <2>1. \A S : Seen(segs, S \cap Before(t)) = Played(a, 0, S) \o Played(o, s.start, S)
    BY <1>1, PlayedBefore
  <2>2. \A S : Seen(segs, S \cap Since(t)) = Played(p, t, S) \o Played(b, End(s), S)
    BY <1>1, PlayedSince
  <2> QED
    BY <1>1, <2>1, <2>2, Zenon
<1>6. s.dur \in Nat /\ End(s) \in Nat /\ End(s) = t + s.dur /\ u.dur = 0
  BY <1>1, <1>2, Numbers DEF End
<1>7. o \in Seq(Segment) /\ r \in Seq(Segment) /\ Total(o) = 0 /\ Total(r) = s.dur
  BY <1>1, <1>2, <1>6, TotalSingle
<1>8. \A S : Played(p, t, S) = Played(r, t, S)
  <2> SUFFICES ASSUME NEW S PROVE Played(p, t, S) = Played(r, t, S)
    OBVIOUS
  <2> DEFINE W == S \cap Since(t)
  <2>1. Played(r, t, W) = Played(p, t, S)
    <3> HIDE DEF s
    <3> QED
      BY <1>1, PlayedFrom
  <2>2. \A q \in Picture : t <= q.at => (q \in W <=> q \in S)
    BY TimesOfPicture
  <2> HIDE DEF W, r
  <2>3. Played(r, t, W) = Played(r, t, S)
    BY <1>7, <2>2, PlayedAlike, Zenon
  <2> QED
    BY <2>1, <2>3
<1>9. \A S : Played(o, t, S) = <<>>
  <2> SUFFICES ASSUME NEW S PROVE Played(o, t, S) = <<>>
    OBVIOUS
  <2> HIDE DEF o
  <2>1. \A q \in Picture : t <= q.at /\ q.at < t + Total(o) => q \notin S
    BY <1>7, TimesOfPicture
  <2> QED
    BY <1>7, <2>1, PlayedNothing
<1> HIDE DEF a, b, o, p, r, s
<1>10. \A S : Played(a, 0, S) \o <<>> = Played(a, 0, S)
  <2> SUFFICES ASSUME NEW S PROVE Played(a, 0, S) \o <<>> = Played(a, 0, S)
    OBVIOUS
  <2> DEFINE A == Played(a, 0, S)
  <2>1. A \in Seq(Content)
    BY <1>4, PlayedType
  <2> HIDE DEF A
  <2>2. A \o <<>> = A
    BY <2>1, NothingJoined
  <2> QED
    BY <2>2 DEF A
<1>11. \A S : Played(y, t, S) = Played(r, t, S) \o Played(b, End(s), S)
  <2> SUFFICES ASSUME NEW S PROVE Played(y, t, S) = Played(r, t, S) \o Played(b, End(s), S)
    OBVIOUS
  <2> DEFINE J(v, w) == v \o w
             K(v, h) == Played(v, h, S)
             W == Seq(Segment)
             N == Nat
  <2>1. \A h, e \in N : \A v, w \in W : e = h + Total(v) => K(J(v, w), h) = J(K(v, h), K(w, e))
    BY PlayedOfBoth, Zenon
  <2>2. r \in W /\ b \in W /\ t \in N /\ End(s) \in N /\ End(s) = t + Total(r)
    BY <1>4, <1>6, <1>7
  <2>3. y = J(r, b)
    OBVIOUS
  <2> HIDE DEF J, K, W, N, y
  <2>31. K(J(r, b), t) = J(K(r, t), K(b, End(s)))
    BY <2>1, <2>2, Zenon
  <2>4. K(y, t) = J(K(r, t), K(b, End(s)))
    BY <2>3, <2>31, Zenon
  <2> QED
    BY <2>4, Zenon DEF J, K
<1>12. (a \o (clip \o r)) \o b = (a \o clip) \o y /\ y \in Seq(Segment)
  <2> DEFINE J(v, w) == v \o w
             W == Seq(Segment)
  <2>1. \A v, w, z \in W : J(J(v, w), z) = J(v, J(w, z)) /\ J(v, w) \in W
    BY JoinedAssociative, Zenon
  <2>2. a \in W /\ b \in W /\ r \in W /\ clip \in W
    BY <1>4, <1>7
  <2> HIDE DEF J, W
  <2>3. J(J(a, J(clip, r)), b) = J(J(a, clip), J(r, b)) /\ J(r, b) \in W
    BY <2>1, <2>2
  <2> QED
    BY <2>3, Zenon DEF J, W
<1>13. Pasted(segs, clip, t) = Retimed(NoEmpty((a \o clip) \o y))
  BY <1>3, <1>12, Zenon
<1>14. \A S : Seen(segs, S \cap Before(t)) = Played(a, 0, S)
  BY <1>5, <1>9, <1>10, Zenon
<1>15. \A S : Seen(segs, S \cap Since(t)) = Played(y, t, S)
  BY <1>5, <1>8, <1>11, Zenon
<1> HIDE DEF y
<1>16. Between(segs, clip, t, a, y)
  BY <1>4, <1>12, <1>13, <1>14, <1>15, Zenon DEF Between
<1> QED
  BY <1>16, Zenon

LEMMA PastedBetween ==
    ASSUME NEW segs \in Seq(Segment), NEW clip \in Seq(Segment), InTime(segs), NEW t \in Nat,
           SegAt(segs, t) # 0
    PROVE  \E x, y : Between(segs, clip, t, x, y)
BY PastedInside, PastedInFront

LEMMA PlayedBetween ==
    ASSUME Gapless, NEW segs \in Seq(Segment), NEW clip \in Seq(Segment), NEW t \in Nat, NEW x, NEW y,
           Between(segs, clip, t, x, y), NEW S
    PROVE  Seen(Pasted(segs, clip, t), S)
             = (Played(x, 0, S) \o Played(clip, t, S)) \o Played(y, t + Total(clip), S)
<1> DEFINE z == x \o clip
           all == z \o y
           c == Total(clip)
           e == t + c
<1>1. x \in Seq(Segment) /\ y \in Seq(Segment) /\ Total(x) = t /\ Pasted(segs, clip, t) = Retimed(NoEmpty(all))
  BY DEF Between
<1>2. z \in Seq(Segment) /\ Total(z) = Total(x) + c
  BY <1>1, TotalJoined
<1>3. c \in Nat /\ e \in Nat
  BY UntilParts
<1>4. t = 0 + Total(x) /\ e = 0 + Total(z)
  BY <1>1, <1>2, <1>3
<1>5. Played(z, 0, S) = Played(x, 0, S) \o Played(clip, t, S)
  <2> HIDE DEF c, e
  <2> DEFINE J(v, w) == v \o w
             K(v, h) == Played(v, h, S)
             W == Seq(Segment)
             N == Nat
  <2>1. \A h, g \in N : \A v, w \in W : g = h + Total(v) => K(J(v, w), h) = J(K(v, h), K(w, g))
    BY PlayedOfBoth, Zenon
  <2>2. x \in W /\ clip \in W /\ 0 \in N /\ t \in N /\ t = 0 + Total(x)
    BY <1>1, <1>4
  <2>3. z = J(x, clip)
    OBVIOUS
  <2> HIDE DEF J, K, W, N, z
  <2>4. K(z, 0) = J(K(x, 0), K(clip, t))
    BY <2>1, <2>2, <2>3
  <2> QED
    BY <2>4, Zenon DEF J, K
<1>6. Seen(Retimed(NoEmpty(all)), S) = Played(all, 0, S) /\ all \in Seq(Segment)
  <2> HIDE DEF z
  <2>1. all \in Seq(Segment)
    BY <1>1, <1>2, TotalJoined
  <2> HIDE DEF all
  <2> QED
    BY <2>1, PlayedTidied
<1> HIDE DEF z, c, e
<1>7. Played(all, 0, S) = Played(z, 0, S) \o Played(y, e, S)
  <2> DEFINE J(v, w) == v \o w
             K(v, h) == Played(v, h, S)
             W == Seq(Segment)
             N == Nat
  <2>1. \A h, g \in N : \A v, w \in W : g = h + Total(v) => K(J(v, w), h) = J(K(v, h), K(w, g))
    BY PlayedOfBoth, Zenon
  <2>2. z \in W /\ y \in W /\ 0 \in N /\ e \in N /\ e = 0 + Total(z)
    BY <1>1, <1>2, <1>3, <1>4
  <2>3. all = J(z, y)
    OBVIOUS
  <2> HIDE DEF J, K, W, N, all
  <2>4. K(all, 0) = J(K(z, 0), K(y, e))
    BY <2>1, <2>2, <2>3
  <2> QED
    BY <2>4, Zenon DEF J, K
<1> HIDE DEF all
<1>8. Seen(Pasted(segs, clip, t), S) = (Played(x, 0, S) \o Played(clip, t, S)) \o Played(y, e, S)
  BY <1>1, <1>5, <1>6, <1>7, Zenon
<1> QED
  BY <1>8, Zenon DEF e, c

(* A paste at time t into what lies behind the selection, in front of it,  *)
(* or inside of it.                                                        *)
LEMMA SelectionBefore ==
    ASSUME Gapless, NEW segs \in Seq(Segment), NEW clip \in Seq(Segment), NEW t \in Nat, NEW x, NEW y,
           Between(segs, clip, t, x, y), NEW a \in Nat, NEW b \in Nat, b < t
    PROVE  Seen(Pasted(segs, clip, t), Since(a) \cap Before(b)) = Seen(segs, Since(a) \cap Before(b))
<1> DEFINE S == Since(a) \cap Before(b)
           c == Total(clip)
           X == Played(x, 0, S)
<1>1. x \in Seq(Segment) /\ y \in Seq(Segment) /\ Total(x) = t /\ Seen(segs, S \cap Before(t)) = X
  BY DEF Between
<1>2. c \in Nat /\ t + c \in Nat
  BY UntilParts
<1>3. Seen(Pasted(segs, clip, t), S) = (X \o Played(clip, t, S)) \o Played(y, t + c, S)
  <2> HIDE DEF S
  <2>1. Seen(Pasted(segs, clip, t), S)
          = (Played(x, 0, S) \o Played(clip, t, S)) \o Played(y, t + Total(clip), S)
    BY PlayedBetween
  <2> QED
    BY <2>1, Zenon
<1>4. \A p \in S : p \in Picture /\ p.at \in Nat /\ p.at < t
  <2>1. \A p \in S : p \in Picture
    BY DEF Before
  <2> QED
    BY <2>1, TimesOfPicture
<1>5. S \cap Before(t) = S
  BY <1>4, TimesOfPicture
<1>6. X \in Seq(Content)
  BY <1>1, PlayedType
<1> HIDE DEF S, X, c
<1>7. Played(clip, t, S) = <<>>
  <2>1. \A p \in Picture : t <= p.at => p \notin S
    BY <1>4
  <2> QED
    BY <2>1, PlayedNothing
<1>8. Played(y, t + c, S) = <<>>
  <2> DEFINE e == t + c
  <2>1. e \in Nat /\ \A p \in Picture : e <= p.at => p \notin S
    BY <1>2, <1>4
  <2> HIDE DEF e
  <2>2. Played(y, e, S) = <<>>
    BY <1>1, <2>1, PlayedNothing
  <2> QED
    BY <2>2 DEF e
<1>9. X \o <<>> = X
  BY <1>6, NothingJoined
<1>10. Seen(Pasted(segs, clip, t), S) = Seen(segs, S)
  BY <1>1, <1>3, <1>5, <1>7, <1>8, <1>9, Zenon
<1> QED
  BY <1>10 DEF S

LEMMA SelectionBehind ==
    ASSUME Gapless, NEW segs \in Seq(Segment), NEW clip \in Seq(Segment), NEW t \in Nat, NEW x, NEW y,
           Between(segs, clip, t, x, y), NEW a \in Nat, NEW b \in Nat, t < a
    PROVE  Seen(Pasted(segs, clip, t), Since(a + Total(clip)) \cap Before(b + Total(clip)))
             = Seen(segs, Since(a) \cap Before(b))
<1> DEFINE c == Total(clip)
           S == Since(a) \cap Before(b)
           R == Since(a + c) \cap Before(b + c)
           Y == Played(y, t, S)
<1>1. x \in Seq(Segment) /\ y \in Seq(Segment) /\ Total(x) = t /\ Seen(segs, S \cap Since(t)) = Y
  BY DEF Between
<1>2. c \in Nat /\ t + c \in Nat /\ a + c \in Nat /\ b + c \in Nat
  BY UntilParts
<1>3. Seen(Pasted(segs, clip, t), R) = (Played(x, 0, R) \o Played(clip, t, R)) \o Played(y, t + c, R)
  <2> HIDE DEF R
  <2>1. Seen(Pasted(segs, clip, t), R)
          = (Played(x, 0, R) \o Played(clip, t, R)) \o Played(y, t + Total(clip), R)
    BY PlayedBetween
  <2> QED
    BY <2>1, Zenon
<1>4. S \cap Since(t) = S
  <2>1. \A p \in S : p \in Picture
    BY DEF Before
  <2>2. \A p \in S : p.at \in Nat /\ p.at >= a
    BY <2>1, TimesOfPicture
  <2>3. \A p \in S : p \in Since(t)
    BY <2>1, <2>2, TimesOfPicture
  <2> QED
    BY <2>3
<1> HIDE DEF c
<1>5. Played(y, t + c, R) = Y
  <2> DEFINE D == t + c
             A == a + c
             B == b + c
  <2>1. AllLater(c, t, a, b, D, A, B)
    BY <1>2 DEF AllLater
  <2> HIDE DEF D, A, B
  <2>2. Played(y, D, Since(A) \cap Before(B)) = Played(y, t, Since(a) \cap Before(b))
    BY <1>1, <2>1, PlayedLater
  <2> QED
    BY <2>2, Zenon DEF D, A, B
<1>6. Y \in Seq(Content)
  BY <1>1, PlayedType
<1>7. \A p \in R : p \in Picture /\ p.at \in Nat /\ p.at >= a + c
  <2>1. \A p \in R : p \in Picture
    BY DEF Before
  <2> QED
    BY <1>2, <2>1, TimesOfPicture
<1> HIDE DEF R, S, Y
<1>8. Played(x, 0, R) = <<>>
  <2>1. \A p \in Picture : p.at < 0 + Total(x) => p \notin R
    BY <1>1, <1>2, <1>7
  <2> QED
    BY <1>1, <2>1, PlayedNothing
<1>9. Played(clip, t, R) = <<>>
  <2>1. \A p \in Picture : p.at < t + c => p \notin R
    BY <1>2, <1>7
  <2> QED
    BY <2>1, PlayedNothing DEF c
<1>10. <<>> \o <<>> = <<>> /\ <<>> \o Y = Y
  BY <1>6, NothingJoined, EmptySeq
<1>11. Seen(Pasted(segs, clip, t), R) = Seen(segs, S)
  BY <1>1, <1>3, <1>4, <1>5, <1>8, <1>9, <1>10, Zenon
<1> QED
  BY <1>11 DEF R, S, c

(* What a selection from a to b shows with the clipboard inside of it.     *)
SeenWith(segs, clip, t, a, b) ==
    (Seen(segs, Since(a) \cap Before(t)) \o Seen(clip, Picture)) \o Seen(segs, Since(t) \cap Before(b))

LEMMA SelectionAround ==
    ASSUME Gapless, NEW segs \in Seq(Segment), NEW clip \in Seq(Segment), NEW t \in Nat, NEW x, NEW y,
           Between(segs, clip, t, x, y), NEW a \in Nat, NEW b \in Nat, a <= t, t <= b,
           NEW e, e = b + Total(clip)
    PROVE  Seen(Pasted(segs, clip, t), Since(a) \cap Before(e)) = SeenWith(segs, clip, t, a, b)
<1> DEFINE c == Total(clip)
           d == t + c
           R == Since(a) \cap Before(e)
<1>1. /\ x \in Seq(Segment) /\ y \in Seq(Segment) /\ Total(x) = t
      /\ Seen(segs, Since(a) \cap Before(t)) = Played(x, 0, Since(a))
      /\ Seen(segs, Before(b) \cap Since(t)) = Played(y, t, Before(b))
  BY DEF Between
<1>2. c \in Nat /\ d \in Nat /\ e \in Nat /\ d = t + c /\ e = b + c
  BY UntilParts
<1>3. Seen(Pasted(segs, clip, t), R) = (Played(x, 0, R) \o Played(clip, t, R)) \o Played(y, d, R)
  <2> HIDE DEF R
  <2>1. Seen(Pasted(segs, clip, t), R)
          = (Played(x, 0, R) \o Played(clip, t, R)) \o Played(y, t + Total(clip), R)
    BY PlayedBetween
  <2> QED
    BY <2>1, Zenon
<1>4. Before(b) \cap Since(t) = Since(t) \cap Before(b)
  OBVIOUS
<1>5. Played(y, d, Since(d) \cap Before(e)) = Played(y, t, Since(t) \cap Before(b))
  <2> HIDE DEF c, d
  <2>1. AllLater(c, t, t, b, d, d, e)
    BY <1>2 DEF AllLater
  <2>2. y \in Seq(Segment)
    BY <1>1
  <2> QED
    BY <2>1, <2>2, PlayedLater
<1>6. Total(clip) = c
  OBVIOUS
<1> HIDE DEF c, d
<1>7. \A p \in Picture : /\ p.at \in Nat
                         /\ p \in R <=> p.at >= a /\ p.at < e
                         /\ p \in Since(a) <=> p.at >= a
                         /\ p \in Since(d) \cap Before(e) <=> p.at >= d /\ p.at < e
                         /\ p \in Since(t) \cap Before(b) <=> p.at >= t /\ p.at < b
                         /\ p \in Before(b) <=> p.at < b
  BY <1>2, TimesOfPicture
<1> HIDE DEF R
<1>8. Played(x, 0, R) = Played(x, 0, Since(a))
  <2>1. \A p \in Picture : p.at < 0 + Total(x) => (p \in R <=> p \in Since(a))
    BY <1>1, <1>2, <1>7
  <2> QED
    BY <1>1, <2>1, PlayedAlike
<1>9. Played(clip, t, R) = Seen(clip, Picture)
  <2>1. \A p \in Picture : t <= p.at /\ p.at < t + Total(clip) => (p \in R <=> p \in Picture)
    BY <1>2, <1>6, <1>7
  <2>2. Played(clip, t, R) = Played(clip, t, Picture)
    BY <2>1, PlayedAlike
  <2> QED
    BY <2>2, PlayedWhole
<1>10. Played(y, d, R) = Played(y, d, Since(d) \cap Before(e))
  <2> DEFINE Q == Since(d) \cap Before(e)
  <2>1. \A p \in Picture : d <= p.at => (p \in R <=> p \in Q)
    BY <1>2, <1>7
  <2> HIDE DEF Q
  <2>2. Played(y, d, R) = Played(y, d, Q)
    BY <1>1, <1>2, <2>1, PlayedAlike
  <2> QED
    BY <2>2 DEF Q
<1>11. Played(y, t, Since(t) \cap Before(b)) = Played(y, t, Before(b))
  <2> DEFINE Q == Since(t) \cap Before(b)
  <2>1. \A p \in Picture : t <= p.at => (p \in Q <=> p \in Before(b))
    BY <1>7
  <2> HIDE DEF Q
  <2>2. Played(y, t, Q) = Played(y, t, Before(b))
    BY <1>1, <2>1, PlayedAlike
  <2> QED
    BY <2>2 DEF Q
<1>12. Seen(Pasted(segs, clip, t), R)
         = (Seen(segs, Since(a) \cap Before(t)) \o Seen(clip, Picture)) \o Seen(segs, Since(t) \cap Before(b))
  BY <1>1, <1>3, <1>4, <1>5, <1>8, <1>9, <1>10, <1>11, Zenon
<1> QED
  BY <1>12 DEF R, SeenWith

SelectedWith(segs, clip, t, a, b) ==
    Selected(segs, a, t) \o Pictures(Shown(clip)) \o Selected(segs, t, b)

(* What a selection shows after a paste at time t.                         *)
LEMMA SelectionAfter ==
    ASSUME Gapless, NEW segs \in Seq(Segment), NEW clip \in Seq(Segment), InTime(segs), NEW t \in Nat,
           SegAt(segs, t) # 0, NEW a \in Nat, NEW b \in Nat, NEW g, g = Total(clip), NEW p, p = Pasted(segs, clip, t)
    PROVE  /\ a <= t /\ t <= b => Selected(p, a, b + g) = SelectedWith(segs, clip, t, a, b)
           /\ t < a => Selected(p, a + g, b + g) = Selected(segs, a, b)
           /\ b < t => Selected(p, a, b) = Selected(segs, a, b)
<1>1. PICK x, y : Between(segs, clip, t, x, y)
  BY PastedBetween
<1>2. \A q, u, w : Selected(q, u, w) = Seen(q, Since(u) \cap Before(w))
  BY DEF Selected, Seen
<1>3. Pictures(Shown(clip)) = Seen(clip, Picture)
  BY SeenFacts
<1>4. ASSUME a <= t, t <= b
      PROVE  Selected(p, a, b + g) = SelectedWith(segs, clip, t, a, b)
  <2> DEFINE e == b + g
  <2>1. e = b + Total(clip)
    OBVIOUS
  <2> HIDE DEF e
  <2>2. Seen(p, Since(a) \cap Before(e)) = SeenWith(segs, clip, t, a, b)
    BY <1>1, <1>4, <2>1, SelectionAround
  <2> QED
    BY <1>2, <1>3, <2>2, Zenon DEF e, SeenWith, SelectedWith
<1>5. ASSUME t < a PROVE Selected(p, a + g, b + g) = Selected(segs, a, b)
  <2>1. Seen(p, Since(a + Total(clip)) \cap Before(b + Total(clip))) = Seen(segs, Since(a) \cap Before(b))
    BY <1>1, <1>5, SelectionBehind
  <2> QED
    BY <1>2, <2>1, Zenon
<1>6. ASSUME b < t PROVE Selected(p, a, b) = Selected(segs, a, b)
  <2>1. Seen(p, Since(a) \cap Before(b)) = Seen(segs, Since(a) \cap Before(b))
    BY <1>1, <1>6, SelectionBefore
  <2> QED
    BY <1>2, <2>1, Zenon
<1> QED
  BY <1>4, <1>5, <1>6, Zenon

(* Where the markers go when a paste moves them.                           *)
LEMMA MarkersMoved ==
    ASSUME Markers, NEW pts \in Nat, NEW g \in Nat, Later + g < PtsModulus, Shifted(pts, g)
    PROVE  /\ Earlier \in Nat
           /\ Later \in Nat
           /\ Earlier <= Later
           /\ pts < Earlier => (markerA' = Earlier + g /\ markerB' = Later + g)
           /\ (Earlier <= pts /\ pts <= Later) => (markerA' = Earlier /\ markerB' = Later + g)
           /\ Later < pts => (markerA' = Earlier /\ markerB' = Later)
<1>1. Earlier \in Nat /\ Later \in Nat /\ Earlier <= Later /\ Earlier \in Times /\ Later \in Times
  BY Selection
<1>2. PtsModulus \in Nat
  BY SessionAssumption
<1> DEFINE A == Earlier + g
           B == Later + g
           a == Earlier
           b == Later
<1>4. A \in Times /\ B \in Times /\ a \in Times /\ b \in Times /\ A \in Nat /\ B \in Nat
  BY <1>1, <1>2 DEF Times
<1>5. A % PtsModulus = A /\ B % PtsModulus = B /\ a % PtsModulus = a /\ b % PtsModulus = b
  BY <1>4, MarkersWrap
<1>6. a \in Nat /\ b \in Nat /\ a <= b /\ A = a + g /\ B = b + g
  BY <1>1
<1>7. LET v == (IF a > pts THEN A ELSE a) % PtsModulus
          w == (IF a > pts THEN B ELSE b) % PtsModulus
      IN  SetMarkers(v, IF v <= pts /\ pts <= w THEN w + g ELSE w)
  BY Zenon DEF Shifted
<1> HIDE DEF a, b, A, B
<1>8. CASE pts < a
  <2>1. a > pts /\ ~(A <= pts)
    BY <1>6, <1>8
  <2>2. SetMarkers(A, B)
    BY <1>5, <1>7, <2>1, Zenon
  <2>3. markerA' = A /\ markerB' = B /\ ~(a <= pts) /\ ~(b < pts)
    BY <1>5, <1>6, <1>8, <2>2 DEF SetMarkers
  <2> QED
    BY <1>1, <1>8, <2>3 DEF A, B, a, b
<1>9. CASE a <= pts /\ pts <= b
  <2>1. ~(a > pts)
    BY <1>6, <1>9
  <2>2. SetMarkers(a, B)
    <3>1. SetMarkers(a, b + g)
      BY <1>5, <1>7, <1>9, <2>1, Zenon
    <3> QED
      BY <1>6, <3>1
  <2>3. markerA' = a /\ markerB' = B /\ ~(pts < a) /\ ~(b < pts)
    BY <1>5, <1>6, <1>9, <2>2 DEF SetMarkers
  <2> QED
    BY <1>1, <1>9, <2>3 DEF B, a, b
<1>10. CASE b < pts
  <2>1. ~(a > pts) /\ ~(pts <= b) /\ ~(pts < a)
    BY <1>6, <1>10
  <2>2. SetMarkers(a, b)
    BY <1>5, <1>7, <2>1, Zenon
  <2>3. markerA' = a /\ markerB' = b
    BY <1>5, <2>2 DEF SetMarkers
  <2> QED
    BY <1>1, <1>10, <2>1, <2>3 DEF a, b
<1>11. pts < a \/ (a <= pts /\ pts <= b) \/ b < pts
  BY <1>6
<1> QED
  BY <1>8, <1>9, <1>10, <1>11, Zenon

(* The selection before a paste, and where it is afterwards.               *)
LEMMA SelectionMoves ==
    ASSUME Gapless, Markers, NEW segs \in Seq(Segment), InTime(segs), clipboard \in Seq(Segment),
           NEW pts \in Nat, SegAt(segs, pts) # 0, segments' = Pasted(segs, clipboard, pts),
           NEW n, n = Total(segs), markerA <= n, markerB <= n,
           NEW g, g = Total(clipboard), n + g < PtsModulus, Shifted(pts, g),
           NEW old, old.segm = segs, old.a = markerA, old.b = markerB
    PROVE  SelectionMoved(old, pts)
<1>1. n \in Nat /\ g \in Nat
  BY UntilParts
<1> DEFINE a == Earlier
           b == Later
           p == Pasted(segs, clipboard, pts)
<1>2. /\ a \in Nat /\ b \in Nat /\ a <= b
      /\ pts < a => markerA' = a + g /\ markerB' = b + g
      /\ a <= pts /\ pts <= b => markerA' = a /\ markerB' = b + g
      /\ b < pts => markerA' = a /\ markerB' = b
  <2>1. Later \in Nat /\ Later <= n
    BY Selection DEF Later
  <2>2. Later + g < PtsModulus
    BY <1>1, <2>1, SessionAssumption
  <2> QED
    BY <1>1, <2>2, MarkersMoved
<1>3. a = (IF old.a > old.b THEN old.b ELSE old.a) /\ b = (IF old.a > old.b THEN old.a ELSE old.b)
  BY Zenon DEF Earlier, Later
<1> HIDE DEF a, b
<1>4. /\ a <= pts /\ pts <= b => Selected(p, a, b + g) = SelectedWith(segs, clipboard, pts, a, b)
      /\ pts < a => Selected(p, a + g, b + g) = Selected(segs, a, b)
      /\ b < pts => Selected(p, a, b) = Selected(segs, a, b)
  BY <1>2, SelectionAfter
<1> HIDE DEF p
<1>5. Selected(segments', markerA', markerB') =
        IF a <= pts /\ pts <= b
        THEN SelectedWith(segs, clipboard, pts, a, b)
        ELSE Selected(segs, a, b)
  <2>1. segments' = p
    BY DEF p
  <2>2. CASE pts < a
    <3>1. ~(a <= pts)
      BY <1>2, <2>2
    <3> QED
      BY <1>2, <1>4, <2>1, <2>2, <3>1, Zenon
  <2>3. CASE a <= pts /\ pts <= b
    BY <1>2, <1>4, <2>1, <2>3, Zenon
  <2>4. CASE b < pts
    <3>1. ~(pts <= b)
      BY <1>2, <2>4
    <3> QED
      BY <1>2, <1>4, <2>1, <2>4, <3>1, Zenon
  <2>5. pts < a \/ (a <= pts /\ pts <= b) \/ b < pts
    BY <1>2
  <2> QED
    BY <2>2, <2>3, <2>4, <2>5, Zenon
<1> QED
  BY <1>3, <1>5, Zenon DEF SelectionMoved, SelectedWith

(* Behind a question about a paste the timeline is what it was, with the   *)
(* clipboard pasted: no handler runs until the question is answered.       *)
Begun ==
    question # None /\ question.kind = "paste" /\ ~question.lastFrame =>
        /\ question.before.segm \in Seq(Segment) /\ InTime(question.before.segm)
        /\ question.pts \in Nat /\ SegAt(question.before.segm, question.pts) # 0
        /\ segments = Pasted(question.before.segm, clipboard, question.pts)

(* ACT_Paste that asks nothing.                                            *)
LEMMA PasteMoves ==
    ASSUME Gapless, Session, Stays, Total(segments') <= MaxTotal, NoQuestion,
           NEW pts \in Positions, PasteAt(pts), ~AtLastFrame(pts)
    PROVE  SelectionMoved(Snapshot, pts)
<1> DEFINE n == Total(segments)
           g == Total(clipboard)
           growth == Total(segments') - Total(segments)
           old == Snapshot
<1>1. /\ question = None /\ segments' = Pasted(segments, clipboard, pts)
      /\ \/ Shifted(pts, growth)
         \/ question' = [kind |-> "paste", before |-> Snapshot,
                         pts |-> pts, lastFrame |-> AtLastFrame(pts)]
  BY DEF PasteAt, Handler, SetSegments, Asks
<1>2. Shifted(pts, growth)
  BY <1>1 DEF NoQuestion, None
<1>3. Loads /\ Markers
  BY DEF Session
<1>4. pts \in Nat /\ SegAt(segments, pts) # 0
  BY <1>3, PositionHeld
<1>5. segments \in Seq(Segment) /\ clipboard \in Seq(Segment) /\ InTime(segments)
  BY <1>3, LoadsParts DEF Loads
<1>6. n \in Nat /\ g \in Nat /\ markerA <= n /\ markerB <= n
  BY <1>1, <1>5, StaysParts, UntilParts
<1>7. Total(segments') = n + g
  BY <1>1, <1>4, <1>5, PastedTotal
<1>8. old.segm = segments /\ old.a = markerA /\ old.b = markerB
  BY DEF Snapshot
<1>9. PtsModulus \in Nat /\ MaxTotal \in Nat /\ MaxTotal < PtsModulus
  BY SessionAssumption, VideosAssumption
<1>10. n = Total(segments) /\ g = Total(clipboard)
  OBVIOUS
<1> HIDE DEF n, g, old
<1>11. growth = g /\ n + g < PtsModulus
  BY <1>6, <1>7, <1>9, <1>10
<1>12. Shifted(pts, g)
  BY <1>2, <1>11
<1>13. SelectionMoved(old, pts)
  BY <1>1, <1>3, <1>4, <1>5, <1>6, <1>8, <1>10, <1>11, <1>12, SelectionMoves
<1> QED
  BY <1>13 DEF old

(* "Yes" to the question about it.                                         *)
LEMMA ProceedMoves ==
    ASSUME Gapless, Session, Stays, Begun, Proceed, question.kind = "paste", ~question.lastFrame
    PROVE  SelectionMoved(question.before, question.pts)
<1> DEFINE old == question.before
           segs == question.before.segm
           pts == question.pts
           n == Total(segs)
           g == Total(clipboard)
           growth == Total(segments) - n
<1>1. question # None /\ segments' = segments /\ Shifted(pts, growth)
  BY DEF Proceed, segmentVars
<1>2. /\ segs \in Seq(Segment) /\ InTime(segs) /\ pts \in Nat /\ SegAt(segs, pts) # 0
      /\ segments = Pasted(segs, clipboard, pts)
  BY <1>1 DEF Begun
<1>3. markerA = old.a /\ markerB = old.b
  BY <1>1 DEF Stays
<1>4. Loads /\ Markers /\ Total(segments) <= MaxTotal /\ undoQueue \in Seq(Inside)
  BY DEF Session, Stays
<1>5. clipboard \in Seq(Segment)
  BY <1>4, LoadsParts
<1>6. old = undoQueue[Len(undoQueue)] /\ undoQueue # <<>>
  BY <1>1 DEF Session, Pending
<1>7. old \in Inside
  <2>1. Len(undoQueue) \in 1 .. Len(undoQueue)
    BY <1>4, <1>6, EmptySeq, LenProperties
  <2> QED
    BY <1>4, <1>6, <2>1, ElementOfSeq
<1>8. markerA <= n /\ markerB <= n
  BY <1>3, <1>7 DEF Inside
<1>9. n \in Nat /\ g \in Nat
  BY <1>2, <1>5, UntilParts
<1>10. n = Total(segs) /\ g = Total(clipboard) /\ old.segm = segs
  OBVIOUS
<1> HIDE DEF old, segs, pts
<1>11. Total(segments) = n + g
  BY <1>2, <1>5, PastedTotal
<1>12. PtsModulus \in Nat /\ MaxTotal \in Nat /\ MaxTotal < PtsModulus
  BY SessionAssumption, VideosAssumption
<1> HIDE DEF n, g
<1>13. growth = g /\ n + g < PtsModulus
  BY <1>4, <1>9, <1>11, <1>12
<1>14. Shifted(pts, g) /\ segments' = Pasted(segs, clipboard, pts)
  BY <1>1, <1>2, <1>13
<1>15. SelectionMoved(old, pts)
  BY <1>2, <1>3, <1>4, <1>5, <1>8, <1>10, <1>13, <1>14, SelectionMoves
<1> QED
  BY <1>15 DEF old, pts

LEMMA BegunBegins == SessionInit => Begun
BY DEF SessionInit, Begun

LEMMA BegunPaste == ASSUME Session, PasteClip PROVE Begun'
<1>1. PICK pts \in Positions : PasteAt(pts)
  BY DEF PasteClip
<1>2. /\ NoQuestion \/ question' = [kind |-> "paste", before |-> Snapshot,
                                    pts |-> pts, lastFrame |-> AtLastFrame(pts)]
      /\ ~AtLastFrame(pts) => segments' = Pasted(segments, clipboard, pts)
      /\ clipboard' = clipboard
  BY <1>1 DEF PasteAt, SetSegments, Asks
<1>3. Loads
  BY DEF Session
<1>4. pts \in Nat /\ SegAt(segments, pts) # 0 /\ segments \in Seq(Segment) /\ InTime(segments)
  BY <1>3, PositionHeld, LoadsParts DEF Loads
<1>5. CASE NoQuestion
  BY <1>5 DEF NoQuestion, Begun
<1>6. CASE question' = [kind |-> "paste", before |-> Snapshot, pts |-> pts, lastFrame |-> AtLastFrame(pts)]
  <2> DEFINE segs == question'.before.segm
  <2>1. segs = segments /\ question'.pts = pts /\ question'.lastFrame = AtLastFrame(pts)
    BY <1>6 DEF Snapshot
  <2>2. ~question'.lastFrame =>
          /\ segs \in Seq(Segment) /\ InTime(segs) /\ question'.pts \in Nat
          /\ SegAt(segs, question'.pts) # 0
          /\ segments' = Pasted(segs, clipboard', question'.pts)
    BY <1>2, <1>4, <2>1
  <2>3. /\ Seq(Segment)' = Seq(Segment)
        /\ InTime(question.before.segm)' = InTime(question'.before.segm)
        /\ SegAt(question.before.segm, question.pts)' = SegAt(question'.before.segm, question'.pts)
        /\ Pasted(question.before.segm, clipboard, question.pts)'
             = Pasted(question'.before.segm, clipboard', question'.pts)
    OBVIOUS
  <2> QED
    BY <2>2, <2>3 DEF Begun
<1> QED
  BY <1>2, <1>5, <1>6

LEMMA BegunStep ==
    ASSUME Session, Begun, [(UserAction /\ Fits') \/ Proceed]_sessionVars
    PROVE  Begun'
<1>1. CASE NoQuestion
  BY <1>1 DEF NoQuestion, Begun
<1>2. CASE PasteClip
  BY <1>2, BegunPaste
<1>3. CASE DeleteSelection
  <2>1. NoQuestion \/ question' = [kind |-> "delete", before |-> Snapshot]
    BY <1>3 DEF DeleteSelection, Asks
  <2> QED
    BY <1>1, <2>1 DEF Begun
<1>4. CASE UNCHANGED sessionVars
  <2>1. question' = question /\ segments' = segments /\ clipboard' = clipboard
    BY <1>4 DEF sessionVars, segmentVars
  <2> QED
    BY <2>1 DEF Begun
<1>5. ASSUME UserAction, ~PasteClip, ~DeleteSelection PROVE NoQuestion
  BY <1>5 DEF UserAction, Open, AppendVideo, Close, SetMarker, ResetSelection, CopySelection,
              Undo, Redo, ResetEdits
<1>6. Proceed => NoQuestion
  BY DEF Proceed
<1> QED
  BY <1>1, <1>2, <1>3, <1>4, <1>5, <1>6

(* Where every video shows its first picture at 0, and as long as the      *)
(* question whether to proceed is answered with "Yes", ACT_Paste leaves    *)
(* the selection on the pictures it was on, with those of the clipboard    *)
(* added where they were pasted inside of it.                              *)
THEOREM SelectionKept == Gapless => (ProceedSpec => PasteKeepsSelection)
<1> SUFFICES ASSUME Gapless PROVE ProceedSpec => PasteKeepsSelection
  OBVIOUS
<1>1. Session /\ [(UserAction /\ Fits') \/ Proceed]_sessionVars => Session'
  BY SessionStep DEF SessionNext
<1>2. ProceedSpec => []Session
  BY <1>1, SessionBegins, PTL DEF ProceedSpec
<1>3. Session => Snapshot \in Recordings
  BY SnapshotState DEF Session, Recordings
<1>4. Session /\ (Snapshot \in Recordings)' /\ Stays /\ [(UserAction /\ Fits') \/ Proceed]_sessionVars
        => Stays'
  BY StaysStep DEF Recordings
<1>5. Session /\ Begun /\ [(UserAction /\ Fits') \/ Proceed]_sessionVars => Begun'
  BY BegunStep
<1>6. Stays => Total(segments) <= MaxTotal
  BY DEF Stays
<1>7. ASSUME Session, Stays, Begun, (Total(segments) <= MaxTotal)'
      PROVE  question' = None
               => /\ \A pts \in Positions :
                        PasteAt(pts) /\ ~AtLastFrame(pts) => SelectionMoved(Snapshot, pts)
                  /\ Proceed /\ question.kind = "paste" /\ ~question.lastFrame
                        => SelectionMoved(question.before, question.pts)
  <2>1. Total(segments') <= MaxTotal
    BY <1>7 DEF Total, Until
  <2> QED
    BY <1>7, <2>1, PasteMoves, ProceedMoves DEF NoQuestion
<1> QED
  BY <1>2, <1>3, <1>4, <1>5, <1>6, <1>7, StaysBegins, BegunBegins, PTL DEF ProceedSpec, PasteKeepsSelection
=============================================================================
