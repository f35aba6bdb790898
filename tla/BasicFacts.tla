------------------------------ MODULE BasicFacts ------------------------------
(***************************************************************************)
(* Facts about numbers and sequences that the proofs about more than one   *)
(* module rest on.                                                         *)
(***************************************************************************)
EXTENDS Integers, Sequences, SequenceTheorems, WellFoundedInduction, TLAPS

(* A non-empty set of numbers has a smallest one.                          *)
LEMMA LessIsRelated == \A x, y \in Nat : y < x => <<y, x>> \in OpToRel(<, Nat)
BY Zenon DEF OpToRel

LEMMA Smallest ==
    ASSUME NEW S \in SUBSET Nat, S # {}
    PROVE  \E x \in S : \A y \in S : x <= y
<1> DEFINE R == OpToRel(<, Nat)
<1>1. IsWellFoundedOn(R, Nat)
  BY NatLessThanWellFounded
<1>2. \A x, y \in Nat : y < x => <<y, x>> \in R
  BY LessIsRelated
<1> HIDE DEF R
<1>3. PICK x \in S : \A y \in S : ~(<<y, x>> \in R)
  BY <1>1, WFMin
<1>4. \A y \in S : y \in Nat
  OBVIOUS
<1>5. \A y, z \in Nat : ~(y < z) => z <= y
  OBVIOUS
<1> QED BY <1>2, <1>3, <1>4, <1>5, Zenon

(* Induction up to a number, for what can be said as a set of numbers.     *)
LEMMA Induction ==
    ASSUME NEW n \in Nat, NEW P, 0 \in P, \A i \in 1 .. n : i - 1 \in P => i \in P
    PROVE  \A i \in 0 .. n : i \in P
<1> DEFINE bad == {i \in 0 .. n : i \notin P}
<1>1. SUFFICES ASSUME bad # {} PROVE FALSE
  OBVIOUS
<1>2. bad \in SUBSET Nat
  OBVIOUS
<1>3. PICK m \in bad : \A k \in bad : m <= k
  BY <1>1, <1>2, Smallest
<1>4. m \in 1 .. n
  BY <1>3
<1>5. m - 1 \in 0 .. n /\ ~(m <= m - 1)
  BY <1>4
<1>6. m - 1 \in P
  BY <1>3, <1>5
<1> QED
  BY <1>3, <1>4, <1>6

(* What is computed one element after the other exists.                    *)
Stepwise(n, S, b, h) == n \in Nat /\ b \in S /\ h \in [1 .. n -> [S -> S]]

LEMMA Recursion ==
    ASSUME NEW n, NEW S, NEW b, NEW h, Stepwise(n, S, b, h)
    PROVE  \E f \in [0 .. n -> S] : f[0] = b /\ \A i \in 1 .. n : f[i] = h[i][f[i - 1]]
<1> USE DEF Stepwise
<1> DEFINE Fits(f, m) == f[0] = b /\ \A i \in 1 .. m : f[i] = h[i][f[i - 1]]
           P == {m \in 0 .. n : \E f \in [0 .. m -> S] : Fits(f, m)}
<1>1. 0 \in P
  <2> DEFINE f == [i \in 0 .. 0 |-> b]
  <2>1. f \in [0 .. 0 -> S] /\ f[0] = b
    OBVIOUS
  <2>2. 1 .. 0 = {} /\ 0 \in 0 .. n
    OBVIOUS
  <2> HIDE DEF f
  <2>3. Fits(f, 0)
    BY <2>1, <2>2
  <2> HIDE DEF Fits
  <2> QED
    BY <2>1, <2>2, <2>3
<1>2. ASSUME NEW m \in 1 .. n, m - 1 \in P PROVE m \in P
  <2>1. PICK g \in [0 .. (m - 1) -> S] : Fits(g, m - 1)
    BY <1>2
  <2>2. m \in Nat /\ m - 1 \in 0 .. (m - 1) /\ m \in 0 .. n /\ m \notin 0 .. (m - 1)
    OBVIOUS
  <2>3. \A i \in 1 .. m : i = m \/ (i \in 1 .. (m - 1) /\ i \in 0 .. (m - 1))
    BY <2>2
  <2>4. \A i \in 1 .. m : i - 1 \in 0 .. (m - 1) /\ i - 1 # m /\ i - 1 \in 0 .. m /\ i \in 0 .. m
    BY <2>2
  <2> DEFINE f == [i \in 0 .. m |-> IF i = m THEN h[m][g[m - 1]] ELSE g[i]]
  <2>5. f \in [0 .. m -> S]
    BY <2>1, <2>2
  <2>6. /\ \A i \in 0 .. (m - 1) : f[i] = g[i]
        /\ f[m] = h[m][g[m - 1]]
    BY <2>2
  <2>7. 0 \in 0 .. (m - 1)
    BY <2>2
  <2> HIDE DEF f
  <2>8. f[0] = b
    BY <2>1, <2>6, <2>7
  <2>9. \A i \in 1 .. m : f[i] = h[i][f[i - 1]]
    <3> SUFFICES ASSUME NEW i \in 1 .. m PROVE f[i] = h[i][f[i - 1]]
      OBVIOUS
    <3>1. f[i - 1] = g[i - 1]
      BY <2>4, <2>6
    <3>2. CASE i = m
      BY <2>6, <3>1, <3>2
    <3>3. CASE i \in 1 .. (m - 1) /\ i \in 0 .. (m - 1)
      BY <2>1, <2>6, <3>1, <3>3
    <3> QED
      BY <2>3, <3>2, <3>3
  <2>10. Fits(f, m)
    BY <2>8, <2>9
  <2> HIDE DEF Fits
  <2> QED
    BY <2>2, <2>5, <2>10
<1>3. n \in P
  <2> HIDE DEF P
  <2>1. \A i \in 0 .. n : i \in P
    BY <1>1, <1>2, Induction
  <2> QED
    BY <2>1
<1> QED
  BY <1>3

(* The list without its first element: the others move one place down.     *)
LEMMA Popped ==
    ASSUME NEW S, NEW s \in Seq(S), s # <<>>
    PROVE  /\ Head(s) \in S /\ Head(s) = s[1]
           /\ Tail(s) \in Seq(S)
           /\ Len(s) \in Nat /\ Len(s) > 0 /\ Len(Tail(s)) = Len(s) - 1
           /\ DOMAIN s = 1 .. Len(s) /\ DOMAIN Tail(s) = 1 .. (Len(s) - 1)
           /\ \A i \in 1 .. (Len(s) - 1) : Tail(s)[i] = s[i + 1]
BY HeadTailProperties, LenProperties, ElementOfSeq, EmptySeq

(* The list with one more element: the others stay in their places.        *)
LEMMA OneAppended ==
    ASSUME NEW S, NEW s \in Seq(S), NEW e \in S
    PROVE  /\ Append(s, e) \in Seq(S)
           /\ Len(s) \in Nat /\ Len(Append(s, e)) = Len(s) + 1
           /\ DOMAIN s = 1 .. Len(s) /\ DOMAIN Append(s, e) = 1 .. (Len(s) + 1)
           /\ \A i \in 1 .. Len(s) : Append(s, e)[i] = s[i]
           /\ Append(s, e)[Len(s) + 1] = e
BY AppendProperties, LenProperties

(* The list with another element in one place.                             *)
LEMMA Replaced ==
    ASSUME NEW S, NEW s \in Seq(S), NEW i \in DOMAIN s, NEW e \in S
    PROVE  /\ [s EXCEPT ![i] = e] \in Seq(S)
           /\ Len([s EXCEPT ![i] = e]) = Len(s)
           /\ DOMAIN [s EXCEPT ![i] = e] = DOMAIN s
           /\ [s EXCEPT ![i] = e][i] = e
           /\ \A k \in DOMAIN s : k # i => [s EXCEPT ![i] = e][k] = s[k]
BY ExceptSeq, LenProperties

(* A slice of a sequence, which may be empty.                              *)
LEMMA Slice ==
    ASSUME NEW S, NEW s \in Seq(S), NEW m \in 1 .. Len(s) + 1, NEW n \in (m - 1) .. Len(s)
    PROVE  /\ SubSeq(s, m, n) \in Seq(S)
           /\ Len(SubSeq(s, m, n)) = n - m + 1
           /\ \A i \in 1 .. (n - m + 1) : SubSeq(s, m, n)[i] = s[m + i - 1]
<1>1. Len(s) \in Nat
  BY LenProperties
<1>2. m \in Int /\ n \in Int /\ m >= 1 /\ n <= Len(s)
  BY <1>1
<1>3. \A i \in m .. n : s[i] \in S
  BY <1>1, <1>2, ElementOfSeq
<1>4. (IF m <= n THEN n - m + 1 ELSE 0) = n - m + 1
  BY <1>1, <1>2
<1> QED
  BY <1>2, <1>3, <1>4, SubSeqProperties

LEMMA Suffix ==
    ASSUME NEW S, NEW s \in Seq(S), NEW k \in 0 .. Len(s)
    PROVE  /\ SubSeq(s, k + 1, Len(s)) \in Seq(S)
           /\ Len(SubSeq(s, k + 1, Len(s))) = Len(s) - k
           /\ \A i \in 1 .. (Len(s) - k) : SubSeq(s, k + 1, Len(s))[i] = s[k + i]
<1>1. Len(s) \in Nat /\ k \in Nat /\ k <= Len(s)
  BY LenProperties
<1>2. k + 1 \in 1 .. Len(s) + 1 /\ Len(s) \in (k + 1 - 1) .. Len(s)
  BY <1>1
<1>3. Len(s) - (k + 1) + 1 = Len(s) - k
  BY <1>1
<1>4. /\ SubSeq(s, k + 1, Len(s)) \in Seq(S)
      /\ Len(SubSeq(s, k + 1, Len(s))) = Len(s) - (k + 1) + 1
      /\ \A i \in 1 .. (Len(s) - (k + 1) + 1) :
            SubSeq(s, k + 1, Len(s))[i] = s[k + 1 + i - 1]
  BY <1>2, Slice
<1>5. \A i \in 1 .. (Len(s) - k) : k + 1 + i - 1 = k + i
  BY <1>1
<1> QED
  BY <1>3, <1>4, <1>5

(* Induction over a sequence that grows at its end, for what can be said   *)
(* as a set of sequences.                                                  *)
LEMMA Growing ==
    ASSUME NEW T, NEW P, <<>> \in P, \A q \in Seq(T), e \in T : q \in P => q \o <<e>> \in P
    PROVE  \A q \in Seq(T) : q \in P
<1> SUFFICES ASSUME NEW s \in Seq(T) PROVE s \in P
  OBVIOUS
<1> DEFINE n == Len(s)
           Q == {i \in 0 .. n : SubSeq(s, 1, i) \in P}
<1>1. n \in Nat /\ 0 \in 0 .. n /\ n \in 0 .. n
  BY LenProperties
<1>2. SubSeq(s, 1, 0) = <<>> /\ SubSeq(s, 1, n) = s
  BY SubSeqEmpty, SubSeqFull
<1>3. ASSUME NEW i \in 1 .. n, i - 1 \in Q PROVE i \in Q
  <2>1. /\ 1 \in 1 .. Len(s) + 1 /\ 1 \in 1 .. Len(s) /\ i \in 1 .. Len(s)
        /\ i - 1 \in (1 - 1) .. Len(s) /\ i \in 0 .. n
    BY <1>1
  <2>2. SubSeq(s, 1, i - 1) \in Seq(T) /\ s[i] \in T
    BY <2>1, Slice, ElementOfSeq
  <2>3. SubSeq(s, 1, i) = SubSeq(s, 1, i - 1) \o <<s[i]>>
    BY <2>1, SubSeqRecursiveSecond
  <2>4. SubSeq(s, 1, i - 1) \in P
    BY <1>3
  <2> QED
    BY <2>1, <2>2, <2>3, <2>4
<1>4. 0 \in Q
  BY <1>1, <1>2
<1> HIDE DEF Q
<1>5. \A i \in 0 .. n : i \in Q
  BY <1>1, <1>3, <1>4, Induction
<1>6. n \in Q
  BY <1>1, <1>5
<1> QED
  BY <1>2, <1>6 DEF Q

(* Sequences are joined in any order of the joins.                         *)
LEMMA JoinedAssociative == \A T : \A x, y, z \in Seq(T) :
    (x \o y) \o z = x \o (y \o z) /\ x \o y \in Seq(T)
<1>1. \A T : \A x, y, z \in Seq(T) : (x \o y) \o z = x \o (y \o z)
  BY ConcatAssociative, Zenon
<1>2. \A T : \A x, y \in Seq(T) : x \o y \in Seq(T)
  BY ConcatProperties
<1> QED
  BY <1>1, <1>2, SMTT(20)

(* A sequence is joined to one that grows.                                 *)
LEMMA JoinedThen ==
    ASSUME NEW T, NEW a \in Seq(T), NEW b \in Seq(T), NEW e \in T
    PROVE  /\ a \o (b \o <<e>>) = (a \o b) \o <<e>>
           /\ a \o Append(b, e) = Append(a \o b, e)
<1> DEFINE o == <<e>>
<1>0. o \in Seq(T)
  OBVIOUS
<1>1. a \o b \in Seq(T)
  OBVIOUS
<1>2. Append(b, e) = b \o o
  BY AppendIsConcat
<1>3. Append(a \o b, e) = (a \o b) \o o
  BY <1>1, AppendIsConcat
<1> HIDE DEF o
<1>4. a \o (b \o o) = (a \o b) \o o
  <2> DEFINE J(x, y) == x \o y
             W == Seq(T)
  <2>1. \A x, y, z \in W : J(J(x, y), z) = J(x, J(y, z)) /\ J(x, y) \in W
    BY JoinedAssociative, Zenon
  <2>2. a \in W /\ b \in W /\ o \in W
    BY <1>0
  <2> HIDE DEF J, W
  <2>3. J(J(a, b), o) = J(a, J(b, o))
    BY <2>1, <2>2
  <2> QED
    BY <2>3, Zenon DEF J
<1> QED
  BY <1>2, <1>3, <1>4 DEF o

(* A function of every element.                                            *)
Mapped(q, F) == [i \in DOMAIN q |-> F[q[i]]]

LEMMA MappedParts ==
    ASSUME NEW T, NEW F, NEW q \in Seq(T)
    PROVE  /\ Len(Mapped(q, F)) = Len(q)
           /\ \A i \in 1 .. Len(q) : Mapped(q, F)[i] = F[q[i]]
<1> DEFINE m == Mapped(q, F)
           n == Len(q)
           R == {F[x] : x \in T}
<1>1. n \in Nat /\ DOMAIN q = 1 .. n /\ \A i \in 1 .. n : q[i] \in T
  BY LenProperties, ElementOfSeq
<1>2. m = [i \in 1 .. n |-> F[q[i]]]
  BY <1>1 DEF Mapped
<1> HIDE DEF m, n
<1>3. \A i \in 1 .. n : m[i] = F[q[i]] /\ m[i] \in R
  BY <1>1, <1>2
<1>4. m = [i \in 1 .. n |-> m[i]]
  BY <1>2
<1> HIDE DEF R
<1>5. m \in Seq(R)
  BY <1>1, <1>3, <1>4, IsASeq
<1>6. Len(m) = n
  <2>1. DOMAIN m = 1 .. n
    BY <1>4
  <2>2. DOMAIN m = 1 .. Len(m) /\ Len(m) \in Nat
    BY <1>5, LenProperties
  <2> QED
    BY <1>1, <2>1, <2>2
<1> QED
  BY <1>3, <1>6 DEF m, n

LEMMA MappedType ==
    ASSUME NEW T, NEW R, NEW F, \A x \in T : F[x] \in R, NEW q \in Seq(T)
    PROVE  Mapped(q, F) \in Seq(R)
<1> DEFINE m == Mapped(q, F)
           n == Len(q)
<1>1. n \in Nat /\ DOMAIN q = 1 .. n /\ \A i \in 1 .. n : q[i] \in T
  BY LenProperties, ElementOfSeq
<1>2. m = [i \in 1 .. n |-> F[q[i]]]
  BY <1>1 DEF Mapped
<1> HIDE DEF m, n
<1>3. \A i \in 1 .. n : m[i] = F[q[i]] /\ m[i] \in R
  BY <1>1, <1>2
<1>4. m = [i \in 1 .. n |-> m[i]]
  BY <1>2
<1>5. m \in Seq(R)
  BY <1>1, <1>3, <1>4, IsASeq
<1> QED
  BY <1>5 DEF m

LEMMA MappedNone == \A F : Mapped(<<>>, F) = <<>>
BY DEF Mapped

LEMMA MappedJoined ==
    ASSUME NEW T, NEW F, NEW a \in Seq(T), NEW b \in Seq(T)
    PROVE  Mapped(a \o b, F) = Mapped(a, F) \o Mapped(b, F)
<1> DEFINE c == a \o b
           A == Mapped(a, F)
           B == Mapped(b, F)
           C == Mapped(c, F)
           D == A \o B
           m == Len(a)
           n == Len(b)
           R == {F[x] : x \in T}
<1>1. /\ c \in Seq(T) /\ Len(c) = m + n
      /\ \A i \in 1 .. m + n : c[i] = IF i <= m THEN a[i] ELSE b[i - m]
  BY ConcatProperties
<1>2. m \in Nat /\ n \in Nat
  BY LenProperties
<1>3. Len(A) = m /\ \A i \in 1 .. m : A[i] = F[a[i]]
  BY MappedParts
<1>4. Len(B) = n /\ \A i \in 1 .. n : B[i] = F[b[i]]
  BY MappedParts
<1>5. \A x \in T : F[x] \in R
  OBVIOUS
<1> HIDE DEF R
<1>6. A \in Seq(R) /\ B \in Seq(R)
  BY <1>5, MappedType
<1> HIDE DEF c, A, B
<1>7. Len(C) = m + n /\ \A i \in 1 .. m + n : C[i] = F[c[i]]
  BY <1>1, MappedParts
<1>8. C \in Seq(R)
  BY <1>1, <1>5, MappedType
<1> HIDE DEF C, m, n
<1>9. /\ D \in Seq(R) /\ Len(D) = m + n
      /\ \A i \in 1 .. m + n : D[i] = IF i <= m THEN A[i] ELSE B[i - m]
  <2>1. /\ A \o B \in Seq(R) /\ Len(A \o B) = Len(A) + Len(B)
        /\ \A i \in 1 .. Len(A) + Len(B) :
              (A \o B)[i] = IF i <= Len(A) THEN A[i] ELSE B[i - Len(A)]
    BY <1>6, ConcatProperties, Zenon
  <2>2. D = A \o B
    OBVIOUS
  <2>3. Len(A) = m /\ Len(B) = n
    BY <1>3, <1>4
  <2> HIDE DEF D
  <2> QED
    BY <2>1, <2>2, <2>3, Zenon
<1> HIDE DEF D
<1>10. ASSUME NEW i \in 1 .. m + n PROVE C[i] = D[i]
  <2>1. C[i] = F[c[i]] /\ c[i] = IF i <= m THEN a[i] ELSE b[i - m]
    BY <1>1, <1>7
  <2>2. D[i] = IF i <= m THEN A[i] ELSE B[i - m]
    BY <1>9
  <2>3. CASE i <= m
    <3>1. i \in 1 .. m
      BY <1>2, <2>3
    <3> QED
      BY <1>3, <2>1, <2>2, <2>3, <3>1
  <2>4. CASE ~(i <= m)
    <3>1. i - m \in 1 .. n
      BY <1>2, <2>4
    <3> QED
      BY <1>4, <2>1, <2>2, <2>4, <3>1
  <2> QED
    BY <2>3, <2>4
<1>11. C = D
  BY <1>7, <1>9, <1>10, <1>8, SeqEqual
<1> QED
  BY <1>11 DEF A, B, C, D, c

LEMMA MappedOne ==
    ASSUME NEW F, NEW e
    PROVE  Mapped(<<e>>, F) = <<F[e]>>
BY DEF Mapped
=============================================================================
