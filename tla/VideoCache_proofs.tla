--------------------------- MODULE VideoCache_proofs ---------------------------
(***************************************************************************)
(* Proofs about VideoCache, for every set of filters that fits the cache,  *)
(* every timeline and every selection.                                     *)
(*                                                                         *)
(* Sound is the inductive invariant: as long as the editor has not failed  *)
(* before the end, the numbers of the bridge tell the pictures apart, the  *)
(* cache holds everything from the first frame the filter can still ask    *)
(* for to the last one fetched, and what was not asked for in this call or *)
(* the one before has been used less recently than what was.  So the entry *)
(* that makes room is one nobody asks for again.                           *)
(***************************************************************************)
EXTENDS VideoCache, BasicFacts, FiniteSetTheorems

Back  == call.of.back
Ahead == call.of.ahead

(* How far the pictures have been fetched since the seek; -1: not yet.     *)
LastFetched == IF bridge.first THEN -1 ELSE bridge.next - bridge.fails

(* Where the bridge is: a fetch that has failed was at the end.            *)
Position ==
    /\ bridge.first => bridge.fails = 0 /\ bridge.pos = origin
    /\ ~bridge.first /\ bridge.fails = 0 => bridge.pos = origin + bridge.next
    /\ -1 <= LastFetched
    /\ origin + LastFetched <= bridge.pos
    /\ bridge.fails > 0 => \A k \in Pictures : k > origin + LastFetched => Late(k)

(* What the filter has asked for has been fetched.                         *)
Progress ==
    bridge.fails = 0 =>
        /\ \A m \in 1 .. (call.at - 1) : call.n + Window[m] <= LastFetched
        /\ call.n > 0 => call.n - 1 + Ahead <= LastFetched

Contents ==
    /\ \A i \in Taken(cache) :
          /\ cache[i].frame <= LastFetched
          /\ cache[i].frame <= call.n + Ahead
          /\ cache[i].lastUse < counter
          /\ cache[i].frame >= call.n - Back => cache[i].img = origin + cache[i].frame
    /\ \A i, j \in Taken(cache) : cache[i].frame = cache[j].frame => i = j
    /\ \A i \in Entries : cache[i].lock > 0 => ~cache[i].free /\ cache[i].frame >= call.n - Back
    /\ \A f \in 0 .. LastFetched :
          f >= call.n - Back => \E i \in Taken(cache) : cache[i].frame = f

Asked(i) == \E m \in 1 .. (call.at - 1) : cache[i].frame = call.n + Window[m]

Recency ==
    \A i, j \in Taken(cache) :
        /\ cache[i].frame < call.n - Back - 1 /\ cache[j].frame >= call.n - Back - 1
              => cache[i].lastUse < cache[j].lastUse
        /\ ~Asked(i) /\ Asked(j) => cache[i].lastUse < cache[j].lastUse

Sound == ~stumbled => ~aborted /\ Position /\ Progress /\ Contents /\ Recency

-----------------------------------------------------------------------------
(* The frames that come before one that is asked for next.                 *)
LEMMA OneMore == \A l \in Nat : \A m : \A n \in 1 .. l : m = n + 1 =>
    /\ n \in 1 .. (m - 1)
    /\ \A j \in 1 .. (m - 1) : j \in 1 .. (n - 1) \/ j = n
    /\ \A j \in 1 .. (n - 1) : j \in 1 .. (m - 1)
OBVIOUS

(* The frames within reach of a call, and those of the call after it.      *)
LEMMA WithinReach ==
    ASSUME NEW n \in Nat, NEW b \in Nat, NEW a \in Nat
    PROVE  /\ \A f \in Nat : f >= n - b /\ f <= n + a => f - n \in -b .. a
           /\ \A f \in Nat : n + (f - n) = f
           /\ \A o \in -b .. a : n + o >= n - b
OBVIOUS

LEMMA ReachSlides ==
    ASSUME NEW n \in Nat, NEW b \in Nat
    PROVE  n + 1 - b - 1 = n - b
OBVIOUS

-----------------------------------------------------------------------------
(* The filter that runs fits the cache.                                    *)
LEMMA SequenceFits ==
    ASSUME NEW S, NEW s \in Seq(S)
    PROVE  /\ Len(s) \in Nat /\ DOMAIN s = 1 .. Len(s)
           /\ \A m \in 1 .. Len(s) : s[m] \in S
OBVIOUS

LEMMA FilterFits ==
    ASSUME TypeOK
    PROVE  /\ Back \in Nat /\ Ahead \in Nat /\ CacheSize \in Nat
           /\ CacheSize >= Back + Ahead + 2
           /\ Len(Window) \in Nat /\ DOMAIN Window = 1 .. Len(Window)
           /\ \A m \in 1 .. Len(Window) : Window[m] \in -Back .. Ahead
           /\ \A o \in -Back .. Ahead : \E m \in 1 .. Len(Window) : Window[m] = o
           /\ \A l, m \in 1 .. Len(Window) :
                 l < m => Window[l] # Window[m] /\ ~(0 <= Window[m] /\ Window[m] < Window[l])
           /\ call.of.bob \in BOOLEAN
<1>1. call.of \in Filters
  BY DEF TypeOK
<1>2. /\ Back \in Nat /\ Ahead \in Nat /\ CacheSize \in Nat /\ CacheSize >= Back + Ahead + 2
      /\ call.of.bob \in BOOLEAN
  BY <1>1, CacheAssumption DEF Back, Ahead
<1>3. Window \in Seq(-Back .. Ahead)
  BY <1>1, CacheAssumption DEF Window, Back, Ahead
<1>4. Len(Window) \in Nat /\ DOMAIN Window = 1 .. Len(Window)
      /\ \A m \in 1 .. Len(Window) : Window[m] \in -Back .. Ahead
  BY <1>3, SequenceFits
<1>5. \A o \in -Back .. Ahead : \E m \in DOMAIN Window : Window[m] = o
  BY <1>1, CacheAssumption DEF Window, Back, Ahead
<1>6. \A l, m \in DOMAIN Window :
         l < m => Window[l] # Window[m] /\ ~(0 <= Window[m] /\ Window[m] < Window[l])
  BY <1>1, CacheAssumption DEF Window
<1> HIDE DEF Back, Ahead, Window
<1> QED
  BY <1>2, <1>4, <1>5, <1>6

(* The parts of the state.                                                 *)
Bridges == [start : Nat, end : Nat, pos : Pictures, held : BOOLEAN,
            first : BOOLEAN, next : Nat, fails : Nat]
Kept    == [frame : Nat, lock : 0 .. 255, lastUse : Nat, free : BOOLEAN, img : Nat]
Calls   == [of : Filters, n : Nat, half : BOOLEAN, at : 1 .. Len(Window) + 1]

LEMMA Types ==
    ASSUME TypeOK
    PROVE  /\ bridge \in Bridges /\ cache \in [Entries -> Kept] /\ call \in Calls
           /\ counter \in Nat /\ origin \in Pictures
           /\ stumbled \in BOOLEAN /\ aborted \in BOOLEAN
BY DEF TypeOK, Bridges, Kept, Calls

LEMMA BridgeParts ==
    ASSUME TypeOK
    PROVE  /\ bridge.start \in Nat /\ bridge.end \in Nat /\ bridge.pos \in Pictures
           /\ bridge.held \in BOOLEAN /\ bridge.first \in BOOLEAN
           /\ bridge.next \in Nat /\ bridge.fails \in Nat
BY Types DEF Bridges

LEMMA CallParts ==
    ASSUME TypeOK
    PROVE  /\ call.of \in Filters /\ call.n \in Nat /\ call.half \in BOOLEAN
           /\ call.at \in 1 .. Len(Window) + 1
BY Types DEF Calls

LEMMA EntryParts ==
    ASSUME TypeOK, NEW i \in Entries
    PROVE  /\ cache[i] \in Kept
           /\ cache[i].frame \in Nat /\ cache[i].lock \in Nat
           /\ cache[i].lastUse \in Nat /\ cache[i].free \in BOOLEAN
           /\ cache[i].img \in Nat
<1>1. cache[i] \in Kept
  BY Types
<1> QED BY <1>1 DEF Kept

(* What the steps make of them.                                            *)
LEMMA BridgeMoves ==
    ASSUME NEW b \in Bridges, NEW k \in Pictures, NEW nb \in Nat, NEW m \in Nat,
           NEW f \in BOOLEAN, NEW h \in BOOLEAN
    PROVE  /\ [b EXCEPT !.first = f, !.pos = k, !.next = nb, !.fails = m, !.held = h] \in Bridges
           /\ [b EXCEPT !.first = f, !.pos = k, !.held = h, !.fails = m] \in Bridges
BY DEF Bridges

LEMMA EntryUsed ==
    ASSUME NEW e \in Kept, NEW u \in Nat, NEW l \in 0 .. 255
    PROVE  [e EXCEPT !.lock = l, !.lastUse = u] \in Kept
BY DEF Kept

LEMMA EntryFilled ==
    ASSUME NEW e \in Kept, NEW f \in Nat, NEW k \in Nat
    PROVE  [e EXCEPT !.frame = f, !.free = FALSE, !.img = k] \in Kept
BY DEF Kept

LEMMA EntryWritten ==
    ASSUME NEW e \in Kept, NEW k \in Nat
    PROVE  [e EXCEPT !.img = k] \in Kept
BY DEF Kept

LEMMA EntryUnlocked ==
    ASSUME NEW e \in Kept
    PROVE  [e EXCEPT !.lock = 0] \in Kept
BY DEF Kept

LEMMA CacheChanges ==
    ASSUME NEW c \in [Entries -> Kept], NEW i \in Entries, NEW e \in Kept
    PROVE  [c EXCEPT ![i] = e] \in [Entries -> Kept]
OBVIOUS

LEMMA CallGoesOn ==
    ASSUME NEW c \in Calls, NEW a \in 1 .. Len(Window) + 1
    PROVE  [c EXCEPT !.at = a] \in Calls /\ [c EXCEPT !.at = a].of = c.of
BY DEF Calls

LEMMA CallAnew ==
    ASSUME NEW c \in Calls, NEW f \in Nat, NEW h \in BOOLEAN, 1 \in 1 .. Len(Window) + 1
    PROVE  /\ [c EXCEPT !.n = f, !.half = h, !.at = 1] \in Calls
           /\ [c EXCEPT !.n = f, !.half = h, !.at = 1].of = c.of
BY DEF Calls

-----------------------------------------------------------------------------
(* The entry that makes room for a frame that is missing.                  *)
LEMMA RoomIsMade ==
    ASSUME TypeOK, Contents, Recency, Missing
    PROVE  /\ FreeEntry # {}
           /\ \A i \in FreeEntry : i \in Entries
                  /\ (cache[i].free \/ cache[i].frame < call.n - Back - 1)
           /\ Frame \in Nat /\ Frame >= call.n - Back /\ Frame <= call.n + Ahead
           /\ LastFetched < Frame
<1>0. /\ Back \in Nat /\ Ahead \in Nat /\ CacheSize \in Nat /\ call.n \in Nat
      /\ CacheSize >= Back + Ahead + 2
  BY FilterFits, CallParts
<1>1. Frame \in Nat /\ Frame >= call.n - Back /\ Frame <= call.n + Ahead
  <2>1. call.at \in 1 .. Len(Window) /\ Frame >= 0
    BY FilterFits DEF Missing, Asking
  <2>2. Window[call.at] \in -Back .. Ahead
    BY <2>1, FilterFits
  <2> QED BY <1>0, <2>1, <2>2 DEF Frame
<1>2. LastFetched \in Int
  BY BridgeParts DEF LastFetched
<1>3. LastFetched < Frame
  <2> SUFFICES ASSUME Frame <= LastFetched PROVE FALSE
    BY <1>1, <1>2
  <2>1. Frame \in 0 .. LastFetched
    BY <1>1, <1>2
  <2>2. PICK i \in Taken(cache) : cache[i].frame = Frame
    BY <1>1, <2>1 DEF Contents
  <2> QED BY <2>2 DEF Missing, Holding
<1> DEFINE Low == call.n - Back - 1
           High == call.n + Ahead - 1
           Open == {i \in Entries : cache[i].lock = 0 /\ cache[i].lastUse # counter}
<1>4. Low \in Int /\ High \in Int
  BY <1>0
<1>5. \A i \in Entries : cache[i].frame \in Nat /\ cache[i].lastUse \in Nat /\ cache[i].lock \in Nat
  BY EntryParts
<1>6. \A i \in Taken(cache) :
         i \in Entries /\ cache[i].frame <= LastFetched /\ cache[i].lastUse < counter
  BY DEF Contents, Taken
<1>7. counter \in Nat
  BY Types
<1>8. \A u \in Taken(cache) : cache[u].frame < Low => u \in Open
  <2> SUFFICES ASSUME NEW u \in Taken(cache), cache[u].frame < Low PROVE u \in Open
    OBVIOUS
  <2>1. ~(cache[u].frame >= call.n - Back)
    BY <1>0, <1>5, <1>6
  <2>2. ~(cache[u].lock > 0)
    BY <1>6, <2>1 DEF Contents
  <2>3. cache[u].lock = 0
    BY <2>2, <1>5, <1>6
  <2> QED BY <1>5, <1>6, <1>7, <2>3
<1>9. ASSUME Entries \ Taken(cache) = {}
      PROVE  \E u \in Open : cache[u].frame < Low
  <2> SUFFICES ASSUME \A u \in Entries : ~(cache[u].frame < Low) PROVE FALSE
    BY <1>8, <1>9
  <2> DEFINE T == Low .. High
             F == [i \in Entries |-> cache[i].frame]
  <2>1. \A i \in Entries : cache[i].frame \in T
    <3> SUFFICES ASSUME NEW i \in Entries PROVE cache[i].frame \in T
      OBVIOUS
    <3>1. cache[i].frame <= LastFetched /\ cache[i].frame \in Nat
      BY <1>5, <1>6, <1>9
    <3>2. cache[i].frame <= High
      BY <3>1, <1>0, <1>1, <1>2, <1>3
    <3>3. ~(cache[i].frame < Low)
      OBVIOUS
    <3> HIDE DEF Low, High
    <3> QED BY <3>1, <3>2, <3>3, <1>4
  <2>2. IsFiniteSet(Entries) /\ Cardinality(Entries) = CacheSize
    <3>1. 1 \in Int /\ CacheSize \in Int /\ ~(1 > CacheSize) /\ CacheSize - 1 + 1 = CacheSize
      BY <1>0
    <3> QED BY <3>1, FS_Interval DEF Entries
  <2>3. IsFiniteSet(T) /\ Cardinality(T) = Back + Ahead + 1
    <3>1. ~(Low > High) /\ High - Low + 1 = Back + Ahead + 1
      BY <1>0
    <3> HIDE DEF Low, High
    <3> QED BY <3>1, <1>4, FS_Interval
  <2>4. F \in [Entries -> T]
    BY <2>1
  <2>5. Cardinality(T) < Cardinality(Entries)
    BY <1>0, <2>2, <2>3
  <2> HIDE DEF T, F
  <2>6. \E x, y \in Entries : x # y /\ F[x] = F[y]
    BY <2>2, <2>3, <2>4, <2>5, FS_PigeonHole
  <2>7. PICK x, y \in Entries : x # y /\ F[x] = F[y]
    BY <2>6
  <2>8. x \in Taken(cache) /\ y \in Taken(cache) /\ cache[x].frame = cache[y].frame
    BY <2>7, <1>9 DEF F
  <2> QED BY <2>7, <2>8 DEF Contents
<1>10. CASE Entries \ Taken(cache) # {}
  <2> DEFINE G == Entries \ Taken(cache)
  <2>1. G \in SUBSET Nat /\ G # {}
    BY <1>10 DEF Entries
  <2>2. PICK x \in G : \A y \in G : x <= y
    BY <2>1, Smallest
  <2>3. FreeEntry = {i \in G : \A j \in G : i <= j}
    BY <1>10 DEF FreeEntry
  <2>4. \A i \in G : i \in Entries /\ cache[i].free
    BY DEF Taken
  <2> HIDE DEF G
  <2>5. FreeEntry # {}
    BY <2>2, <2>3
  <2>6. \A i \in FreeEntry : i \in Entries /\ cache[i].free
    BY <2>3, <2>4
  <2> QED BY <1>1, <1>3, <2>5, <2>6
<1>11. CASE Entries \ Taken(cache) = {}
  <2> DEFINE U == {cache[i].lastUse : i \in Open}
  <2>1. PICK u \in Open : cache[u].frame < Low
    BY <1>9, <1>11
  <2>2. U \in SUBSET Nat /\ U # {}
    BY <2>1, <1>5
  <2>3. PICK x \in U : \A y \in U : x <= y
    BY <2>2, Smallest
  <2>4. FreeEntry = {i \in Open : \A j \in Open : cache[i].lastUse <= cache[j].lastUse}
    BY <1>11 DEF FreeEntry
  <2>5. FreeEntry # {}
    <3>1. PICK i \in Open : x = cache[i].lastUse
      BY <2>3
    <3> QED BY <2>3, <2>4, <3>1
  <2>6. ASSUME NEW i \in FreeEntry PROVE i \in Entries /\ cache[i].frame < Low
    <3>1. i \in Taken(cache) /\ u \in Taken(cache) /\ i \in Open /\ i \in Entries
      BY <1>11, <2>4, <2>6
    <3>2. cache[i].lastUse <= cache[u].lastUse
      BY <2>4, <2>6
    <3>3. ~(cache[u].lastUse < cache[i].lastUse)
      BY <3>1, <3>2, <1>5, <1>6
    <3>4. cache[i].frame \in Nat
      BY <3>1, <1>5
    <3>5. ~(cache[i].frame >= call.n - Back - 1)
      BY <2>1, <3>1, <3>3 DEF Recency
    <3> QED BY <3>1, <3>4, <3>5, <1>4
  <2> QED BY <1>1, <1>3, <2>5, <2>6
<1> QED BY <1>10, <1>11

-----------------------------------------------------------------------------
(* TypeOK, for the filter and the bridge that run.                         *)
LEMMA TypeStep == TypeOK /\ [Next]_vars => TypeOK'
<1> SUFFICES ASSUME TypeOK, [Next]_vars PROVE TypeOK'
  OBVIOUS
<1>0. /\ bridge \in Bridges /\ cache \in [Entries -> Kept] /\ call \in Calls
      /\ counter \in Nat /\ counter + 1 \in Nat /\ origin \in Pictures
      /\ stumbled \in BOOLEAN /\ aborted \in BOOLEAN
  BY Types
<1>1. /\ bridge' \in Bridges /\ cache' \in [Entries -> Kept]
      /\ call' \in Calls /\ call'.of = call.of
      /\ counter' \in Nat /\ origin' \in Pictures
      /\ stumbled' \in BOOLEAN /\ aborted' \in BOOLEAN
      => TypeOK'
  BY DEF TypeOK, Bridges, Kept, Calls, Window
<1>2. /\ Len(Window) \in Nat /\ 1 \in 1 .. Len(Window) + 1
      /\ \A m \in 1 .. Len(Window) : Window[m] \in Int
  <2>1. Back \in Nat /\ Ahead \in Nat /\ Len(Window) \in Nat
    BY FilterFits
  <2>2. \A m \in 1 .. Len(Window) : Window[m] \in -Back .. Ahead
    BY FilterFits
  <2> QED BY <2>1, <2>2
<1>3. Asking => call.at + 1 \in 1 .. Len(Window) + 1 /\ Frame \in Int
  <2> SUFFICES ASSUME Asking PROVE call.at + 1 \in 1 .. Len(Window) + 1 /\ Frame \in Int
    OBVIOUS
  <2>1. call.at \in 1 .. Len(Window)
    BY FilterFits DEF Asking
  <2>2. call.n \in Nat
    BY CallParts
  <2>3. Len(Window) \in Nat
    BY <1>2
  <2>4. Window[call.at] \in Int
    BY <1>2, <2>1
  <2>5. call.at + 1 \in 1 .. Len(Window) + 1
    BY <2>1, <2>3
  <2>6. Frame \in Int
    BY <2>2, <2>4 DEF Frame
  <2> QED BY <2>5, <2>6
<1>4. Number \in Nat /\ Goal \in Nat /\ bridge.pos \in Pictures /\ bridge.fails + 1 \in Nat
  <2>1. /\ bridge.pos \in Pictures /\ bridge.first \in BOOLEAN
        /\ bridge.next \in Nat /\ bridge.fails \in Nat
    BY BridgeParts, Zenon
  <2>2. bridge.pos \in Nat
    BY <2>1 DEF Pictures
  <2>3. Number \in Nat /\ bridge.fails + 1 \in Nat
    BY <2>1 DEF Number
  <2>4. Goal \in Nat
    BY <2>2 DEF Goal
  <2> QED BY <2>1, <2>3, <2>4, Zenon
<1>5. \A e \in Kept : Used(e) \in Kept
  <2> SUFFICES ASSUME NEW e \in Kept PROVE Used(e) \in Kept
    OBVIOUS
  <2>1. e.lock \in 0 .. 255
    BY DEF Kept
  <2>2. (e.lock + 1) % 256 \in 0 .. 255
    BY <2>1
  <2>3. counter \in Nat
    BY <1>0, Zenon
  <2> QED BY <2>2, <2>3, EntryUsed, Zenon DEF Used
<1>6. \A k \in Pictures : k \in Nat
  BY DEF Pictures
<1>7. \A i \in Entries : cache[i] \in Kept
  BY <1>0
<1>8. CASE Skip
  BY <1>0, <1>1, <1>3, <1>8, CallGoesOn DEF Skip
<1>9. CASE Hit
  <2>1. PICK i \in Entries : cache' = [cache EXCEPT ![i] = Used(cache[i])]
    BY <1>9 DEF Hit, Holding, Taken
  <2>2. cache' \in [Entries -> Kept]
    BY <1>0, <1>5, <1>7, <2>1, CacheChanges
  <2>3. call' \in Calls /\ call'.of = call.of
    BY <1>0, <1>3, <1>9, CallGoesOn DEF Hit
  <2> QED BY <1>0, <1>1, <1>9, <2>2, <2>3 DEF Hit
<1>10. ASSUME NEW i \in Entries, NEW k \in Pictures, Fetch(i, k) PROVE TypeOK'
  <2>0. Asking /\ Frame >= 0
    BY <1>10 DEF Fetch, Missing
  <2>1. Frame \in Nat /\ bridge.fails \in Nat
    <3>1. Frame \in Int
      BY <1>3, <2>0, Zenon
    <3>2. bridge.fails \in Nat
      BY BridgeParts, Zenon
    <3> HIDE DEF Frame
    <3> QED BY <2>0, <3>1, <3>2
  <2>2. bridge' \in Bridges
    BY <1>0, <1>10, <2>1, BridgeMoves, Zenon DEF Fetch, Fetched
  <2>3. [Used(cache[i]) EXCEPT !.frame = Frame, !.free = FALSE, !.img = k] \in Kept
    BY <1>5, <1>6, <1>7, <2>1, EntryFilled, Zenon
  <2>4. cache' \in [Entries -> Kept]
    BY <1>0, <1>10, <2>3, CacheChanges DEF Fetch
  <2>5. call' \in Calls /\ call'.of = call.of
    BY <1>0, <1>3, <1>10, CallGoesOn DEF Fetch, Missing
  <2> QED BY <1>0, <1>1, <1>10, <2>2, <2>4, <2>5 DEF Fetch
<1>11. ASSUME Missing, NoImage PROVE call' \in Calls /\ call'.of = call.of
  <2>1. PICK a \in 1 .. Len(Window) + 1 : call' = [call EXCEPT !.at = a]
    BY <1>2, <1>3, <1>11 DEF NoImage, Missing
  <2> QED BY <1>0, <2>1, CallGoesOn
<1>12. ASSUME NEW i \in Entries, NEW k \in Pictures, FetchTooLate(i, k) PROVE TypeOK'
  <2>1. Number + k - Goal \in Nat
    <3>1. k >= Goal
      BY <1>12 DEF FetchTooLate, Reached
    <3>2. k \in Nat /\ Number \in Nat /\ Goal \in Nat
      BY <1>4, <1>6
    <3> HIDE DEF Number, Goal
    <3> QED BY <3>1, <3>2
  <2>2. bridge' \in Bridges
    BY <1>0, <1>4, <1>12, <2>1, BridgeMoves, Zenon DEF FetchTooLate, Fetched
  <2>3. [cache[i] EXCEPT !.img = k] \in Kept
    BY <1>6, <1>7, EntryWritten
  <2>4. cache' \in [Entries -> Kept]
    BY <1>0, <1>12, <2>3, CacheChanges DEF FetchTooLate
  <2> QED BY <1>0, <1>1, <1>11, <1>12, <2>2, <2>4 DEF FetchTooLate
<1>13. CASE FetchFails
  <2>1. bridge' \in Bridges
    BY <1>0, <1>4, <1>13, BridgeMoves, Zenon DEF FetchFails, Fetched
  <2>2. call' \in Calls /\ call'.of = call.of
    BY <1>11, <1>13 DEF FetchFails
  <2> QED BY <1>0, <1>1, <1>13, <2>1, <2>2 DEF FetchFails
<1>14. CASE AssertionFails
  BY <1>0, <1>1, <1>14 DEF AssertionFails
<1>15. CASE Done
  <2>1. cache' \in [Entries -> Kept]
    <3>1. \A i \in Entries : [cache[i] EXCEPT !.lock = 0] \in Kept
      BY <1>7, EntryUnlocked
    <3> QED BY <1>15, <3>1 DEF Done, Unlocked
  <2>2. call.n \in Nat /\ call.half \in BOOLEAN /\ call.of.bob \in BOOLEAN
    BY CallParts, FilterFits
  <2>3. \E f \in Nat, h \in BOOLEAN : call' = [call EXCEPT !.n = f, !.half = h, !.at = 1]
    <3>1. (IF call.of.bob /\ ~call.half THEN call.n ELSE call.n + 1) \in Nat
      BY <2>2
    <3>2. (call.of.bob /\ ~call.half) \in BOOLEAN
      BY <2>2
    <3> QED BY <1>15, <3>1, <3>2, Zenon DEF Done
  <2>4. call' \in Calls /\ call'.of = call.of
    <3>1. PICK f \in Nat, h \in BOOLEAN : call' = [call EXCEPT !.n = f, !.half = h, !.at = 1]
      BY <2>3, Zenon
    <3> QED BY <1>0, <1>2, <3>1, CallAnew, Zenon
  <2> QED BY <1>0, <1>1, <1>15, <2>1, <2>4, Zenon DEF Done
<1>16. ASSUME NEW to \in Pictures \X BOOLEAN, GoToTime(to) PROVE TypeOK'
  <2>1. to[1] \in Pictures /\ to[2] \in BOOLEAN
    OBVIOUS
  <2>2. bridge' \in Bridges
    BY <1>0, <1>16, <2>1, BridgeMoves DEF GoToTime
  <2>3. cache' \in [Entries -> Kept]
    <3>1. \A i \in Entries : [Empty EXCEPT !.img = cache[i].img] \in Kept
      <4> SUFFICES ASSUME NEW i \in Entries PROVE [Empty EXCEPT !.img = cache[i].img] \in Kept
        OBVIOUS
      <4>1. Empty \in Kept
        BY DEF Empty, Kept
      <4> QED BY <4>1, EntryParts, EntryWritten
    <3> QED BY <1>16, <3>1 DEF GoToTime, Flushed
  <2>4. call' \in Calls /\ call'.of = call.of
    BY <1>0, <1>2, <1>16, CallAnew DEF GoToTime
  <2> QED BY <1>0, <1>1, <1>16, <2>1, <2>2, <2>3, <2>4 DEF GoToTime
<1>17. CASE UNCHANGED vars
  BY <1>0, <1>1, <1>17 DEF vars
<1> QED
  BY <1>8, <1>9, <1>10, <1>12, <1>13, <1>14, <1>15, <1>16, <1>17 DEF Next

THEOREM TypeCorrect == Spec => []TypeOK
<1>1. Init => TypeOK
  <2> SUFFICES ASSUME Init PROVE TypeOK
    OBVIOUS
  <2>1. call.of \in Filters /\ call.of.window \in Seq(-call.of.back .. call.of.ahead)
    BY CacheAssumption DEF Init
  <2>2. Len(Window) \in Nat
    BY <2>1, SequenceFits DEF Window
  <2>3. PICK s \in Selections, from \in Pictures : \E to \in Landing(s[1], from) :
          /\ bridge = [start |-> s[1], end |-> s[2], pos |-> to[1], held |-> to[2],
                       first |-> TRUE, next |-> 0, fails |-> 0]
          /\ origin = to[1]
    BY DEF Init
  <2>4. \A to \in Landing(s[1], from) : to[1] \in Pictures /\ to[2] \in BOOLEAN
    BY DEF Landing
  <2>5. s[1] \in Nat /\ s[2] \in Nat
    BY CacheAssumption
  <2>6. bridge \in Bridges /\ origin \in Pictures
    BY <2>3, <2>4, <2>5 DEF Bridges
  <2>7. cache \in [Entries -> Kept] /\ counter \in Nat
    BY DEF Init, Empty, Kept
  <2>8. call \in Calls
    <3>1. call \in [of : Filters, n : {0}, half : {FALSE}, at : {1}]
      BY DEF Init
    <3>2. 1 \in 1 .. Len(Window) + 1 /\ FALSE \in BOOLEAN /\ 0 \in Nat
      BY <2>2
    <3>3. \A c \in [of : Filters, n : {0}, half : {FALSE}, at : {1}] : c \in Calls
      BY <3>2 DEF Calls
    <3> QED BY <3>1, <3>3
  <2> QED BY <2>6, <2>7, <2>8 DEF Init, TypeOK, Bridges, Kept, Calls
<1> QED BY <1>1, TypeStep, PTL DEF Spec

-----------------------------------------------------------------------------
(* The only frame that is fetched is the next one.                         *)
LEMMA NumbersAndGoals ==
    ASSUME TypeOK, Position
    PROVE  /\ LastFetched \in Int /\ LastFetched >= -1
           /\ Number \in Nat /\ Goal \in Int /\ origin \in Int
           /\ bridge.fails \in Nat
           /\ Goal > origin + LastFetched
           /\ bridge.fails = 0 => Number = LastFetched + 1 /\ Goal = origin + LastFetched + 1
<1>1. /\ bridge.next \in Nat /\ bridge.fails \in Nat /\ bridge.pos \in Int /\ origin \in Int
      /\ bridge.first \in BOOLEAN
  BY BridgeParts, Types DEF Pictures
<1>2. CASE bridge.first
  BY <1>1, <1>2 DEF Position, LastFetched, Number, Goal
<1>3. CASE ~bridge.first
  BY <1>1, <1>3 DEF Position, LastFetched, Number, Goal
<1> QED BY <1>1, <1>2, <1>3

LEMMA NextInOrder ==
    ASSUME TypeOK, Position, Progress, Contents, Recency, Missing,
           NEW k \in Pictures, Reached(k), ~Late(k)
    PROVE  /\ bridge.fails = 0
           /\ Number = LastFetched + 1 /\ Goal = origin + LastFetched + 1
           /\ Frame = LastFetched + 1
<1>1. /\ LastFetched \in Int /\ LastFetched >= -1
      /\ Goal \in Int /\ origin \in Int /\ bridge.fails \in Nat
      /\ Goal > origin + LastFetched
  BY NumbersAndGoals
<1>2. bridge.fails = 0
  <2>1. k >= Goal /\ k \in Int
    BY DEF Reached, Pictures
  <2>2. k > origin + LastFetched
    BY <1>1, <2>1
  <2>3. ~(bridge.fails > 0)
    BY <2>2 DEF Position
  <2> QED BY <1>1, <2>3
<1>3. LastFetched < Frame /\ Frame \in Nat /\ Frame <= call.n + Ahead
  BY RoomIsMade
<1>4. call.n \in Nat /\ Ahead \in Nat /\ Back \in Nat /\ Len(Window) \in Nat
  BY CallParts, FilterFits
<1>5. Frame <= LastFetched + 1
  <2>1. CASE call.n > 0
    <3>1. call.n - 1 + Ahead <= LastFetched
      BY <1>2, <2>1 DEF Progress
    <3> QED BY <1>1, <1>3, <1>4, <3>1
  <2>2. CASE call.n = 0
    <3>1. CASE Frame = 0
      BY <1>1, <3>1
    <3>2. CASE Frame > 0
      <4>1. call.at \in 1 .. Len(Window)
        BY FilterFits DEF Missing, Asking
      <4>2. Frame = Window[call.at]
        <5>1. Window[call.at] \in -Back .. Ahead
          BY <4>1, FilterFits
        <5> QED BY <1>4, <2>2, <5>1 DEF Frame
      <4>3. Frame - 1 \in -Back .. Ahead
        BY <1>3, <1>4, <2>2, <3>2
      <4>4. PICK m \in 1 .. Len(Window) : Window[m] = Frame - 1
        BY <4>3, FilterFits
      <4>5. ~(call.at < m)
        <5>1. 0 <= Window[m] /\ Window[m] < Window[call.at]
          BY <1>3, <3>2, <4>2, <4>4
        <5> QED BY <4>1, <5>1, FilterFits
      <4>6. m # call.at
        BY <1>3, <4>2, <4>4
      <4>7. m \in 1 .. (call.at - 1)
        BY <1>4, <4>1, <4>5, <4>6
      <4>8. call.n + Window[m] <= LastFetched
        BY <1>2, <4>7 DEF Progress
      <4> QED BY <1>1, <1>3, <2>2, <4>4, <4>8
    <3> QED BY <1>3, <3>1, <3>2
  <2> QED BY <1>4, <2>1, <2>2
<1>6. Number = LastFetched + 1 /\ Goal = origin + LastFetched + 1
  BY <1>2, NumbersAndGoals
<1> QED BY <1>1, <1>2, <1>3, <1>5, <1>6

(* ... and it can fail only at the end.                                    *)
LEMMA NothingIsLeft ==
    ASSUME TypeOK, Position, Dry
    PROVE  \A k \in Pictures : k > origin + LastFetched => Late(k)
<1> SUFFICES ASSUME NEW k \in Pictures, k > origin + LastFetched PROVE Late(k)
  OBVIOUS
<1>1. /\ LastFetched \in Int /\ Goal \in Int /\ origin \in Int /\ bridge.fails \in Nat
      /\ bridge.fails = 0 => Goal = origin + LastFetched + 1
  BY NumbersAndGoals
<1>2. CASE bridge.fails > 0
  BY <1>2 DEF Position
<1>3. CASE bridge.fails = 0
  <2>1. k \in Int
    BY DEF Pictures
  <2>2. k >= Goal
    BY <1>1, <1>3, <2>1
  <2> QED BY <2>2 DEF Dry
<1> QED BY <1>1, <1>2, <1>3

-----------------------------------------------------------------------------
(* A frame is asked for that is not in the cache, and none is put there.   *)
LEMMA NothingIsUsed ==
    ASSUME TypeOK, Contents, Recency,
           call'.of = call.of, call'.n = call.n, call.at \in 1 .. Len(Window),
           call'.at = 1 \/ call'.at = call.at + 1,
           counter' = counter, LastFetched' = LastFetched, origin' = origin,
           \A i \in Entries :
              /\ cache'[i].frame = cache[i].frame /\ cache'[i].lock = cache[i].lock
              /\ cache'[i].lastUse = cache[i].lastUse /\ cache'[i].free = cache[i].free
              /\ \/ cache'[i].img = cache[i].img
                 \/ cache[i].free
                 \/ cache[i].frame < call.n - Back - 1,
           \A i \in Taken(cache) : cache[i].frame # Frame
    PROVE  Contents' /\ Recency'
<1>1. Taken(cache') = Taken(cache) /\ Taken(cache) \subseteq Entries
  BY DEF Taken
<1>2. Back' = Back /\ Ahead' = Ahead /\ Window' = Window
  BY DEF Back, Ahead, Window
<1>3. Back \in Nat /\ call.n \in Nat /\ Len(Window) \in Nat
  BY FilterFits, CallParts
<1>4. \A i \in Entries : cache[i].frame \in Nat
  BY EntryParts
<1>5. \A i \in Taken(cache) :
         cache[i].frame >= call.n - Back => cache'[i].img = origin + cache[i].frame
  <2> SUFFICES ASSUME NEW i \in Taken(cache), cache[i].frame >= call.n - Back
               PROVE  cache'[i].img = origin + cache[i].frame
    OBVIOUS
  <2>1. cache[i].img = origin + cache[i].frame
    BY DEF Contents
  <2>2. ~(cache[i].frame < call.n - Back - 1)
    BY <1>1, <1>3, <1>4
  <2>3. ~cache[i].free
    BY DEF Taken
  <2> QED BY <1>1, <2>1, <2>2, <2>3
<1>6. Contents'
  BY <1>1, <1>2, <1>5 DEF Contents
<1>7. \/ \A i \in Taken(cache) : ~Asked(i)'
      \/ \A i \in Taken(cache) : Asked(i)' <=> Asked(i)
  <2>1. CASE call'.at = 1
    BY <2>1 DEF Asked
  <2>2. CASE call'.at = call.at + 1
    <3>1. \A m \in 1 .. (call'.at - 1) : m \in 1 .. (call.at - 1) \/ m = call.at
      BY <1>3, <2>2
    <3>2. \A m \in 1 .. (call.at - 1) : m \in 1 .. (call'.at - 1)
      BY <1>3, <2>2
    <3> SUFFICES ASSUME NEW i \in Taken(cache) PROVE Asked(i)' <=> Asked(i)
      OBVIOUS
    <3>3. cache'[i].frame = cache[i].frame /\ cache[i].frame # call.n + Window[call.at]
      BY <1>1 DEF Frame
    <3> QED BY <1>2, <3>1, <3>2, <3>3 DEF Asked
  <2> QED BY <2>1, <2>2
<1>8. Recency'
  <2>1. ASSUME NEW i \in Taken(cache), NEW j \in Taken(cache)
        PROVE  /\ cache'[i].frame < call'.n - Back' - 1 /\ cache'[j].frame >= call'.n - Back' - 1
                      => cache'[i].lastUse < cache'[j].lastUse
               /\ ~Asked(i)' /\ Asked(j)' => cache'[i].lastUse < cache'[j].lastUse
    <3>1. /\ cache'[i].frame = cache[i].frame /\ cache'[j].frame = cache[j].frame
          /\ cache'[i].lastUse = cache[i].lastUse /\ cache'[j].lastUse = cache[j].lastUse
      BY <1>1
    <3> QED BY <1>2, <1>7, <3>1 DEF Recency
  <2> QED BY <1>1, <2>1 DEF Recency
<1> QED BY <1>6, <1>8

(* The entry that holds the frame asked for, or takes it.                  *)
LEMMA EntryIsUsed ==
    ASSUME TypeOK, Contents, Recency, NEW i \in Entries,
           call'.of = call.of, call'.n = call.n, call.at \in 1 .. Len(Window),
           call'.at = call.at + 1, counter' = counter + 1, origin' = origin,
           LastFetched' \in Int, LastFetched <= LastFetched', Frame <= LastFetched',
           \A f \in 0 .. LastFetched' : f <= LastFetched \/ f = Frame,
           Frame \in Nat, Frame >= call.n - Back, Frame <= call.n + Ahead,
           \A j \in Entries : j # i => cache'[j] = cache[j],
           cache'[i].frame = Frame, cache'[i].free = FALSE,
           cache'[i].lastUse = counter, cache'[i].img = origin + Frame,
           \A j \in Taken(cache) : j # i => cache[j].frame # Frame,
           cache[i].free \/ cache[i].frame = Frame \/ cache[i].frame < call.n - Back - 1
    PROVE  Contents' /\ Recency'
<1>1. /\ Taken(cache') = Taken(cache) \cup {i} /\ Taken(cache) \subseteq Entries
      /\ i \in Taken(cache')
  BY DEF Taken
<1>2. Back' = Back /\ Ahead' = Ahead /\ Window' = Window
  BY DEF Back, Ahead, Window
<1>3. Back \in Nat /\ Ahead \in Nat /\ call.n \in Nat /\ Len(Window) \in Nat /\ counter \in Nat
      /\ LastFetched \in Int
  <2>1. Back \in Nat /\ Ahead \in Nat /\ Len(Window) \in Nat
    BY FilterFits, Zenon
  <2>2. /\ call.n \in Nat /\ bridge.first \in BOOLEAN
        /\ bridge.next \in Nat /\ bridge.fails \in Nat
    BY CallParts, BridgeParts, Zenon
  <2>3. counter \in Nat
    BY Types
  <2>4. LastFetched \in Int
    BY <2>2 DEF LastFetched
  <2> QED BY <2>1, <2>2, <2>3, <2>4
<1>4. \A j \in Entries : cache[j].frame \in Nat /\ cache[j].lastUse \in Nat
  BY EntryParts
<1>5. ASSUME NEW j \in Taken(cache), j # i
      PROVE  /\ cache'[j] = cache[j] /\ cache[j].frame # Frame /\ cache[j].lastUse < counter
             /\ cache[j].frame <= LastFetched /\ cache[j].frame <= call.n + Ahead
             /\ cache[j].frame >= call.n - Back => cache[j].img = origin + cache[j].frame
  BY <1>1, <1>5 DEF Contents
<1>6. \A j \in Taken(cache') :
         /\ cache'[j].frame <= LastFetched'
         /\ cache'[j].frame <= call'.n + Ahead'
         /\ cache'[j].lastUse < counter'
         /\ cache'[j].frame >= call'.n - Back' => cache'[j].img = origin' + cache'[j].frame
  <2> SUFFICES ASSUME NEW j \in Taken(cache')
               PROVE  /\ cache'[j].frame <= LastFetched'
                      /\ cache'[j].frame <= call'.n + Ahead'
                      /\ cache'[j].lastUse < counter'
                      /\ cache'[j].frame >= call'.n - Back' => cache'[j].img = origin' + cache'[j].frame
    OBVIOUS
  <2>1. CASE j = i
    <3>1. counter < counter + 1
      BY <1>3
    <3>2. /\ cache'[i].frame = Frame /\ cache'[i].lastUse = counter
          /\ cache'[i].img = origin + Frame /\ Frame <= LastFetched'
          /\ Frame <= call.n + Ahead
      OBVIOUS
    <3>3. call'.n = call.n /\ counter' = counter + 1 /\ origin' = origin
      OBVIOUS
    <3> QED BY <1>2, <2>1, <3>1, <3>2, <3>3, Zenon
  <2>2. CASE j # i
    <3>1. j \in Taken(cache)
      BY <1>1, <2>2
    <3>2. /\ cache'[j] = cache[j] /\ cache[j].lastUse < counter
          /\ cache[j].frame <= LastFetched /\ cache[j].frame <= call.n + Ahead
          /\ cache[j].frame >= call.n - Back => cache[j].img = origin + cache[j].frame
      BY <1>5, <2>2, <3>1
    <3>3. cache[j].frame \in Nat /\ cache[j].lastUse \in Nat
      BY <1>1, <1>4, <3>1
    <3>4. cache[j].frame <= LastFetched' /\ cache[j].lastUse < counter + 1
      <4>1. LastFetched \in Int /\ LastFetched' \in Int /\ LastFetched <= LastFetched'
        BY <1>3
      <4>2. cache[j].frame <= LastFetched'
        BY <3>2, <3>3, <4>1
      <4>3. cache[j].lastUse < counter + 1
        <5>1. counter \in Nat
          BY <1>3
        <5> QED BY <3>2, <3>3, <5>1
      <4> QED BY <4>2, <4>3
    <3>5. call'.n = call.n /\ counter' = counter + 1 /\ origin' = origin
      OBVIOUS
    <3> QED BY <1>2, <3>2, <3>4, <3>5, Zenon
  <2> QED BY <2>1, <2>2
<1>7. \A a, b \in Taken(cache') : cache'[a].frame = cache'[b].frame => a = b
  <2> SUFFICES ASSUME NEW a \in Taken(cache'), NEW b \in Taken(cache'),
                      cache'[a].frame = cache'[b].frame, a # b
               PROVE  FALSE
    OBVIOUS
  <2>1. CASE a = i
    BY <1>1, <1>5, <2>1
  <2>2. CASE b = i
    BY <1>1, <1>5, <2>2
  <2>3. CASE a # i /\ b # i
    <3>1. a \in Taken(cache) /\ b \in Taken(cache)
      BY <1>1, <2>3
    <3>2. cache[a].frame = cache[b].frame
      BY <1>5, <2>3, <3>1
    <3> QED BY <3>1, <3>2 DEF Contents
  <2> QED BY <2>1, <2>2, <2>3
<1>8. \A j \in Entries : cache'[j].lock > 0 => ~cache'[j].free /\ cache'[j].frame >= call'.n - Back'
  <2> SUFFICES ASSUME NEW j \in Entries, cache'[j].lock > 0
               PROVE  ~cache'[j].free /\ cache'[j].frame >= call.n - Back
    BY <1>2
  <2>1. CASE j = i
    BY <2>1
  <2>2. CASE j # i
    <3>1. cache'[j] = cache[j]
      BY <2>2
    <3> QED BY <3>1 DEF Contents
  <2> QED BY <2>1, <2>2
<1>9. \A f \in 0 .. LastFetched' :
         f >= call'.n - Back' => \E j \in Taken(cache') : cache'[j].frame = f
  <2> SUFFICES ASSUME NEW f \in 0 .. LastFetched', f >= call.n - Back
               PROVE  \E j \in Taken(cache') : cache'[j].frame = f
    BY <1>2
  <2>1. CASE f = Frame
    BY <1>1, <2>1
  <2>2. CASE f # Frame
    <3>1. f \in 0 .. LastFetched
      <4>1. f <= LastFetched /\ f \in Nat
        BY <2>2
      <4> QED BY <1>3, <4>1
    <3>2. PICK j \in Taken(cache) : cache[j].frame = f
      BY <3>1 DEF Contents
    <3>3. j # i
      <4>1. ~(f < call.n - Back - 1)
        BY <1>3, <3>1
      <4>2. ~cache[j].free
        BY DEF Taken
      <4> QED BY <2>2, <3>2, <4>1, <4>2
    <3> QED BY <1>1, <1>5, <3>2, <3>3
  <2> QED BY <2>1, <2>2
<1>10. Contents'
  BY <1>6, <1>7, <1>8, <1>9 DEF Contents
<1>110. Len(Window) \in Nat
  BY FilterFits, Zenon
<1>11. \A m \in 1 .. (call'.at - 1) : m \in 1 .. (call.at - 1) \/ m = call.at
  BY <1>110, OneMore, SMT
<1>12. call.at \in 1 .. (call'.at - 1) /\ \A m \in 1 .. (call.at - 1) : m \in 1 .. (call'.at - 1)
  BY <1>110, OneMore, SMT
<1>13. Asked(i)'
  BY <1>2, <1>12 DEF Asked, Frame
<1>14. ASSUME NEW j \in Taken(cache), j # i PROVE Asked(j)' <=> Asked(j)
  <2>1. cache'[j] = cache[j] /\ cache[j].frame # call.n + Window[call.at]
    BY <1>5, <1>14 DEF Frame
  <2> QED BY <1>2, <1>11, <1>12, <2>1 DEF Asked
<1>15. ASSUME NEW a \in Taken(cache'), NEW b \in Taken(cache')
       PROVE  /\ cache'[a].frame < call'.n - Back' - 1 /\ cache'[b].frame >= call'.n - Back' - 1
                     => cache'[a].lastUse < cache'[b].lastUse
              /\ ~Asked(a)' /\ Asked(b)' => cache'[a].lastUse < cache'[b].lastUse
  <2>1. CASE a = i
    <3>1. ~(cache'[a].frame < call.n - Back - 1)
      BY <1>3, <2>1
    <3> QED BY <1>2, <1>13, <2>1, <3>1
  <2>2. CASE a # i /\ b = i
    BY <1>1, <1>5, <2>2
  <2>3. CASE a # i /\ b # i
    <3>1. a \in Taken(cache) /\ b \in Taken(cache)
      BY <1>1, <2>3
    <3>2. cache'[a] = cache[a] /\ cache'[b] = cache[b]
      BY <1>5, <2>3, <3>1
    <3>3. (Asked(a)' <=> Asked(a)) /\ (Asked(b)' <=> Asked(b))
      BY <1>14, <2>3, <3>1
    <3> QED BY <1>2, <3>1, <3>2, <3>3 DEF Recency
  <2> QED BY <2>1, <2>2, <2>3
<1>16. Recency'
  BY <1>15 DEF Recency
<1> QED BY <1>10, <1>16

-----------------------------------------------------------------------------
(* Sound, action by action.                                                *)
LEMMA SkipKeeps == TypeOK /\ Sound /\ Skip => Sound'
<1> SUFFICES ASSUME TypeOK, Sound, Skip, ~stumbled
             PROVE  ~aborted' /\ Position' /\ Progress' /\ Contents' /\ Recency'
  BY DEF Sound, Skip
<1>1. ~aborted /\ Position /\ Progress /\ Contents /\ Recency
  BY DEF Sound
<1>2. /\ call.at \in 1 .. Len(Window) /\ Len(Window) \in Nat
      /\ Frame < 0 /\ LastFetched \in Int /\ LastFetched >= -1
  BY <1>1, FilterFits, NumbersAndGoals DEF Skip, Asking
<1>3. call'.of = call.of /\ call'.n = call.n /\ call'.at = call.at + 1
  BY CallGoesOn, Types, <1>2 DEF Skip, Calls
<1>4. /\ bridge' = bridge /\ cache' = cache /\ counter' = counter /\ origin' = origin
      /\ aborted' = aborted
  BY DEF Skip
<1>5. LastFetched' = LastFetched
  BY <1>4 DEF LastFetched
<1>6. Position'
  BY <1>1, <1>4, <1>5 DEF Position, Late
<1>7. Back' = Back /\ Ahead' = Ahead /\ Window' = Window
  BY <1>3 DEF Back, Ahead, Window
<1>8. Progress'
  <2>1. ASSUME bridge.fails = 0, NEW m \in 1 .. (call'.at - 1)
        PROVE  call.n + Window[m] <= LastFetched
    <3>1. CASE m \in 1 .. (call.at - 1)
      BY <1>1, <2>1, <3>1 DEF Progress
    <3>2. CASE m = call.at
      <4>1. Frame \in Int /\ call.n + Window[m] = Frame
        <5>1. Window[call.at] \in -Back .. Ahead /\ call.n \in Nat /\ Back \in Nat /\ Ahead \in Nat
          BY <1>2, FilterFits, CallParts
        <5> QED BY <3>2, <5>1 DEF Frame
      <4> QED BY <1>2, <4>1
    <3> QED BY <1>2, <1>3, <3>1, <3>2
  <2> QED BY <1>1, <1>3, <1>4, <1>5, <1>7, <2>1 DEF Progress
<1>9. \A i \in Taken(cache) : cache[i].frame # Frame
  <2> SUFFICES ASSUME NEW i \in Taken(cache) PROVE cache[i].frame # Frame
    OBVIOUS
  <2>1. cache[i].frame \in Nat
    BY EntryParts DEF Taken
  <2> QED BY <1>2, <2>1
<1>10. Contents' /\ Recency'
  BY <1>1, <1>2, <1>3, <1>4, <1>5, <1>9, NothingIsUsed
<1> QED BY <1>1, <1>4, <1>6, <1>8, <1>10

LEMMA HitKeeps == ASSUME TypeOK, Sound, Hit PROVE Sound'
<1>0. stumbled' = stumbled
  BY DEF Hit
<1> SUFFICES ASSUME ~stumbled
             PROVE  ~aborted' /\ Position' /\ Progress' /\ Contents' /\ Recency'
  BY <1>0 DEF Sound
<1>1. ~aborted /\ Position /\ Progress /\ Contents /\ Recency
  BY DEF Sound
<1>2. call.at \in 1 .. Len(Window) /\ Len(Window) \in Nat /\ LastFetched \in Int
  BY <1>1, FilterFits, NumbersAndGoals DEF Hit, Asking
<1>3. call'.of = call.of /\ call'.n = call.n /\ call'.at = call.at + 1
  BY CallGoesOn, Types, <1>2 DEF Hit, Calls
<1>4. /\ bridge' = bridge /\ counter' = counter + 1 /\ origin' = origin
      /\ aborted' = aborted
  BY DEF Hit
<1>5. LastFetched' = LastFetched
  BY <1>4 DEF LastFetched
<1>6. Position'
  BY <1>1, <1>4, <1>5 DEF Position, Late
<1>7. PICK i \in Holding(Frame) : cache' = [cache EXCEPT ![i] = Used(cache[i])]
  BY DEF Hit
<1>8. i \in Entries /\ i \in Taken(cache) /\ cache[i].frame = Frame
  BY <1>7 DEF Holding, Taken
<1>9. Frame \in Nat /\ Frame <= LastFetched
  BY <1>1, <1>8, EntryParts DEF Contents
<1>10. Frame >= call.n - Back /\ Frame <= call.n + Ahead
  <2>1. /\ Window[call.at] \in -Back .. Ahead /\ call.n \in Nat
        /\ Back \in Nat /\ Ahead \in Nat
    BY <1>2, FilterFits, CallParts
  <2> QED BY <2>1 DEF Frame
<1>11. Back' = Back /\ Ahead' = Ahead /\ Window' = Window
  BY <1>3 DEF Back, Ahead, Window
<1>12. Progress'
  <2>1. ASSUME bridge.fails = 0, NEW m \in 1 .. (call'.at - 1)
        PROVE  call.n + Window[m] <= LastFetched
    <3>1. CASE m \in 1 .. (call.at - 1)
      BY <1>1, <2>1, <3>1 DEF Progress
    <3>2. CASE m = call.at
      BY <1>9, <3>2 DEF Frame
    <3> QED BY <1>2, <1>3, <3>1, <3>2
  <2> QED BY <1>1, <1>3, <1>4, <1>5, <1>11, <2>1 DEF Progress
<1>13. /\ cache'[i].frame = Frame /\ cache'[i].free = FALSE
       /\ cache'[i].lastUse = counter /\ cache'[i].img = cache[i].img
       /\ \A j \in Entries : j # i => cache'[j] = cache[j]
  <2>1. cache \in [Entries -> Kept] /\ cache[i] \in Kept /\ cache[i].free = FALSE
    BY <1>8, Types, EntryParts DEF Taken
  <2>2. /\ Used(cache[i]).frame = cache[i].frame /\ Used(cache[i]).free = cache[i].free
        /\ Used(cache[i]).lastUse = counter /\ Used(cache[i]).img = cache[i].img
    BY <2>1 DEF Used, Kept
  <2>3. cache'[i] = Used(cache[i]) /\ \A j \in Entries : j # i => cache'[j] = cache[j]
    BY <1>7, <1>8, <2>1
  <2> QED BY <1>8, <2>1, <2>2, <2>3
<1>14. cache[i].img = origin + Frame
  BY <1>1, <1>8, <1>10 DEF Contents
<1>15. \A j \in Taken(cache) : j # i => cache[j].frame # Frame
  BY <1>1, <1>8 DEF Contents
<1>16. /\ LastFetched' \in Int /\ LastFetched <= LastFetched' /\ Frame <= LastFetched'
       /\ \A f \in 0 .. LastFetched' : f <= LastFetched \/ f = Frame
  BY <1>2, <1>5, <1>9
<1>17. Contents' /\ Recency'
  <2>1. cache'[i].img = origin + Frame
    BY <1>13, <1>14
  <2> QED BY <1>1, <1>2, <1>3, <1>4, <1>8, <1>9, <1>10, <1>13, <1>15, <1>16, <2>1, EntryIsUsed
<1> QED BY <1>1, <1>4, <1>6, <1>12, <1>17

LEMMA FetchKeeps ==
    ASSUME TypeOK, Sound, NEW i \in Entries, NEW k \in Pictures, Fetch(i, k)
    PROVE  Sound'
<1> SUFFICES ASSUME ~stumbled
             PROVE  ~aborted' /\ Position' /\ Progress' /\ Contents' /\ Recency'
  BY DEF Sound, Fetch
<1>1. ~aborted /\ Position /\ Progress /\ Contents /\ Recency
  BY DEF Sound
<1>2. call.at \in 1 .. Len(Window) /\ Len(Window) \in Nat /\ LastFetched \in Int /\ LastFetched >= -1
  BY <1>1, FilterFits, NumbersAndGoals DEF Fetch, Missing, Asking
<1>3. call'.of = call.of /\ call'.n = call.n /\ call'.at = call.at + 1
  BY CallGoesOn, Types, <1>2 DEF Fetch, Calls
<1>4. counter' = counter + 1 /\ origin' = origin /\ aborted' = aborted
  BY DEF Fetch
<1>5. Missing /\ Reached(k) /\ ~Late(k) /\ Frame = Number + k - Goal /\ i \in FreeEntry
  BY DEF Fetch
<1>6. /\ bridge.fails = 0 /\ Number = LastFetched + 1 /\ Goal = origin + LastFetched + 1
      /\ Frame = LastFetched + 1
  BY <1>1, <1>5, NextInOrder
<1>7. /\ Frame \in Nat /\ Frame >= call.n - Back /\ Frame <= call.n + Ahead
      /\ LastFetched < Frame
      /\ cache[i].free \/ cache[i].frame < call.n - Back - 1
  BY <1>1, <1>5, RoomIsMade
<1>8. k = origin + Frame /\ origin \in Int /\ k \in Int
  <2>1. k \in Int /\ origin \in Int
    BY Types DEF Pictures
  <2>2. Frame = LastFetched + 1 + k - (origin + LastFetched + 1)
    BY <1>5, <1>6
  <2> HIDE DEF LastFetched, Frame
  <2> QED BY <1>2, <1>6, <2>1, <2>2
<1>9. /\ bridge'.first = FALSE /\ bridge'.pos = k /\ bridge'.next = Frame /\ bridge'.fails = 0
      /\ bridge'.end = bridge.end
  BY <1>6, Types DEF Fetch, Fetched, Bridges
<1>10. LastFetched' = Frame
  BY <1>7, <1>9 DEF LastFetched
<1>11. Position'
  BY <1>4, <1>7, <1>8, <1>9, <1>10 DEF Position
<1>12. Back' = Back /\ Ahead' = Ahead /\ Window' = Window
  BY <1>3 DEF Back, Ahead, Window
<1>13. Progress'
  <2>1. /\ call.n \in Nat /\ Ahead \in Nat /\ Back \in Nat
        /\ \A m \in 1 .. Len(Window) : Window[m] \in -Back .. Ahead
    BY CallParts, FilterFits
  <2>2. ASSUME NEW m \in 1 .. (call'.at - 1)
        PROVE  call.n + Window[m] <= Frame
    <3>1. CASE m \in 1 .. (call.at - 1)
      <4>1. call.n + Window[m] <= LastFetched
        BY <1>1, <1>6, <3>1 DEF Progress
      <4>2. m \in 1 .. Len(Window)
        BY <1>2, <3>1
      <4>3. Window[m] \in -Back .. Ahead
        BY <2>1, <4>2
      <4>4. Window[m] \in Int /\ call.n \in Nat
        BY <2>1, <4>3
      <4>5. LastFetched \in Int /\ Frame \in Nat /\ LastFetched < Frame
        BY <1>2, <1>7, Zenon
      <4> HIDE DEF LastFetched, Frame
      <4> QED BY <4>1, <4>4, <4>5
    <3>2. CASE m = call.at
      BY <1>7, <3>2 DEF Frame
    <3> QED BY <1>2, <1>3, <3>1, <3>2
  <2>3. call.n > 0 => call.n - 1 + Ahead <= Frame
    <3> SUFFICES ASSUME call.n > 0 PROVE call.n - 1 + Ahead <= Frame
      OBVIOUS
    <3>1. call.n - 1 + Ahead <= LastFetched
      BY <1>1, <1>6 DEF Progress
    <3> QED BY <1>2, <1>7, <2>1, <3>1
  <2> QED BY <1>3, <1>9, <1>10, <1>12, <2>2, <2>3 DEF Progress
<1>14. /\ cache'[i].frame = Frame /\ cache'[i].free = FALSE
       /\ cache'[i].lastUse = counter /\ cache'[i].img = k
       /\ \A j \in Entries : j # i => cache'[j] = cache[j]
  <2>1. cache \in [Entries -> Kept] /\ cache[i] \in Kept
    BY Types, EntryParts
  <2> DEFINE e == [Used(cache[i]) EXCEPT !.frame = Frame, !.free = FALSE, !.img = k]
  <2>2. e.frame = Frame /\ e.free = FALSE /\ e.lastUse = counter /\ e.img = k
    BY <2>1 DEF Used, Kept
  <2>3. cache' = [cache EXCEPT ![i] = e]
    BY DEF Fetch
  <2> HIDE DEF e
  <2>4. cache'[i] = e /\ \A j \in Entries : j # i => cache'[j] = cache[j]
    BY <2>1, <2>3
  <2> QED BY <2>2, <2>4
<1>15. \A j \in Taken(cache) : j # i => cache[j].frame # Frame
  BY <1>5 DEF Missing, Holding
<1>16. /\ LastFetched' \in Int /\ LastFetched <= LastFetched' /\ Frame <= LastFetched'
       /\ \A f \in 0 .. LastFetched' : f <= LastFetched \/ f = Frame
  BY <1>2, <1>6, <1>7, <1>10
<1>17. cache'[i].img = origin + Frame
  BY <1>8, <1>14
<1>18. Contents' /\ Recency'
  BY <1>1, <1>2, <1>3, <1>4, <1>7, <1>14, <1>15, <1>16, <1>17, EntryIsUsed
<1> QED BY <1>1, <1>4, <1>11, <1>13, <1>18

LEMMA FetchTooLateKeeps ==
    ASSUME TypeOK, Sound, NEW i \in Entries, NEW k \in Pictures, FetchTooLate(i, k)
    PROVE  Sound'
<1> SUFFICES ASSUME ~stumbled, k = Goal
             PROVE  ~aborted' /\ Position' /\ Progress' /\ Contents' /\ Recency'
  BY DEF Sound, FetchTooLate
<1>1. ~aborted /\ Position /\ Progress /\ Contents /\ Recency
  BY DEF Sound
<1>2. /\ call.at \in 1 .. Len(Window) /\ Len(Window) \in Nat
      /\ LastFetched \in Int /\ LastFetched >= -1 /\ Number \in Nat /\ Goal \in Int
      /\ origin \in Int /\ bridge.fails \in Nat /\ Goal > origin + LastFetched
      /\ bridge.fails = 0 => Goal = origin + LastFetched + 1
  BY <1>1, FilterFits, NumbersAndGoals DEF FetchTooLate, Missing, Asking
<1>3. call'.of = call.of /\ call'.n = call.n /\ (call'.at = 1 \/ call'.at = call.at + 1)
  <2>1. call \in Calls /\ NoImage
    BY Types DEF FetchTooLate
  <2>2. PICK a \in {1, call.at + 1} : call' = [call EXCEPT !.at = a]
    BY <2>1 DEF NoImage
  <2> QED BY <2>1, <2>2 DEF Calls
<1>4. counter' = counter /\ origin' = origin /\ aborted' = aborted
  BY DEF FetchTooLate
<1>5. Missing /\ Late(k) /\ i \in FreeEntry
  BY DEF FetchTooLate
<1>6. /\ bridge'.first = FALSE /\ bridge'.pos = Goal /\ bridge'.next = Number
      /\ bridge'.fails = bridge.fails + 1 /\ bridge'.end = bridge.end
  <2>1. Number + k - Goal = Number
    BY <1>2
  <2> QED BY <2>1, Types DEF FetchTooLate, Fetched, Bridges
<1>7. LastFetched' = LastFetched
  <2>1. bridge.next \in Nat /\ bridge.first \in BOOLEAN
    BY BridgeParts
  <2>2. bridge.first => bridge.fails = 0
    BY <1>1 DEF Position
  <2>3. CASE bridge.first
    BY <1>2, <1>6, <2>2, <2>3 DEF LastFetched, Number
  <2>4. CASE ~bridge.first
    <3>1. bridge.fails \in Nat
      BY BridgeParts
    <3>2. bridge'.next = bridge.next + 1 /\ bridge'.fails = bridge.fails + 1 /\ ~bridge'.first
      BY <1>6, <2>4 DEF Number
    <3> QED BY <2>1, <2>4, <3>1, <3>2 DEF LastFetched
  <2> QED BY <2>1, <2>3, <2>4
<1>8. Position'
  <2>1. \A l \in Pictures : l > origin + LastFetched => Late(l)
    <3>1. Dry
      <4> SUFFICES ASSUME NEW l \in Pictures, l >= Goal PROVE Late(l)
        BY DEF Dry
      <4>1. TimeOf(k) > bridge.end
        BY <1>5 DEF Late
      <4>2. l \in Int /\ k \in Int /\ bridge.end \in Nat
        BY BridgeParts DEF Pictures
      <4> QED BY <4>1, <4>2 DEF Late, TimeOf
    <3> QED BY <1>1, <3>1, NothingIsLeft
  <2>2. \A l \in Pictures : l > origin' + LastFetched' => Late(l)'
    BY <1>4, <1>6, <1>7, <2>1 DEF Late
  <2>3. origin' + LastFetched' <= bridge'.pos /\ -1 <= LastFetched'
    BY <1>2, <1>4, <1>6, <1>7
  <2>4. bridge'.fails > 0
    BY <1>2, <1>6
  <2> QED BY <1>2, <1>6, <2>2, <2>3, <2>4 DEF Position
<1>9. Progress'
  BY <1>2, <1>6 DEF Progress
<1>10. cache[i].free \/ cache[i].frame < call.n - Back - 1
  BY <1>1, <1>5, RoomIsMade
<1>11. \A j \in Entries :
          /\ cache'[j].frame = cache[j].frame /\ cache'[j].lock = cache[j].lock
          /\ cache'[j].lastUse = cache[j].lastUse /\ cache'[j].free = cache[j].free
          /\ \/ cache'[j].img = cache[j].img
             \/ cache[j].free
             \/ cache[j].frame < call.n - Back - 1
  <2> SUFFICES ASSUME NEW j \in Entries
               PROVE  /\ cache'[j].frame = cache[j].frame /\ cache'[j].lock = cache[j].lock
                      /\ cache'[j].lastUse = cache[j].lastUse /\ cache'[j].free = cache[j].free
                      /\ j = i \/ cache'[j].img = cache[j].img
    BY <1>10
  <2>1. cache \in [Entries -> Kept] /\ cache[i] \in Kept
    BY Types, EntryParts
  <2>2. cache' = [cache EXCEPT ![i] = [cache[i] EXCEPT !.img = k]]
    BY DEF FetchTooLate
  <2>3. CASE j = i
    <3>1. cache'[i] = [cache[i] EXCEPT !.img = k]
      BY <2>1, <2>2
    <3> QED BY <2>1, <2>3, <3>1 DEF Kept
  <2>4. CASE j # i
    <3>1. cache'[j] = cache[j]
      BY <2>1, <2>2, <2>4
    <3> QED BY <3>1
  <2> QED BY <2>3, <2>4
<1>12. \A j \in Taken(cache) : cache[j].frame # Frame
  BY <1>5 DEF Missing, Holding
<1>13. Contents' /\ Recency'
  BY <1>1, <1>2, <1>3, <1>4, <1>7, <1>11, <1>12, NothingIsUsed
<1> QED BY <1>1, <1>4, <1>8, <1>9, <1>13

LEMMA FetchFailsKeeps == ASSUME TypeOK, Sound, FetchFails PROVE Sound'
<1>0. ~stumbled' => ~stumbled /\ Dry
  BY DEF FetchFails
<1> SUFFICES ASSUME ~stumbled, Dry
             PROVE  ~aborted' /\ Position' /\ Progress' /\ Contents' /\ Recency'
  BY <1>0 DEF Sound
<1>1. ~aborted /\ Position /\ Progress /\ Contents /\ Recency
  BY DEF Sound
<1>2. /\ call.at \in 1 .. Len(Window) /\ Len(Window) \in Nat
      /\ LastFetched \in Int /\ LastFetched >= -1 /\ Number \in Nat
      /\ bridge.fails \in Nat
  BY <1>1, FilterFits, NumbersAndGoals DEF FetchFails, Missing, Asking
<1>3. call'.of = call.of /\ call'.n = call.n /\ (call'.at = 1 \/ call'.at = call.at + 1)
  <2>1. call \in Calls /\ NoImage
    BY Types DEF FetchFails
  <2>2. PICK a \in {1, call.at + 1} : call' = [call EXCEPT !.at = a]
    BY <2>1 DEF NoImage
  <2> QED BY <2>1, <2>2 DEF Calls
<1>4. counter' = counter /\ origin' = origin /\ aborted' = aborted /\ cache' = cache
  BY DEF FetchFails
<1>5. Missing
  BY DEF FetchFails
<1>6. /\ bridge'.first = FALSE /\ bridge'.pos = bridge.pos /\ bridge'.next = Number
      /\ bridge'.fails = bridge.fails + 1 /\ bridge'.end = bridge.end
  BY Types DEF FetchFails, Fetched, Bridges
<1>7. LastFetched' = LastFetched
  <2>1. bridge.next \in Nat /\ bridge.first \in BOOLEAN
    BY BridgeParts
  <2>2. bridge.first => bridge.fails = 0
    BY <1>1 DEF Position
  <2>3. CASE bridge.first
    BY <1>2, <1>6, <2>2, <2>3 DEF LastFetched, Number
  <2>4. CASE ~bridge.first
    <3>1. bridge.fails \in Nat
      BY BridgeParts
    <3>2. bridge'.next = bridge.next + 1 /\ bridge'.fails = bridge.fails + 1 /\ ~bridge'.first
      BY <1>6, <2>4 DEF Number
    <3> QED BY <2>1, <2>4, <3>1, <3>2 DEF LastFetched
  <2> QED BY <2>1, <2>3, <2>4
<1>8. Position'
  <2>1. \A l \in Pictures : l > origin + LastFetched => Late(l)
    BY <1>1, NothingIsLeft
  <2>2. \A l \in Pictures : l > origin' + LastFetched' => Late(l)'
    BY <1>4, <1>6, <1>7, <2>1 DEF Late
  <2>3. origin' + LastFetched' <= bridge'.pos /\ -1 <= LastFetched'
    BY <1>1, <1>4, <1>6, <1>7 DEF Position
  <2>4. bridge'.fails > 0
    BY <1>2, <1>6
  <2> QED BY <1>2, <1>6, <2>2, <2>3, <2>4 DEF Position
<1>9. Progress'
  BY <1>2, <1>6 DEF Progress
<1>10. \A j \in Taken(cache) : cache[j].frame # Frame
  BY <1>5 DEF Missing, Holding
<1>11. Contents' /\ Recency'
  BY <1>1, <1>2, <1>3, <1>4, <1>7, <1>10, NothingIsUsed
<1> QED BY <1>1, <1>4, <1>8, <1>9, <1>11

LEMMA AssertionFailsKeeps == ASSUME TypeOK, Sound, AssertionFails PROVE Sound'
<1>0. ~stumbled' => ~stumbled /\ ~(FreeEntry # {} /\ Early(Goal))
  BY DEF AssertionFails
<1> SUFFICES ASSUME ~stumbled, ~(FreeEntry # {} /\ Early(Goal)) PROVE FALSE
  BY <1>0 DEF Sound
<1>1. ~aborted /\ Position /\ Progress /\ Contents /\ Recency /\ Missing
  BY DEF Sound, AssertionFails
<1>2. FreeEntry # {}
  BY <1>1, RoomIsMade
<1>3. PICK k \in Pictures : Held /\ Reached(k) /\ ~Late(k) /\ Frame # Number + k - Goal
  BY <1>2 DEF AssertionFails
<1>4. Goal \in Int /\ k \in Int /\ k >= Goal /\ Number \in Nat
  BY <1>1, <1>3, NumbersAndGoals DEF Reached, Pictures
<1>5. k = Goal
  <2> SUFFICES ASSUME k > Goal PROVE FALSE
    BY <1>4
  <2>1. Goal \in Goal .. (k - 1)
    BY <1>4
  <2> QED BY <1>2, <1>3, <2>1 DEF Reached
<1>6. Frame = Number
  BY <1>1, <1>3, NextInOrder
<1> QED BY <1>3, <1>4, <1>5, <1>6

LEMMA DoneKeeps == ASSUME TypeOK, Sound, Done PROVE Sound'
<1>0. stumbled' = stumbled
  BY DEF Done
<1> SUFFICES ASSUME ~stumbled
             PROVE  ~aborted' /\ Position' /\ Progress' /\ Contents' /\ Recency'
  BY <1>0 DEF Sound
<1>1. ~aborted /\ Position /\ Progress /\ Contents /\ Recency
  BY DEF Sound
<1>2. /\ call.at > Len(Window) /\ Len(Window) \in Nat /\ call.at \in Nat
      /\ LastFetched \in Int /\ call.n \in Nat /\ Back \in Nat /\ Ahead \in Nat
      /\ \A m \in 1 .. Len(Window) : Window[m] \in -Back .. Ahead
      /\ \A o \in -Back .. Ahead : \E m \in 1 .. Len(Window) : Window[m] = o
  <2>1. /\ Len(Window) \in Nat /\ Back \in Nat /\ Ahead \in Nat
        /\ \A m \in 1 .. Len(Window) : Window[m] \in -Back .. Ahead
        /\ \A o \in -Back .. Ahead : \E m \in 1 .. Len(Window) : Window[m] = o
    BY FilterFits, Zenon
  <2>2. LastFetched \in Int /\ call.n \in Nat /\ call.at \in 1 .. Len(Window) + 1
    BY <1>1, NumbersAndGoals, CallParts, Zenon
  <2>3. call.at \in Nat
    BY <2>2
  <2>4. call.at > Len(Window)
    BY DEF Done
  <2> QED BY <2>1, <2>2, <2>3, <2>4, Zenon
<1>3. call'.of = call.of /\ call'.at = 1 /\ (call'.n = call.n \/ call'.n = call.n + 1)
  <2>1. call \in Calls
    BY Types
  <2>2. PICK f \in {call.n, call.n + 1}, h \in BOOLEAN :
           call' = [call EXCEPT !.n = f, !.half = h, !.at = 1]
    <3>1. (call.of.bob /\ ~call.half) \in BOOLEAN
      BY CallParts, FilterFits
    <3>2. (IF call.of.bob /\ ~call.half THEN call.n ELSE call.n + 1) \in {call.n, call.n + 1}
      OBVIOUS
    <3> QED BY <3>1, <3>2 DEF Done
  <2> QED BY <2>1, <2>2 DEF Calls
<1>4. /\ bridge' = bridge /\ counter' = counter /\ origin' = origin /\ aborted' = aborted
  BY DEF Done
<1>5. LastFetched' = LastFetched
  BY <1>4 DEF LastFetched
<1>6. Position'
  BY <1>1, <1>4, <1>5 DEF Position, Late
<1>7. Back' = Back /\ Ahead' = Ahead /\ Window' = Window
  BY <1>3 DEF Back, Ahead, Window
<1>8. ASSUME NEW o \in -Back .. Ahead
      PROVE  \E m \in 1 .. (call.at - 1) : Window[m] = o
  <2>1. PICK m \in 1 .. Len(Window) : Window[m] = o
    BY <1>2
  <2>2. m \in 1 .. (call.at - 1)
    BY <1>2
  <2> QED BY <2>1, <2>2
<1>9. Progress'
  <2>1. bridge.fails = 0 => call.n + Ahead <= LastFetched
    <3>1. PICK m \in 1 .. (call.at - 1) : Window[m] = Ahead
      <4>1. Ahead \in -Back .. Ahead
        BY <1>2
      <4> QED BY <1>8, <4>1
    <3> QED BY <1>1, <3>1 DEF Progress
  <2>2. bridge.fails = 0 /\ call'.n > 0 => call'.n - 1 + Ahead <= LastFetched
    <3>1. CASE call'.n = call.n
      BY <1>1, <3>1 DEF Progress
    <3>2. CASE call'.n = call.n + 1
      BY <1>2, <2>1, <3>2
    <3> QED BY <1>3, <3>1, <3>2
  <2>3. \A m \in 1 .. (call'.at - 1) : FALSE
    BY <1>3
  <2> QED BY <1>4, <1>5, <1>7, <2>2, <2>3 DEF Progress
<1>10. \A i \in Entries :
          /\ cache'[i].frame = cache[i].frame /\ cache'[i].lock = 0
          /\ cache'[i].lastUse = cache[i].lastUse /\ cache'[i].free = cache[i].free
          /\ cache'[i].img = cache[i].img
  <2> SUFFICES ASSUME NEW i \in Entries
               PROVE  /\ cache'[i].frame = cache[i].frame /\ cache'[i].lock = 0
                      /\ cache'[i].lastUse = cache[i].lastUse /\ cache'[i].free = cache[i].free
                      /\ cache'[i].img = cache[i].img
    OBVIOUS
  <2>1. cache'[i] = [cache[i] EXCEPT !.lock = 0]
    BY DEF Done, Unlocked
  <2>2. cache[i] \in Kept
    BY EntryParts
  <2> QED BY <2>1, <2>2 DEF Kept
<1>11. Taken(cache') = Taken(cache) /\ Taken(cache) \subseteq Entries
  BY <1>10 DEF Taken
<1>12. \A i \in Entries : cache[i].frame \in Nat
  BY EntryParts
<1>13. Contents'
  <2>0. call.n \in Nat /\ Ahead \in Nat /\ Back \in Nat
    BY <1>2, Zenon
  <2>00. call'.n = call.n \/ call'.n = call.n + 1
    BY <1>3, Zenon
  <2>1. \A f \in Nat : f <= call.n + Ahead => f <= call'.n + Ahead
    BY <2>0, <2>00
  <2>2. \A f \in Nat : f >= call'.n - Back => f >= call.n - Back
    BY <2>0, <2>00
  <2>3. \A i \in Taken(cache) :
           /\ cache'[i].frame = cache[i].frame /\ cache'[i].lastUse = cache[i].lastUse
           /\ cache'[i].img = cache[i].img /\ cache[i].frame \in Nat
    BY <1>10, <1>11, <1>12
  <2>4. \A i \in Taken(cache) :
           /\ cache'[i].frame <= LastFetched
           /\ cache'[i].frame <= call'.n + Ahead
           /\ cache'[i].lastUse < counter
           /\ cache'[i].frame >= call'.n - Back => cache'[i].img = origin + cache'[i].frame
    BY <1>1, <2>1, <2>2, <2>3 DEF Contents
  <2>5. \A i, j \in Taken(cache) : cache'[i].frame = cache'[j].frame => i = j
    BY <1>1, <2>3 DEF Contents
  <2>6. \A i \in Entries : ~(cache'[i].lock > 0)
    BY <1>10
  <2>7. \A f \in 0 .. LastFetched :
           f >= call'.n - Back => \E i \in Taken(cache) : cache'[i].frame = f
    <3> SUFFICES ASSUME NEW f \in 0 .. LastFetched, f >= call'.n - Back
                 PROVE  \E i \in Taken(cache) : cache'[i].frame = f
      OBVIOUS
    <3>1. f \in Nat
      OBVIOUS
    <3>2. f >= call.n - Back
      BY <2>2, <3>1
    <3>3. PICK i \in Taken(cache) : cache[i].frame = f
      BY <1>1, <3>2 DEF Contents
    <3> QED BY <2>3, <3>3
  <2> QED BY <1>4, <1>5, <1>7, <1>11, <2>4, <2>5, <2>6, <2>7 DEF Contents
<1>14. \A i \in Entries : ~Asked(i)'
  BY <1>3 DEF Asked
<1>15. ASSUME NEW i \in Taken(cache), NEW j \in Taken(cache),
              cache[i].frame < call'.n - Back - 1, cache[j].frame >= call'.n - Back - 1
       PROVE  cache[i].lastUse < cache[j].lastUse
  <2>0. i \in Entries /\ j \in Entries /\ cache[i].frame \in Nat /\ cache[j].frame \in Nat
    BY <1>11, <1>12
  <2>1. CASE call'.n = call.n
    BY <1>1, <1>15, <2>1 DEF Recency
  <2>2. CASE call'.n = call.n + 1
    <3>0. cache[i].frame < call.n - Back /\ cache[j].frame >= call.n - Back
      <4>1. call'.n - Back - 1 = call.n - Back
        BY <1>2, <2>2, ReachSlides
      <4> QED BY <1>15, <4>1
    <3>1. Asked(j)
      <4>1. cache[j].frame <= call.n + Ahead
        BY <1>1 DEF Contents
      <4>2. cache[j].frame - call.n \in -Back .. Ahead
        BY <1>2, <2>0, <3>0, <4>1, WithinReach
      <4>3. PICK m \in 1 .. (call.at - 1) : Window[m] = cache[j].frame - call.n
        BY <1>8, <4>2
      <4>4. cache[j].frame = call.n + Window[m]
        <5>1. call.n + (cache[j].frame - call.n) = cache[j].frame
          BY <1>2, <2>0, WithinReach
        <5> QED BY <4>3, <5>1
      <4> QED BY <4>4 DEF Asked
    <3>2. ~Asked(i)
      <4> SUFFICES ASSUME NEW m \in 1 .. (call.at - 1), cache[i].frame = call.n + Window[m]
                   PROVE  FALSE
        BY DEF Asked
      <4>1. m \in 1 .. Len(Window)
        <5>1. call.at \in Nat /\ Len(Window) \in Nat /\ call.at <= Len(Window) + 1
          BY CallParts, <1>2
        <5> QED BY <5>1
      <4>2. Window[m] \in -Back .. Ahead
        BY <1>2, <4>1
      <4>3. call.n + Window[m] >= call.n - Back
        BY <1>2, <4>2, WithinReach
      <4>4. cache[i].frame >= call.n - Back
        BY <4>3
      <4>5. cache[i].frame \in Int /\ call.n - Back \in Int
        BY <1>2, <2>0
      <4> QED BY <3>0, <4>4, <4>5
    <3> QED BY <1>1, <3>1, <3>2 DEF Recency
  <2> QED BY <1>3, <2>1, <2>2
<1>16. Recency'
  <2>1. ASSUME NEW i \in Taken(cache'), NEW j \in Taken(cache')
        PROVE  /\ cache'[i].frame < call'.n - Back' - 1 /\ cache'[j].frame >= call'.n - Back' - 1
                     => cache'[i].lastUse < cache'[j].lastUse
               /\ ~Asked(i)' /\ Asked(j)' => cache'[i].lastUse < cache'[j].lastUse
    <3>1. i \in Taken(cache) /\ j \in Taken(cache) /\ i \in Entries /\ j \in Entries
      BY <1>11
    <3>2. ~Asked(j)'
      BY <1>14, <3>1
    <3>3. /\ cache'[i].frame = cache[i].frame /\ cache'[j].frame = cache[j].frame
          /\ cache'[i].lastUse = cache[i].lastUse /\ cache'[j].lastUse = cache[j].lastUse
      BY <1>10, <3>1
    <3> QED BY <1>7, <1>15, <3>1, <3>2, <3>3
  <2> QED BY <2>1 DEF Recency
<1> QED BY <1>1, <1>4, <1>6, <1>9, <1>13, <1>16

(* A bridge that has not fetched anything, and an empty cache.             *)
LEMMA Anew ==
    ASSUME bridge.first, bridge.fails = 0, bridge.pos = origin, origin \in Int,
           call.n = 0, call.at = 1, ~aborted,
           \A i \in Entries : cache[i].free /\ cache[i].lock = 0
    PROVE  Sound
<1>1. LastFetched = -1
  BY DEF LastFetched
<1>2. Position
  BY <1>1 DEF Position
<1>3. Progress
  BY DEF Progress
<1>4. Taken(cache) = {}
  BY DEF Taken
<1>5. Contents
  <2>1. \A i \in Entries : ~(cache[i].lock > 0)
    OBVIOUS
  <2>2. \A f \in 0 .. LastFetched : FALSE
    BY <1>1
  <2> QED BY <1>4, <2>1, <2>2 DEF Contents
<1>6. Recency
  BY <1>4 DEF Recency
<1> QED BY <1>2, <1>3, <1>5, <1>6 DEF Sound

LEMMA GoToTimeKeeps ==
    ASSUME TypeOK, NEW to \in Pictures \X BOOLEAN, GoToTime(to)
    PROVE  Sound'
<1>1. /\ bridge'.first = TRUE /\ bridge'.fails = 0 /\ bridge'.pos = to[1] /\ origin' = to[1]
      /\ call'.n = 0 /\ call'.at = 1 /\ ~aborted'
  BY Types DEF GoToTime, Bridges, Calls
<1>2. \A i \in Entries : cache'[i].free /\ cache'[i].lock = 0
  <2> SUFFICES ASSUME NEW i \in Entries PROVE cache'[i].free /\ cache'[i].lock = 0
    OBVIOUS
  <2>1. cache'[i] = [Empty EXCEPT !.img = cache[i].img]
    BY DEF GoToTime, Flushed
  <2> QED BY <2>1 DEF Empty
<1>3. to[1] \in Int
  BY DEF Pictures
<1>4. LastFetched' = -1
  BY <1>1 DEF LastFetched
<1>5. Position'
  BY <1>1, <1>3, <1>4 DEF Position
<1>6. Progress'
  BY <1>1 DEF Progress
<1>7. Taken(cache') = {}
  BY <1>2 DEF Taken
<1>8. Contents'
  <2>1. \A i \in Entries : ~(cache'[i].lock > 0)
    BY <1>2
  <2>2. \A f \in 0 .. LastFetched' : FALSE
    BY <1>4
  <2> QED BY <1>7, <2>1, <2>2 DEF Contents
<1>9. Recency'
  BY <1>7 DEF Recency
<1> QED BY <1>1, <1>5, <1>6, <1>8, <1>9 DEF Sound

LEMMA SoundStep == TypeOK /\ Sound /\ [Next]_vars => Sound'
<1> SUFFICES ASSUME TypeOK, Sound, [Next]_vars PROVE Sound'
  OBVIOUS
<1>1. CASE UNCHANGED vars
  BY <1>1 DEF vars, Sound, Position, Progress, Contents, Recency, Asked, LastFetched, Back, Ahead,
              Window, Late, Taken
<1>2. CASE Skip
  BY <1>2, SkipKeeps
<1>3. CASE Hit
  BY <1>3, HitKeeps
<1>4. CASE FetchFails
  BY <1>4, FetchFailsKeeps
<1>5. CASE AssertionFails
  BY <1>5, AssertionFailsKeeps
<1>6. CASE Done
  BY <1>6, DoneKeeps
<1>7. ASSUME NEW i \in Entries, NEW k \in Pictures, Fetch(i, k) PROVE Sound'
  BY <1>7, FetchKeeps
<1>8. ASSUME NEW i \in Entries, NEW k \in Pictures, FetchTooLate(i, k) PROVE Sound'
  BY <1>8, FetchTooLateKeeps
<1>9. ASSUME NEW to \in Pictures \X BOOLEAN, GoToTime(to) PROVE Sound'
  BY <1>9, GoToTimeKeeps
<1> QED BY <1>1, <1>2, <1>3, <1>4, <1>5, <1>6, <1>7, <1>8, <1>9 DEF Next

LEMMA SoundInit == Init => Sound
<1> SUFFICES ASSUME Init PROVE Sound
  OBVIOUS
<1>1. PICK s \in Selections, from \in Pictures : \E to \in Landing(s[1], from) :
         /\ bridge = [start |-> s[1], end |-> s[2], pos |-> to[1], held |-> to[2],
                      first |-> TRUE, next |-> 0, fails |-> 0]
         /\ origin = to[1]
  BY DEF Init
<1>2. \A to \in Landing(s[1], from) : to[1] \in Int
  <2>1. from \in Int /\ \A k \in Pictures : k \in Int
    BY DEF Pictures
  <2>2. \A to \in Landing(s[1], from) : to[1] \in Pictures
    BY DEF Landing
  <2> QED BY <2>1, <2>2
<1>3. bridge.first /\ bridge.fails = 0 /\ bridge.pos = origin /\ origin \in Int
  BY <1>1, <1>2
<1>4. call.n = 0 /\ call.at = 1 /\ ~aborted
  BY DEF Init
<1>5. \A i \in Entries : cache[i].free /\ cache[i].lock = 0
  BY DEF Init, Empty
<1> QED BY <1>3, <1>4, <1>5, Anew

THEOREM Soundness == Spec => []Sound
<1>1. Init => Sound
  BY SoundInit
<1>2. TypeOK /\ Sound /\ [Next]_vars => Sound'
  BY SoundStep
<1> QED BY <1>1, <1>2, TypeCorrect, PTL DEF Spec

-----------------------------------------------------------------------------
(* ImagesAreRight: what the filter has asked for in this call is there,    *)
(* and is the picture that has this number (getImageBase()).               *)
THEOREM RightImages == Spec => []ImagesAreRight
<1>1. TypeOK /\ Sound => ImagesAreRight
  <2> SUFFICES ASSUME TypeOK, Position, Progress, Contents,
                      NEW m \in 1 .. (call.at - 1),
                      0 <= call.n + Window[m], origin + (call.n + Window[m]) \in Pictures,
                      ~Late(origin + (call.n + Window[m]))
               PROVE  \E i \in Holding(call.n + Window[m]) :
                         cache[i].img = origin + (call.n + Window[m])
    BY DEF ImagesAreRight, Sound
  <2> DEFINE f == call.n + Window[m]
  <2>1. /\ Len(Window) \in Nat /\ call.at \in 1 .. Len(Window) + 1 /\ call.n \in Nat
        /\ Back \in Nat /\ Ahead \in Nat
    BY FilterFits, CallParts
  <2>2. m \in 1 .. Len(Window)
    BY <2>1
  <2>3. Window[m] \in -Back .. Ahead
    BY <2>2, FilterFits
  <2>4. f \in Nat /\ f >= call.n - Back
    <3>1. call.n \in Nat /\ Back \in Nat /\ Ahead \in Nat /\ 0 <= f
      BY <2>1, Zenon
    <3> QED BY <2>3, <3>1
  <2>5. LastFetched \in Int /\ bridge.fails \in Nat /\ origin \in Int
    BY NumbersAndGoals
  <2>6. f <= LastFetched
    <3>1. CASE bridge.fails = 0
      BY <3>1 DEF Progress
    <3>2. CASE bridge.fails > 0
      <4>1. ~(origin + f > origin + LastFetched)
        BY <3>2 DEF Position
      <4> HIDE DEF f
      <4> QED BY <2>4, <2>5, <4>1
    <3> QED BY <2>5, <3>1, <3>2
  <2>7. PICK i \in Taken(cache) : cache[i].frame = f
    <3>1. f \in 0 .. LastFetched
      BY <2>4, <2>5, <2>6
    <3> QED BY <2>4, <3>1 DEF Contents
  <2>8. cache[i].img = origin + f
    BY <2>4, <2>7 DEF Contents
  <2> QED BY <2>7, <2>8 DEF Holding
<1> QED BY <1>1, TypeCorrect, Soundness, PTL

(* AssertionsHold: neither of the two assertions of the cache fails unless *)
(* the editor has.                                                         *)
THEOREM NeverAborts == Spec => []AssertionsHold
<1>1. Sound => AssertionsHold
  BY DEF Sound, AssertionsHold
<1> QED BY <1>1, Soundness, PTL
=============================================================================
