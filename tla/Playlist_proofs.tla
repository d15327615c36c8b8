-------------------------- MODULE Playlist_proofs --------------------------
(***************************************************************************)
(* The array and the page hold the same playlist, whatever the user does   *)
(* with it, and the flag of a video follows the element.                   *)
(*                                                                         *)
(* The loop of swaps that a drop runs is a recursive function.  What it    *)
(* computes is proved by induction over its turns, the set of those that   *)
(* satisfy the claim being all of Nat; the rest is about sequences written *)
(* out as functions.                                                       *)
(***************************************************************************)
EXTENDS Playlist, SequenceTheorems, WellFoundedInduction, TLAPS

-----------------------------------------------------------------------------
(* Every set of numbers that is not empty has a least element.             *)
LEMMA LeastOfNat ==
  ASSUME NEW T \in SUBSET Nat, T # {}
  PROVE  \E x \in T : \A y \in T : x \leq y
<1> DEFINE R == OpToRel(<, Nat)
<1>1. IsWellFoundedOn(R, Nat)
  BY NatLessThanWellFounded
<1>2. PICK x \in T : \A y \in T : <<y, x>> \notin R
  <2> HIDE DEF R
  <2> QED BY <1>1, WFMin
<1>3. \A y \in T : ~(y < x)
  BY <1>2 DEF OpToRel
<1> QED BY <1>3

(* A set of numbers with 0 and all successors is Nat.                      *)
LEMMA SetInduction ==
  ASSUME NEW S \in SUBSET Nat, 0 \in S, \A n \in S : n + 1 \in S
  PROVE  S = Nat
<1> SUFFICES ASSUME S # Nat PROVE FALSE
  OBVIOUS
<1>1. PICK x \in Nat \ S : \A y \in Nat \ S : x \leq y
  BY LeastOfNat
<1>2. x # 0 /\ x - 1 \in Nat
  OBVIOUS
<1>3. x - 1 \in S
  BY <1>1, <1>2
<1> QED BY <1>2, <1>3

-----------------------------------------------------------------------------
(* The operations of the community modules, written out.                   *)
LEMMA RemoveAtIs ==
  ASSUME NEW S, NEW s \in Seq(S), NEW i \in 1..Len(s)
  PROVE  /\ RemoveAt(s, i) \in Seq(S) /\ Len(RemoveAt(s, i)) = Len(s) - 1
         /\ \A j \in 1..(Len(s) - 1) :
              RemoveAt(s, i)[j] = IF j < i THEN s[j] ELSE s[j + 1]
<1> DEFINE a == SubSeq(s, 1, i - 1)
           b == SubSeq(s, i + 1, Len(s))
<1>0. Len(s) \in Nat
  BY LenProperties
<1>1. /\ a \in Seq(S) /\ Len(a) = i - 1
      /\ \A j \in 1..(i - 1) : a[j] = s[j]
  BY SubSeqProperties
<1>2. /\ b \in Seq(S) /\ Len(b) = Len(s) - i
      /\ \A j \in 1..(Len(s) - i) : b[j] = s[i + j]
  BY SubSeqProperties
<1>6. RemoveAt(s, i) = a \o b
  BY DEF RemoveAt
<1> HIDE DEF a, b
<1>3. /\ a \o b \in Seq(S) /\ Len(a \o b) = Len(a) + Len(b)
      /\ \A j \in 1..(Len(a) + Len(b)) :
           (a \o b)[j] = IF j \leq Len(a) THEN a[j] ELSE b[j - Len(a)]
  BY <1>1, <1>2, ConcatProperties
<1>4. Len(a) + Len(b) = Len(s) - 1
  BY <1>0, <1>1, <1>2
<1>5. ASSUME NEW j \in 1..(Len(s) - 1)
      PROVE  (IF j \leq Len(a) THEN a[j] ELSE b[j - Len(a)]) =
                IF j < i THEN s[j] ELSE s[j + 1]
  <2>1. CASE j < i
    BY <2>1, <1>0, <1>1
  <2>2. CASE ~(j < i)
    <3>1. j - Len(a) \in 1..(Len(s) - i) /\ i + (j - Len(a)) = j + 1
      BY <2>2, <1>0, <1>1
    <3> QED BY <3>1, <2>2, <1>0, <1>1, <1>2
  <2> QED BY <2>1, <2>2
<1> QED BY <1>3, <1>4, <1>5, <1>6

LEMMA InsertAtIs ==
  ASSUME NEW S, NEW s \in Seq(S), NEW i \in 1..(Len(s) + 1), NEW e \in S
  PROVE  /\ InsertAt(s, i, e) \in Seq(S)
         /\ Len(InsertAt(s, i, e)) = Len(s) + 1
         /\ \A j \in 1..(Len(s) + 1) :
              InsertAt(s, i, e)[j] =
                IF j < i THEN s[j] ELSE IF j = i THEN e ELSE s[j - 1]
<1> DEFINE a == SubSeq(s, 1, i - 1)
           b == SubSeq(s, i, Len(s))
           m == a \o <<e>>
<1>0. Len(s) \in Nat
  BY LenProperties
<1>1. /\ a \in Seq(S) /\ Len(a) = i - 1
      /\ \A j \in 1..(i - 1) : a[j] = s[j]
  BY SubSeqProperties
<1>2. /\ b \in Seq(S) /\ Len(b) = Len(s) - i + 1
      /\ \A j \in 1..(Len(s) - i + 1) : b[j] = s[i + j - 1]
  BY SubSeqProperties
<1>3. InsertAt(s, i, e) = m \o b
  BY DEF InsertAt
<1> HIDE DEF a, b
<1>4. /\ m \in Seq(S) /\ Len(m) = i
      /\ \A j \in 1..i : m[j] = IF j < i THEN a[j] ELSE e
  <2>1. <<e>> \in Seq(S) /\ Len(<<e>>) = 1 /\ <<e>>[1] = e
    OBVIOUS
  <2>2. /\ m \in Seq(S) /\ Len(m) = Len(a) + 1
        /\ \A j \in 1..(Len(a) + 1) :
             m[j] = IF j \leq Len(a) THEN a[j] ELSE <<e>>[j - Len(a)]
    BY <2>1, <1>1, ConcatProperties
  <2>3. \A j \in 1..i : j \leq Len(a) <=> j < i
    BY <1>0, <1>1
  <2>4. \A j \in 1..i : ~(j < i) => j - Len(a) = 1
    BY <1>0, <1>1
  <2>5. Len(a) + 1 = i
    BY <1>0, <1>1
  <2> HIDE DEF m
  <2> QED BY <2>1, <2>2, <2>3, <2>4, <2>5
<1> HIDE DEF m
<1>5. /\ m \o b \in Seq(S) /\ Len(m \o b) = Len(m) + Len(b)
      /\ \A j \in 1..(Len(m) + Len(b)) :
           (m \o b)[j] = IF j \leq Len(m) THEN m[j] ELSE b[j - Len(m)]
  BY <1>2, <1>4, ConcatProperties
<1>6. Len(m) + Len(b) = Len(s) + 1
  BY <1>0, <1>2, <1>4
<1>7. ASSUME NEW j \in 1..(Len(s) + 1)
      PROVE  (IF j \leq Len(m) THEN m[j] ELSE b[j - Len(m)]) =
                IF j < i THEN s[j] ELSE IF j = i THEN e ELSE s[j - 1]
  <2>1. CASE j \leq i
    BY <2>1, <1>0, <1>1, <1>4
  <2>2. CASE ~(j \leq i)
    <3>1. j - Len(m) \in 1..(Len(s) - i + 1) /\ i + (j - Len(m)) - 1 = j - 1
      BY <2>2, <1>0, <1>4
    <3> QED BY <3>1, <2>2, <1>0, <1>2, <1>4
  <2> QED BY <2>1, <2>2
<1> QED BY <1>3, <1>5, <1>6, <1>7

(* The first position of an element, 0 without one.                        *)
Position(s, e) == SelectInSeq(s, LAMBDA x : x = e)

LEMMA FirstOf ==
  ASSUME NEW S, NEW s \in Seq(S), NEW e, NEW i \in 1..Len(s), s[i] = e,
         \A j \in 1..Len(s) : s[j] = e => j = i
  PROVE  Position(s, e) = i
<1> DEFINE I == {j \in 1..Len(s) : s[j] = e}
<1>1. I = {i}
  OBVIOUS
<1>2. Min(I) = i
  <2> HIDE DEF I
  <2>1. i \leq i
    BY LenProperties
  <2> QED BY <1>1, <2>1 DEF Min
<1> SUFFICES (IF I # {} THEN Min(I) ELSE 0) = i
  BY DEF SelectInSeq, Position
<1> HIDE DEF I
<1> QED BY <1>1, <1>2

(* Taking an element out of a sequence that has it once.                   *)
LEMMA RemoveFirstIs ==
  ASSUME NEW S, NEW s \in Seq(S), NEW e, NEW i \in 1..Len(s), s[i] = e,
         \A j \in 1..Len(s) : s[j] = e => j = i
  PROVE  RemoveFirst(s, e) = RemoveAt(s, i)
<1>1. RemoveFirst(s, e) = IF \E j \in 1..Len(s) : s[j] = e
                          THEN RemoveAt(s, Position(s, e)) ELSE s
  BY DEF RemoveFirst, Position, SelectInSeq
<1>2. Position(s, e) = i
  BY FirstOf
<1>3. \E j \in 1..Len(s) : s[j] = e
  OBVIOUS
<1> QED BY <1>1, <1>2, <1>3

(* An element that is not there is not taken out.                          *)
LEMMA RemoveFirstOther ==
  ASSUME NEW S, NEW s \in Seq(S), NEW e, e \notin ToSet(s)
  PROVE  RemoveFirst(s, e) = s
<1>1. ~(\E j \in 1..Len(s) : s[j] = e)
  BY LenProperties DEF ToSet
<1> QED BY <1>1 DEF RemoveFirst, SelectInSeq

LEMMA Insertions ==
  ASSUME NEW v, NEW w
  PROVE  /\ Before(v, w) = InsertAt(RemoveFirst(items, v),
                             Position(RemoveFirst(items, v), w), v)
         /\ After(v, w) = InsertAt(RemoveFirst(items, v),
                            1 + Position(RemoveFirst(items, v), w), v)
BY DEF Before, After, Position, SelectInSeq

-----------------------------------------------------------------------------
(* The sequence with its element i moved to position j.                    *)
Moved(s, i, j) ==
  [k \in 1..Len(s) |->
     IF k = j THEN s[i]
     ELSE IF i \leq k /\ k < j THEN s[k + 1]
     ELSE IF j < k /\ k \leq i THEN s[k - 1] ELSE s[k]]

LEMMA MovedType ==
  ASSUME NEW S, NEW s \in Seq(S), NEW i \in 1..Len(s), NEW j \in 1..Len(s)
  PROVE  Moved(s, i, j) \in Seq(S) /\ Len(Moved(s, i, j)) = Len(s)
<1>1. Len(s) \in Nat /\ \A k \in 1..Len(s) : s[k] \in S
  BY LenProperties
<1>2. \A k \in 1..Len(s) :
        /\ (i \leq k /\ k < j) => k + 1 \in 1..Len(s)
        /\ (j < k /\ k \leq i) => k - 1 \in 1..Len(s)
  BY <1>1
<1>3. \A k \in 1..Len(s) : Moved(s, i, j)[k] \in S
  BY <1>1, <1>2 DEF Moved
<1>4. /\ Moved(s, i, j) = [k \in 1..Len(s) |-> Moved(s, i, j)[k]]
      /\ DOMAIN Moved(s, i, j) = 1..Len(s)
  BY DEF Moved
<1> QED BY <1>1, <1>3, <1>4

(* A moved element leaves and enters positions, and nothing else changes.  *)
LEMMA MovedKeepsElements ==
  ASSUME NEW S, NEW s \in Seq(S), NEW i \in 1..Len(s), NEW j \in 1..Len(s)
  PROVE  /\ ToSet(Moved(s, i, j)) = ToSet(s)
         /\ IsInjective(s) => IsInjective(Moved(s, i, j))
<1> DEFINE from == [k \in 1..Len(s) |->
              IF k = j THEN i
              ELSE IF i \leq k /\ k < j THEN k + 1
              ELSE IF j < k /\ k \leq i THEN k - 1 ELSE k]
           to == [k \in 1..Len(s) |->
              IF k = i THEN j
              ELSE IF i < k /\ k \leq j THEN k - 1
              ELSE IF j \leq k /\ k < i THEN k + 1 ELSE k]
           m == Moved(s, i, j)
<1>0. Len(s) \in Nat /\ DOMAIN s = 1..Len(s)
  BY LenProperties
<1>1. \A k \in 1..Len(s) : /\ from[k] \in 1..Len(s) /\ to[k] \in 1..Len(s)
                           /\ from[to[k]] = k /\ to[from[k]] = k
  BY <1>0
<1>2. DOMAIN m = 1..Len(s) /\ \A k \in 1..Len(s) : m[k] = s[from[k]]
  BY <1>0 DEF Moved
<1> HIDE DEF from, to, m
<1>3. ToSet(m) = ToSet(s)
  BY <1>0, <1>1, <1>2 DEF ToSet
<1>4. IsInjective(s) => IsInjective(m)
  <2> SUFFICES ASSUME IsInjective(s), NEW k \in 1..Len(s), NEW l \in 1..Len(s),
                      m[k] = m[l]
               PROVE  k = l
    BY <1>2 DEF IsInjective
  <2>1. from[k] = from[l]
    BY <1>0, <1>1, <1>2 DEF IsInjective
  <2> QED BY <2>1, <1>1
<1> QED BY <1>3, <1>4 DEF m

LEMMA MovedByInsert ==
  ASSUME NEW S, NEW s \in Seq(S), NEW i \in 1..Len(s), NEW j \in 1..Len(s)
  PROVE  InsertAt(RemoveAt(s, i), j, s[i]) = Moved(s, i, j)
<1> DEFINE r == RemoveAt(s, i)
           t == InsertAt(r, j, s[i])
<1>0. Len(s) \in Nat /\ \A k \in 1..Len(s) : s[k] \in S
  BY LenProperties
<1>1. /\ r \in Seq(S) /\ Len(r) = Len(s) - 1
      /\ \A k \in 1..(Len(s) - 1) : r[k] = IF k < i THEN s[k] ELSE s[k + 1]
  BY RemoveAtIs
<1> HIDE DEF r
<1>2. j \in 1..(Len(r) + 1) /\ s[i] \in S /\ Len(r) + 1 = Len(s)
  BY <1>0, <1>1
<1>3. /\ t \in Seq(S) /\ Len(t) = Len(s)
      /\ \A k \in 1..Len(s) :
           t[k] = IF k < j THEN r[k] ELSE IF k = j THEN s[i] ELSE r[k - 1]
  <2> DEFINE e == s[i]
             u == InsertAt(r, j, e)
  <2>0. r \in Seq(S) /\ j \in 1..(Len(r) + 1) /\ e \in S
    BY <1>1, <1>2
  <2> HIDE DEF e
  <2>1. /\ u \in Seq(S) /\ Len(u) = Len(r) + 1
        /\ \A k \in 1..(Len(r) + 1) :
             u[k] = IF k < j THEN r[k] ELSE IF k = j THEN e ELSE r[k - 1]
    BY <2>0, InsertAtIs
  <2> HIDE DEF u
  <2>2. /\ u \in Seq(S) /\ Len(u) = Len(s)
        /\ \A k \in 1..Len(s) :
             u[k] = IF k < j THEN r[k] ELSE IF k = j THEN e ELSE r[k - 1]
    BY <2>1, <1>2
  <2> QED BY <2>2 DEF u, e
<1> HIDE DEF t
<1>4. ASSUME NEW k \in 1..Len(s)
      PROVE  t[k] = Moved(s, i, j)[k]
  <2>1. CASE k < j
    <3>1. k \in 1..(Len(s) - 1)
      BY <2>1, <1>0
    <3> QED BY <2>1, <3>1, <1>0, <1>1, <1>3 DEF Moved
  <2>2. CASE k > j
    <3>1. k - 1 \in 1..(Len(s) - 1) /\ (k - 1) + 1 = k
      BY <2>2, <1>0
    <3>2. r[k - 1] = IF k - 1 < i THEN s[k - 1] ELSE s[k]
      BY <3>1, <1>1
    <3> QED BY <2>2, <3>2, <1>0, <1>3 DEF Moved
  <2>3. CASE k = j
    BY <2>3, <1>0, <1>3 DEF Moved
  <2> QED BY <2>1, <2>2, <2>3, <1>0
<1>5. Moved(s, i, j) \in Seq(S) /\ Len(Moved(s, i, j)) = Len(s)
  BY MovedType
<1>6. t = Moved(s, i, j)
  BY <1>3, <1>4, <1>5, SeqEqual
<1> QED BY <1>6 DEF r, t

(* One swap moves the element on by one position.                          *)
LEMMA MovedBySwap ==
  ASSUME NEW S, NEW s \in Seq(S), NEW i \in 1..Len(s), NEW j \in 1..Len(s)
  PROVE  /\ Moved(s, i, i) = s
         /\ i \leq j /\ j < Len(s) =>
              swapVideos(Moved(s, i, j), j, j + 1) = Moved(s, i, j + 1)
         /\ 1 < j /\ j \leq i =>
              swapVideos(Moved(s, i, j), j, j - 1) = Moved(s, i, j - 1)
<1>0. Len(s) \in Nat /\ s \in [1..Len(s) -> S]
  BY LenProperties
<1>1. Moved(s, i, i) = s
  <2>1. \A k \in 1..Len(s) : Moved(s, i, i)[k] = s[k]
    BY <1>0 DEF Moved
  <2>2. DOMAIN Moved(s, i, i) = 1..Len(s)
    BY DEF Moved
  <2>3. Moved(s, i, i) = [k \in 1..Len(s) |-> Moved(s, i, i)[k]]
    BY DEF Moved
  <2> QED BY <2>1, <2>2, <2>3, <1>0
<1> DEFINE m == Moved(s, i, j)
<1>2. m \in Seq(S) /\ Len(m) = Len(s) /\ DOMAIN m = 1..Len(s)
  BY MovedType DEF Moved
<1>3. \A k \in 1..Len(s) : m[k] = IF k = j THEN s[i]
                                  ELSE IF i \leq k /\ k < j THEN s[k + 1]
                                  ELSE IF j < k /\ k \leq i THEN s[k - 1]
                                  ELSE s[k]
  BY DEF Moved
<1> HIDE DEF m
<1>4. ASSUME NEW a \in 1..Len(s), NEW b \in 1..Len(s)
      PROVE  swapVideos(m, a, b) =
               [k \in 1..Len(s) |->
                  IF k = a THEN m[b] ELSE IF k = b THEN m[a] ELSE m[k]]
  <2>1. ~(a > Len(m) \/ b > Len(m))
    BY <1>0, <1>2
  <2>2. \A k \in 1..Len(s) : At(m, k) = m[k]
    BY <1>2 DEF At
  <2> QED BY <2>1, <2>2, <1>2 DEF swapVideos
<1>5. ASSUME i \leq j, j < Len(s)
      PROVE  swapVideos(m, j, j + 1) = Moved(s, i, j + 1)
  <2>1. j + 1 \in 1..Len(s)
    BY <1>5, <1>0
  <2>2. \A k \in 1..Len(s) :
          (IF k = j THEN m[j + 1] ELSE IF k = j + 1 THEN m[j] ELSE m[k]) =
             IF k = j + 1 THEN s[i]
             ELSE IF i \leq k /\ k < j + 1 THEN s[k + 1]
             ELSE IF j + 1 < k /\ k \leq i THEN s[k - 1] ELSE s[k]
    BY <1>5, <2>1, <1>0, <1>3
  <2>3. swapVideos(m, j, j + 1) =
          [k \in 1..Len(s) |-> IF k = j THEN m[j + 1]
                               ELSE IF k = j + 1 THEN m[j] ELSE m[k]]
    BY <2>1, <1>4
  <2> QED BY <2>2, <2>3 DEF Moved
<1>6. ASSUME 1 < j, j \leq i
      PROVE  swapVideos(m, j, j - 1) = Moved(s, i, j - 1)
  <2>1. j - 1 \in 1..Len(s)
    BY <1>6, <1>0
  <2>2. \A k \in 1..Len(s) :
          (IF k = j THEN m[j - 1] ELSE IF k = j - 1 THEN m[j] ELSE m[k]) =
             IF k = j - 1 THEN s[i]
             ELSE IF i \leq k /\ k < j - 1 THEN s[k + 1]
             ELSE IF j - 1 < k /\ k \leq i THEN s[k - 1] ELSE s[k]
    BY <1>6, <2>1, <1>0, <1>3
  <2>3. swapVideos(m, j, j - 1) =
          [k \in 1..Len(s) |-> IF k = j THEN m[j - 1]
                               ELSE IF k = j - 1 THEN m[j] ELSE m[k]]
    BY <2>1, <1>4
  <2> QED BY <2>2, <2>3 DEF Moved
<1> QED BY <1>1, <1>5, <1>6 DEF m

-----------------------------------------------------------------------------
(* The loop of swaps after a drop, over any distance, does to the array    *)
(* what one removal and one insertion do to the items: it moves one video  *)
(* to the place of the drop and keeps all others in their order.           *)
THEOREM LoopOfSwaps ==
  ASSUME NEW S, loadedVideos \in Seq(S),
         NEW i \in 1..Len(loadedVideos), NEW j \in 1..Len(loadedVideos)
  PROVE  onDropped(i, j) = Moved(loadedVideos, i, j)
<1> DEFINE step == IF i < j THEN 1 ELSE -1
           turns == step * (j - i)
           after == CHOOSE f : f = [n \in 0..turns |->
                      IF n = 0 THEN loadedVideos
                      ELSE swapVideos(f[n - 1], i + step * (n - 1), i + step * n)]
           moved == [n \in 0..turns |-> Moved(loadedVideos, i, i + step * n)]
<1>0. Len(loadedVideos) \in Nat /\ turns \in Nat
  BY LenProperties
<1>1. onDropped(i, j) = after[turns]
  BY DEF onDropped
<1>2. ASSUME NEW n \in 0..turns, n # 0
      PROVE  Moved(loadedVideos, i, i + step * n) =
               swapVideos(Moved(loadedVideos, i, i + step * (n - 1)),
                          i + step * (n - 1), i + step * n)
  <2>1. CASE i < j
    <3>1. /\ i + step * (n - 1) \in 1..Len(loadedVideos)
          /\ i \leq i + step * (n - 1) /\ i + step * (n - 1) < Len(loadedVideos)
          /\ i + step * n = (i + step * (n - 1)) + 1
      BY <2>1, <1>0, <1>2
    <3> HIDE DEF step
    <3> QED BY <3>1, MovedBySwap
  <2>2. CASE ~(i < j)
    <3>1. /\ i + step * (n - 1) \in 1..Len(loadedVideos)
          /\ i + step * (n - 1) \leq i /\ 1 < i + step * (n - 1)
          /\ i + step * n = (i + step * (n - 1)) - 1
      BY <2>2, <1>0, <1>2
    <3> HIDE DEF step
    <3> QED BY <3>1, MovedBySwap
  <2> QED BY <2>1, <2>2
<1>3. Moved(loadedVideos, i, i + step * 0) = loadedVideos
  <2>1. i + step * 0 = i
    OBVIOUS
  <2> QED BY <2>1, MovedBySwap
<1> HIDE DEF step, turns
<1>4. after = [n \in 0..turns |->
                 IF n = 0 THEN loadedVideos
                 ELSE swapVideos(after[n - 1], i + step * (n - 1), i + step * n)]
  <2>1. \A n \in 0..turns : n # 0 =>
          moved[n - 1] = Moved(loadedVideos, i, i + step * (n - 1))
    BY <1>0
  <2>2. moved = [n \in 0..turns |->
                  IF n = 0 THEN loadedVideos
                  ELSE swapVideos(moved[n - 1], i + step * (n - 1), i + step * n)]
    BY <2>1, <1>2, <1>3
  <2> HIDE DEF moved
  <2> QED BY <2>2
<1> HIDE DEF after
<1> DEFINE T == {n \in Nat : n \leq turns =>
                   after[n] = Moved(loadedVideos, i, i + step * n)}
<1>5. 0 \in T
  BY <1>0, <1>3, <1>4
<1>6. ASSUME NEW n \in T
      PROVE  n + 1 \in T
  <2> SUFFICES ASSUME n + 1 \leq turns
               PROVE  after[n + 1] = Moved(loadedVideos, i, i + step * (n + 1))
    OBVIOUS
  <2>1. n + 1 \in 0..turns /\ n + 1 # 0 /\ (n + 1) - 1 = n /\ n \leq turns
    BY <1>0
  <2>2. after[n + 1] =
          swapVideos(after[n], i + step * n, i + step * (n + 1))
    BY <2>1, <1>4
  <2>3. after[n] = Moved(loadedVideos, i, i + step * n)
    BY <2>1
  <2> QED BY <2>1, <2>2, <2>3, <1>2
<1>7. turns \in T
  <2> HIDE DEF T
  <2>1. T \in SUBSET Nat
    BY DEF T
  <2> QED BY <2>1, <1>0, <1>5, <1>6, SetInduction
<1>8. i + step * turns = j
  BY <1>0 DEF turns, step
<1> QED BY <1>0, <1>1, <1>7, <1>8

-----------------------------------------------------------------------------
(* What the operations do to the items of the page, each of which is there *)
(* once.                                                                   *)
LEMMA IndexOfItem ==
  ASSUME items \in Seq(Videos), NEW v \in ToSet(items)
  PROVE  /\ currentItemIdx(v) \in 1..Len(items)
         /\ items[currentItemIdx(v)] = v
<1>1. DOMAIN items = 1..Len(items)
  BY LenProperties
<1>2. \E i \in DOMAIN items : items[i] = v
  BY DEF ToSet
<1> QED BY <1>1, <1>2 DEF currentItemIdx

LEMMA MovedItem ==
  ASSUME items \in Seq(Videos), IsInjective(items),
         NEW i \in 1..Len(items), NEW j \in 1..Len(items)
  PROVE  /\ i < j => After(items[i], items[j]) = Moved(items, i, j)
         /\ j < i => Before(items[i], items[j]) = Moved(items, i, j)
<1> DEFINE v == items[i]
           w == items[j]
           r == RemoveAt(items, i)
<1>0. Len(items) \in Nat /\ DOMAIN items = 1..Len(items)
  BY LenProperties
<1>1. RemoveFirst(items, v) = r
  <2>1. \A k \in 1..Len(items) : items[k] = items[i] => k = i
    BY <1>0 DEF IsInjective
  <2> QED BY <2>1, RemoveFirstIs
<1>2. /\ r \in Seq(Videos) /\ Len(r) = Len(items) - 1
      /\ \A k \in 1..(Len(items) - 1) :
           r[k] = IF k < i THEN items[k] ELSE items[k + 1]
  BY RemoveAtIs
<1>3. InsertAt(r, j, v) = Moved(items, i, j)
  BY MovedByInsert
<1> HIDE DEF r, v, w
<1>4. ASSUME i < j PROVE Position(r, w) = j - 1
  <2>1. j - 1 \in 1..Len(r) /\ r[j - 1] = w
    BY <1>4, <1>0, <1>2 DEF w
  <2>2. ASSUME NEW k \in 1..Len(r), r[k] = w PROVE k = j - 1
    <3>1. k \in 1..(Len(items) - 1)
      BY <1>0, <1>2
    <3>2. CASE k < i
      <4>1. items[k] = items[j] /\ k \in DOMAIN items /\ j \in DOMAIN items
        BY <2>2, <3>1, <3>2, <1>0, <1>2 DEF w
      <4>2. k = j
        BY <4>1 DEF IsInjective
      <4> QED BY <4>2, <3>2, <1>4, <1>0
    <3>3. CASE ~(k < i)
      <4>1. /\ items[k + 1] = items[j]
            /\ k + 1 \in DOMAIN items /\ j \in DOMAIN items
        BY <2>2, <3>1, <3>3, <1>0, <1>2 DEF w
      <4>2. k + 1 = j
        BY <4>1 DEF IsInjective
      <4> QED BY <4>2, <3>1, <1>0
    <3> QED BY <3>2, <3>3
  <2> QED BY <2>1, <2>2, <1>2, FirstOf
<1>5. ASSUME j < i PROVE Position(r, w) = j
  <2>1. j \in 1..Len(r) /\ r[j] = w
    BY <1>5, <1>0, <1>2 DEF w
  <2>2. ASSUME NEW k \in 1..Len(r), r[k] = w PROVE k = j
    <3>1. k \in 1..(Len(items) - 1)
      BY <1>0, <1>2
    <3>2. CASE k < i
      <4>1. items[k] = items[j] /\ k \in DOMAIN items /\ j \in DOMAIN items
        BY <2>2, <3>1, <3>2, <1>0, <1>2 DEF w
      <4> QED BY <4>1 DEF IsInjective
    <3>3. CASE ~(k < i)
      <4>1. /\ items[k + 1] = items[j]
            /\ k + 1 \in DOMAIN items /\ j \in DOMAIN items
        BY <2>2, <3>1, <3>3, <1>0, <1>2 DEF w
      <4>2. k + 1 = j
        BY <4>1 DEF IsInjective
      <4> QED BY <4>2, <3>1, <3>3, <1>5, <1>0
    <3> QED BY <3>2, <3>3
  <2> QED BY <2>1, <2>2, <1>2, FirstOf
<1>6. /\ Before(v, w) = InsertAt(r, Position(r, w), v)
      /\ After(v, w) = InsertAt(r, 1 + Position(r, w), v)
  BY <1>1, Insertions
<1>7. i < j => After(v, w) = Moved(items, i, j)
  <2>1. 1 + (j - 1) = j
    BY <1>0
  <2> QED BY <2>1, <1>3, <1>4, <1>6
<1>8. j < i => Before(v, w) = Moved(items, i, j)
  BY <1>3, <1>5, <1>6
<1> QED BY <1>7, <1>8 DEF v, w

LEMMA RemovedItem ==
  ASSUME items \in Seq(Videos), IsInjective(items),
         NEW i \in 1..Len(items)
  PROVE  /\ RemoveFirst(items, items[i]) = RemoveAt(items, i)
         /\ RemoveAt(items, i) \in Seq(Videos)
         /\ IsInjective(RemoveAt(items, i))
         /\ ToSet(RemoveAt(items, i)) = ToSet(items) \ {items[i]}
<1> DEFINE r == RemoveAt(items, i)
<1>0. Len(items) \in Nat /\ DOMAIN items = 1..Len(items)
  BY LenProperties
<1>1. RemoveFirst(items, items[i]) = r
  <2>1. \A k \in 1..Len(items) : items[k] = items[i] => k = i
    BY <1>0 DEF IsInjective
  <2> QED BY <2>1, RemoveFirstIs
<1>2. /\ r \in Seq(Videos) /\ Len(r) = Len(items) - 1
      /\ \A k \in 1..(Len(items) - 1) :
           r[k] = IF k < i THEN items[k] ELSE items[k + 1]
  BY RemoveAtIs
<1> HIDE DEF r
<1>3. DOMAIN r = 1..(Len(items) - 1)
  BY <1>2, LenProperties
<1> DEFINE at == [k \in 1..(Len(items) - 1) |-> IF k < i THEN k ELSE k + 1]
<1>4. /\ \A k \in DOMAIN r : /\ at[k] \in DOMAIN items /\ at[k] # i
                             /\ r[k] = items[at[k]]
      /\ \A k \in DOMAIN r, l \in DOMAIN r : at[k] = at[l] => k = l
  BY <1>0, <1>2, <1>3
<1>5. \A k \in DOMAIN items : k # i => \E l \in DOMAIN r : at[l] = k
  <2> SUFFICES ASSUME NEW k \in DOMAIN items, k # i
               PROVE  \E l \in DOMAIN r : at[l] = k
    OBVIOUS
  <2>1. CASE k < i
    BY <2>1, <1>0, <1>3
  <2>2. CASE ~(k < i)
    <3>1. k - 1 \in DOMAIN r /\ at[k - 1] = k
      BY <2>2, <1>0, <1>3
    <3> QED BY <3>1
  <2> QED BY <2>1, <2>2
<1> HIDE DEF at
<1>6. IsInjective(r)
  BY <1>4 DEF IsInjective
<1>7. ToSet(r) = ToSet(items) \ {items[i]}
  <2>1. \A k \in DOMAIN items : items[k] = items[i] => k = i
    BY <1>0 DEF IsInjective
  <2>2. \A x \in ToSet(r) : x \in ToSet(items) \ {items[i]}
    BY <2>1, <1>4 DEF ToSet
  <2>3. \A x \in ToSet(items) \ {items[i]} : x \in ToSet(r)
    BY <1>4, <1>5 DEF ToSet
  <2> QED BY <2>2, <2>3
<1> QED BY <1>1, <1>2, <1>6, <1>7 DEF r

LEMMA AppendedItem ==
  ASSUME NEW S, NEW s \in Seq(S), NEW v \in S
  PROVE  /\ Append(s, v) \in Seq(S) /\ ToSet(Append(s, v)) = ToSet(s) \cup {v}
         /\ Append(s, v) # <<>> /\ Append(s, v)[Len(Append(s, v))] = v
         /\ IsInjective(s) /\ v \notin ToSet(s) => IsInjective(Append(s, v))
<1> DEFINE a == Append(s, v)
<1>0. Len(s) \in Nat /\ DOMAIN s = 1..Len(s)
  BY LenProperties
<1>1. /\ a \in Seq(S) /\ Len(a) = Len(s) + 1 /\ a[Len(s) + 1] = v
      /\ \A k \in 1..Len(s) : a[k] = s[k]
  BY <1>0
<1> HIDE DEF a
<1>2. DOMAIN a = 1..(Len(s) + 1)
  BY <1>1, LenProperties
<1>3. ToSet(a) = ToSet(s) \cup {v}
  <2>1. \A x \in ToSet(a) : x \in ToSet(s) \cup {v}
    BY <1>0, <1>1, <1>2 DEF ToSet
  <2>2. \A x \in ToSet(s) : x \in ToSet(a)
    BY <1>0, <1>1, <1>2 DEF ToSet
  <2>3. v \in ToSet(a)
    <3>1. Len(s) + 1 \in DOMAIN a
      BY <1>0, <1>2
    <3> QED BY <3>1, <1>1 DEF ToSet
  <2> QED BY <2>1, <2>2, <2>3
<1>4. ASSUME IsInjective(s), v \notin ToSet(s)
      PROVE  IsInjective(a)
  <2> SUFFICES ASSUME NEW k \in 1..(Len(s) + 1), NEW l \in 1..(Len(s) + 1),
                      a[k] = a[l]
               PROVE  k = l
    BY <1>2 DEF IsInjective
  <2>1. \A m \in 1..Len(s) : s[m] # v
    BY <1>0, <1>4 DEF ToSet
  <2>2. \A m, n \in 1..Len(s) : s[m] = s[n] => m = n
    BY <1>0, <1>4 DEF IsInjective
  <2> QED BY <2>1, <2>2, <1>0, <1>1
<1>5. a # <<>> /\ a[Len(a)] = v
  BY <1>0, <1>1
<1> QED BY <1>1, <1>3, <1>4, <1>5 DEF a

-----------------------------------------------------------------------------
(***************************************************************************)
(* The inductive invariant.  Until a removed item is back, the array and   *)
(* the page agree and no item is there twice; only videos that were added  *)
(* are dragged, played or flagged, so that a new one starts unflagged; and *)
(* the callback that runs last flags what the element was given last.      *)
(***************************************************************************)
Known == ToSet(items) \cup removed

Ordered == loadedVideos = items /\ IsInjective(items)

AllKnown == /\ playing \subseteq Known /\ ToSet(pending) \subseteq Known
            /\ src \in Known \cup {None} /\ currentDrag \in Known \cup {None}

LastFlagsSource ==
  /\ pending # <<>> => pending[Len(pending)] = src
  /\ pending = <<>> => \A v \in ToSet(items) : v \in playing <=> v = src

Inv == ~restored => Ordered /\ AllKnown /\ LastFlagsSource
IInv == TypeOK /\ Inv

LEMMA InitIInv == Init => IInv
<1> SUFFICES ASSUME Init PROVE IInv
  OBVIOUS
<1>0. <<>> \in Seq(Videos \cup {None}) /\ <<>> \in Seq(Videos)
  OBVIOUS
<1>1. TypeOK
  BY <1>0 DEF Init, TypeOK
<1>2. ToSet(<<>>) = {} /\ IsInjective(<<>>)
  BY DEF ToSet, IsInjective
<1>3. Inv
  BY <1>2 DEF Init, Inv, Ordered, AllKnown, LastFlagsSource, Known
<1> QED BY <1>1, <1>3 DEF IInv

(* A step that only puts the items into another order.                     *)
Reordered ==
  /\ items' \in Seq(Videos) /\ IsInjective(items)'
  /\ ToSet(items') = ToSet(items) /\ loadedVideos' = items'

LEMMA ReorderedKeepsIInv ==
  ASSUME IInv, ~restored, Reordered, UNCHANGED <<removed, restored, media>>,
         currentDrag' \in Known \cup {None}
  PROVE  IInv'
<1>1. TypeOK'
  <2>1. items' \in Seq(Videos \cup {None})
    BY DEF Reordered
  <2>2. currentDrag' \in Videos \cup {None}
    BY LenProperties DEF IInv, TypeOK, Known, ToSet
  <2> QED BY <2>1, <2>2 DEF IInv, TypeOK, Reordered, media
<1>2. Inv'
  BY DEF IInv, Inv, Ordered, AllKnown, LastFlagsSource, Known, Reordered, media
<1> QED BY <1>1, <1>2 DEF IInv

(* Neighbours are exchanged.                                               *)
LEMMA MoveReorders ==
  ASSUME IInv, ~restored, NEW i \in 1..Len(items), NEW j \in 1..Len(items),
         items' = Moved(items, i, j), loadedVideos' = items'
  PROVE  Reordered
<1>1. items \in Seq(Videos) /\ IsInjective(items)
  BY DEF IInv, TypeOK, Inv, Ordered
<1> QED BY <1>1, MovedType, MovedKeepsElements DEF Reordered

LEMMA SwapIsMove ==
  ASSUME NEW S, NEW s \in Seq(S), NEW i \in 1..Len(s)
  PROVE  /\ i < Len(s) => swapVideos(s, i, i + 1) = Moved(s, i, i + 1)
         /\ 1 < i => swapVideos(s, i, i - 1) = Moved(s, i, i - 1)
<1>1. Len(s) \in Nat
  BY LenProperties
<1>2. Moved(s, i, i) = s
  BY MovedBySwap
<1>3. i < Len(s) => swapVideos(Moved(s, i, i), i, i + 1) = Moved(s, i, i + 1)
  BY <1>1, MovedBySwap
<1>4. 1 < i => swapVideos(Moved(s, i, i), i, i - 1) = Moved(s, i, i - 1)
  BY <1>1, MovedBySwap
<1> QED BY <1>2, <1>3, <1>4

LEMMA DropReorders ==
  ASSUME IInv, ~restored, NEW v \in ToSet(items), NEW w \in ToSet(items),
         ondrop(v, w)
  PROVE  Reordered
<1> DEFINE i == currentItemIdx(v)
           j == currentItemIdx(w)
<1>1. /\ items \in Seq(Videos) /\ IsInjective(items) /\ loadedVideos = items
      /\ DOMAIN items = 1..Len(items) /\ Len(items) \in Nat
  BY LenProperties DEF IInv, TypeOK, Inv, Ordered
<1>2. /\ i \in 1..Len(items) /\ j \in 1..Len(items)
      /\ items[i] = v /\ items[j] = w
  BY <1>1, IndexOfItem
<1>3. v # None
  BY <1>1, PlaylistAssumption DEF ToSet
<1>4. CASE v = w
  <2>1. UNCHANGED <<items, loadedVideos>>
    BY <1>4 DEF ondrop
  <2> QED BY <2>1, <1>1 DEF Reordered
<1>5. CASE v # w
  <2>1. /\ items' = IF i < j THEN After(v, w) ELSE Before(v, w)
        /\ loadedVideos' = onDropped(i, j)
    BY <1>3, <1>5 DEF ondrop
  <2> HIDE DEF i, j
  <2>2. i # j
    BY <1>2, <1>5
  <2>3. items' = Moved(items, i, j)
    <3>1. CASE i < j
      BY <3>1, <2>1, <1>1, <1>2, MovedItem
    <3>2. CASE j < i
      BY <3>2, <2>1, <1>1, <1>2, MovedItem
    <3> QED BY <3>1, <3>2, <2>2, <1>2
  <2>4. loadedVideos' = Moved(items, i, j)
    <3>1. loadedVideos \in Seq(Videos)
      BY <1>1
    <3>2. onDropped(i, j) = Moved(loadedVideos, i, j)
      BY <3>1, <1>1, <1>2, LoopOfSwaps
    <3> QED BY <3>2, <2>1, <1>1
  <2> QED BY <2>3, <2>4, <1>2, MoveReorders
<1> QED BY <1>4, <1>5

-----------------------------------------------------------------------------
(* The steps that change the playlist, one by one.                         *)
LEMMA AddKeepsIInv ==
  ASSUME IInv, ~restored, NEW v \in Videos, addVideo(v)
  PROVE  IInv'
<1>1. /\ items \in Seq(Videos) /\ loadedVideos = items /\ IsInjective(items)
  BY DEF IInv, TypeOK, Inv, Ordered
<1>2. /\ items' = Append(items, v) /\ loadedVideos' = items'
      /\ v \notin Known /\ currentDrag' = None
      /\ UNCHANGED <<removed, restored, media>>
  BY <1>1 DEF addVideo, Known
<1>3. /\ items' \in Seq(Videos) /\ ToSet(items') = ToSet(items) \cup {v}
      /\ IsInjective(items')
  BY <1>1, <1>2, AppendedItem DEF Known
<1>4. TypeOK'
  <2>1. items' \in Seq(Videos \cup {None})
    BY <1>3
  <2> QED BY <2>1, <1>2, <1>3 DEF IInv, TypeOK, media
<1>5. Known' = Known \cup {v}
  BY <1>2, <1>3 DEF Known
<1>6. AllKnown'
  BY <1>2, <1>5 DEF IInv, Inv, AllKnown, media
<1>7. LastFlagsSource'
  <2>1. v \notin playing /\ v # src
    BY <1>2, PlaylistAssumption DEF IInv, Inv, AllKnown
  <2> QED BY <2>1, <1>2, <1>3 DEF IInv, Inv, LastFlagsSource, media
<1> QED BY <1>2, <1>3, <1>4, <1>6, <1>7 DEF IInv, Inv, Ordered

LEMMA MoveUpKeepsIInv ==
  ASSUME IInv, ~restored, NEW v \in Videos, moveUp(v)
  PROVE  IInv'
<1> DEFINE i == currentItemIdx(v)
<1>1. /\ items \in Seq(Videos) /\ loadedVideos = items /\ IsInjective(items)
      /\ Len(items) \in Nat
  BY LenProperties DEF IInv, TypeOK, Inv, Ordered
<1>2. /\ v \in ToSet(items) /\ i > 1
      /\ loadedVideos' = swapVideos(items, i, i - 1)
      /\ items' = Before(v, items[i - 1])
      /\ UNCHANGED <<removed, restored, currentDrag, media>>
  BY <1>1 DEF moveUp
<1>3. i \in 1..Len(items) /\ items[i] = v
  BY <1>1, <1>2, IndexOfItem
<1> HIDE DEF i
<1>4. i - 1 \in 1..Len(items) /\ i - 1 < i
  BY <1>1, <1>2, <1>3
<1>5. items' = Moved(items, i, i - 1)
  BY <1>1, <1>2, <1>3, <1>4, MovedItem
<1>6. loadedVideos' = Moved(items, i, i - 1)
  BY <1>1, <1>2, <1>3, SwapIsMove
<1>7. Reordered
  BY <1>3, <1>4, <1>5, <1>6, MoveReorders
<1>8. currentDrag' \in Known \cup {None}
  BY <1>2 DEF IInv, Inv, AllKnown
<1> QED BY <1>2, <1>7, <1>8, ReorderedKeepsIInv

LEMMA MoveDownKeepsIInv ==
  ASSUME IInv, ~restored, NEW v \in Videos, moveDown(v)
  PROVE  IInv'
<1> DEFINE i == currentItemIdx(v)
<1>1. /\ items \in Seq(Videos) /\ loadedVideos = items /\ IsInjective(items)
      /\ Len(items) \in Nat
  BY LenProperties DEF IInv, TypeOK, Inv, Ordered
<1>2. /\ v \in ToSet(items) /\ i < Len(items)
      /\ loadedVideos' = swapVideos(items, i, i + 1)
      /\ items' = After(v, items[i + 1])
      /\ UNCHANGED <<removed, restored, currentDrag, media>>
  BY <1>1 DEF moveDown
<1>3. i \in 1..Len(items) /\ items[i] = v
  BY <1>1, <1>2, IndexOfItem
<1> HIDE DEF i
<1>4. i + 1 \in 1..Len(items) /\ i < i + 1
  BY <1>1, <1>2, <1>3
<1>5. items' = Moved(items, i, i + 1)
  BY <1>1, <1>2, <1>3, <1>4, MovedItem
<1>6. loadedVideos' = Moved(items, i, i + 1)
  BY <1>1, <1>2, <1>3, SwapIsMove
<1>7. Reordered
  BY <1>3, <1>4, <1>5, <1>6, MoveReorders
<1>8. currentDrag' \in Known \cup {None}
  BY <1>2 DEF IInv, Inv, AllKnown
<1> QED BY <1>2, <1>7, <1>8, ReorderedKeepsIInv

LEMMA DragKeepsIInv ==
  ASSUME IInv, ~restored, NEW v \in Videos, NEW w \in Videos, dragItem(v, w)
  PROVE  IInv'
<1>1. /\ v \in ToSet(items) /\ w \in ToSet(items)
      /\ currentDrag' = v /\ ondrop(v, w)
      /\ UNCHANGED <<removed, restored, media>>
  BY DEF dragItem
<1>2. Reordered
  BY <1>1, DropReorders
<1>3. currentDrag' \in Known \cup {None}
  BY <1>1 DEF Known
<1> QED BY <1>1, <1>2, <1>3, ReorderedKeepsIInv

(* Something foreign is dropped: either an item of the page moves, or a    *)
(* removed one is back and only the types are left.                        *)
LEMMA DragForeignKeepsIInv ==
  ASSUME IInv, ~restored, NEW w \in Videos, dragForeign(w)
  PROVE  IInv'
<1> DEFINE v == currentDrag
<1>1. /\ w \in ToSet(items) /\ ondrop(v, w)
      /\ restored' = (restored \/ v \in removed)
      /\ UNCHANGED <<removed, currentDrag, media>>
  BY DEF dragForeign
<1>2. /\ items \in Seq(Videos) /\ loadedVideos = items /\ IsInjective(items)
      /\ DOMAIN items = 1..Len(items) /\ Len(items) \in Nat
  BY LenProperties DEF IInv, TypeOK, Inv, Ordered
<1>3. v \in Known \cup {None}
  BY DEF IInv, Inv, AllKnown
<1>4. CASE v \in ToSet(items) /\ v \notin removed
  <2>1. Reordered
    BY <1>1, <1>4, DropReorders
  <2>2. UNCHANGED <<removed, restored, media>> /\ currentDrag' \in Known \cup {None}
    BY <1>1, <1>3, <1>4 DEF IInv, TypeOK
  <2> QED BY <2>1, <2>2, ReorderedKeepsIInv
<1>5. CASE v = None
  <2>1. UNCHANGED <<items, loadedVideos>>
    BY <1>1, <1>5 DEF ondrop
  <2>2. None \notin removed
    BY PlaylistAssumption DEF IInv, TypeOK
  <2>3. UNCHANGED <<items, loadedVideos, removed, restored, currentDrag, media>>
    BY <1>1, <1>5, <2>1, <2>2 DEF IInv, TypeOK
  <2>4. TypeOK'
    BY <2>3 DEF IInv, TypeOK, media
  <2>5. Inv'
    BY <2>3 DEF IInv, Inv, Ordered, AllKnown, LastFlagsSource, Known, media
  <2> QED BY <2>4, <2>5 DEF IInv
<1>6. CASE v \in removed
  <2>1. restored' = TRUE
    BY <1>1, <1>6
  <2>2. items' \in Seq(Videos) /\ loadedVideos' \in Seq(Videos)
    <3> DEFINE i == currentItemIdx(v)
               j == currentItemIdx(w)
    <3>1. j \in 1..Len(items) /\ items[j] = w
      BY <1>1, <1>2, IndexOfItem
    <3>2. i \in 1..Len(items)
      BY <1>2, <3>1 DEF currentItemIdx
    <3>3. v # None /\ v \in Videos
      BY <1>6, PlaylistAssumption DEF IInv, TypeOK
    <3>4. CASE v = w
      <4>1. UNCHANGED <<items, loadedVideos>>
        BY <1>1, <3>4 DEF ondrop
      <4> QED BY <4>1, <1>2
    <3>5. CASE v # w
      <4>1. /\ items' = IF i < j THEN After(v, w) ELSE Before(v, w)
            /\ loadedVideos' = onDropped(i, j)
        BY <1>1, <3>3, <3>5 DEF ondrop
      <4> HIDE DEF i, j, v
      <4>2. loadedVideos' \in Seq(Videos)
        <5>1. loadedVideos \in Seq(Videos)
          BY <1>2
        <5> QED BY <5>1, <4>1, <1>2, <3>1, <3>2, LoopOfSwaps, MovedType
      <4>3. \A s \in Seq(Videos) :
              Len(s) \in Nat /\ \A n \in 1..(Len(s) + 1) : InsertAt(s, n, v) \in Seq(Videos)
        BY <3>3, LenProperties, InsertAtIs
      <4>4. PICK s \in Seq(Videos) :
              /\ s = RemoveFirst(items, v)
              /\ Position(s, w) \in 1..Len(s)
        <5>1. CASE v \notin ToSet(items)
          <6>1. RemoveFirst(items, v) = items
            BY <5>1, <1>2, RemoveFirstOther
          <6>2. Position(items, w) = j
            <7>1. \A k \in 1..Len(items) : items[k] = w => k = j
              BY <1>2, <3>1 DEF IsInjective
            <7> QED BY <7>1, <1>2, <3>1, FirstOf
          <6> QED BY <6>1, <6>2, <1>2, <3>1
        <5>2. CASE v \in ToSet(items)
          <6> DEFINE k == currentItemIdx(v)
                     r == RemoveAt(items, k)
          <6>1. k \in 1..Len(items) /\ items[k] = v
            BY <5>2, <1>2, IndexOfItem
          <6> HIDE DEF k
          <6>2. /\ RemoveFirst(items, v) = r /\ r \in Seq(Videos)
                /\ IsInjective(r) /\ w \in ToSet(r)
            BY <6>1, <1>1, <1>2, <3>5, RemovedItem
          <6> HIDE DEF r
          <6>3. PICK n \in 1..Len(r) : r[n] = w
            BY <6>2, LenProperties DEF ToSet
          <6>4. \A m \in 1..Len(r) : r[m] = w => m = n
            BY <6>2, <6>3, LenProperties DEF IsInjective
          <6>5. Position(r, w) = n
            BY <6>2, <6>3, <6>4, FirstOf
          <6> QED BY <6>2, <6>3, <6>5
        <5> QED BY <5>1, <5>2
      <4>5. /\ Position(s, w) \in 1..(Len(s) + 1)
            /\ 1 + Position(s, w) \in 1..(Len(s) + 1)
        BY <4>3, <4>4
      <4>6. items' \in {InsertAt(s, Position(s, w), v),
                        InsertAt(s, 1 + Position(s, w), v)}
        BY <4>1, <4>4, Insertions
      <4> QED BY <4>2, <4>3, <4>5, <4>6
    <3> QED BY <3>4, <3>5
  <2>3. TypeOK'
    <3>1. loadedVideos' \in Seq(Videos \cup {None})
      BY <2>2
    <3> QED BY <3>1, <2>1, <2>2, <1>1 DEF IInv, TypeOK, media
  <2> QED BY <2>1, <2>3 DEF IInv, Inv
<1> QED BY <1>3, <1>4, <1>5, <1>6 DEF Known

LEMMA RemoveKeepsIInv ==
  ASSUME IInv, ~restored, NEW v \in Videos, remove(v)
  PROVE  IInv'
<1> DEFINE i == currentItemIdx(v)
<1>1. /\ items \in Seq(Videos) /\ loadedVideos = items /\ IsInjective(items)
      /\ Len(items) \in Nat
  BY LenProperties DEF IInv, TypeOK, Inv, Ordered
<1>2. /\ v \in ToSet(items)
      /\ loadedVideos' = IF i \leq Len(items) THEN RemoveAt(items, i) ELSE items
      /\ items' = RemoveFirst(items, v) /\ removed' = removed \cup {v}
      /\ UNCHANGED <<restored, currentDrag, playing, src, pending>>
  BY <1>1 DEF remove
<1>3. i \in 1..Len(items) /\ items[i] = v
  BY <1>1, <1>2, IndexOfItem
<1> HIDE DEF i
<1>4. /\ items' = RemoveAt(items, i) /\ items' \in Seq(Videos)
      /\ IsInjective(items') /\ ToSet(items') = ToSet(items) \ {v}
  BY <1>1, <1>2, <1>3, RemovedItem
<1>5. loadedVideos' = items'
  BY <1>1, <1>2, <1>3, <1>4
<1>6. Known' = Known
  BY <1>2, <1>4 DEF Known
<1>7. \/ player' = "paused" /\ waiting' = FALSE
      \/ UNCHANGED <<player, waiting>>
  BY DEF remove, Paused
<1>8. TypeOK'
  <2>1. items' \in Seq(Videos \cup {None})
    BY <1>4
  <2>2. waiting' \in BOOLEAN /\ (waiting' => player' = "loading" /\ pending' # <<>>)
    <3>1. /\ waiting \in BOOLEAN
          /\ waiting => player = "loading" /\ pending # <<>>
      BY DEF IInv, TypeOK
    <3>2. UNCHANGED pending
      BY <1>2
    <3>3. CASE waiting' = FALSE
      BY <3>3
    <3>4. CASE UNCHANGED <<player, waiting>>
      BY <3>1, <3>2, <3>4
    <3> QED BY <1>7, <3>3, <3>4
  <2>3. player' \in {"paused", "loading", "playing", "failed"}
    BY <1>7 DEF IInv, TypeOK
  <2>4. removed' \subseteq Videos
    BY <1>2 DEF IInv, TypeOK
  <2> QED BY <2>1, <2>2, <2>3, <2>4, <1>2, <1>4, <1>5 DEF IInv, TypeOK
<1>9. Inv'
  BY <1>2, <1>4, <1>5, <1>6 DEF IInv, Inv, Ordered, AllKnown, LastFlagsSource
<1> QED BY <1>8, <1>9 DEF IInv

-----------------------------------------------------------------------------
(* The search for the video that is flagged.                               *)
LEMMA LastFlaggedIsPosition ==
  ASSUME loadedVideos \in Seq(Videos)
  PROVE  /\ lastPlayedVideoIdx \in 0..Len(loadedVideos)
         /\ \A i \in 1..Len(loadedVideos) :
              (\A j \in 1..Len(loadedVideos) : loadedVideos[j] \in playing <=> j = i)
                => lastPlayedVideoIdx = i
<1> DEFINE n == Len(loadedVideos)
           I == {j \in 1..n : loadedVideos[j] \in playing}
<1>0. n \in Nat
  BY LenProperties
<1>1. lastPlayedVideoIdx = IF I # {} THEN Max(I) ELSE 0
  BY DEF lastPlayedVideoIdx, SelectLastInSeq
<1>2. ASSUME NEW i \in 1..n,
             \A j \in 1..n : loadedVideos[j] \in playing <=> j = i
      PROVE  lastPlayedVideoIdx = i
  <2>1. I = {i}
    BY <1>2
  <2> HIDE DEF I
  <2>2. Max(I) = i
    <3>1. i >= i
      BY <1>0
    <3> QED BY <2>1, <3>1 DEF Max
  <2> QED BY <1>1, <2>1, <2>2
<1>3. I \subseteq 1..n
  OBVIOUS
<1> HIDE DEF I, n
<1>4. ASSUME I # {} PROVE Max(I) \in 1..n
  <2> DEFINE T == {n - j : j \in I}
  <2>1. T \in SUBSET Nat /\ T # {}
    <3>1. \A j \in I : n - j \in Nat
      BY <1>0, <1>3
    <3> QED BY <3>1, <1>4
  <2>2. PICK x \in T : \A y \in T : x \leq y
    <3> HIDE DEF T
    <3> QED BY <2>1, LeastOfNat
  <2>3. PICK i \in I : x = n - i
    BY <2>2
  <2>4. ASSUME NEW j \in I PROVE i >= j
    <3>1. n - i \leq n - j
      BY <2>2, <2>3
    <3>2. i \in Nat /\ j \in Nat
      BY <1>0, <1>3
    <3> QED BY <3>1, <3>2, <1>0
  <2>5. Max(I) \in I
    BY <2>4 DEF Max
  <2> QED BY <2>5, <1>3
<1>5. lastPlayedVideoIdx \in 0..n
  BY <1>0, <1>1, <1>4
<1> QED BY <1>2, <1>5 DEF n

-----------------------------------------------------------------------------
(* The steps that give the element something to play, and those of the     *)
(* element itself.                                                         *)
LEMMA PlayKeepsIInv ==
  ASSUME IInv, ~restored, NEW v \in ToSet(items), playVideo(v)
  PROVE  IInv'
<1>1. v \in Videos
  BY LenProperties DEF IInv, TypeOK, ToSet
<1>2. /\ src' = v /\ player' = "loading" /\ pending' = Append(pending, v)
      /\ waiting' = TRUE
      /\ UNCHANGED <<loadedVideos, items, removed, restored, currentDrag, playing>>
  BY DEF playVideo, order
<1>3. /\ pending' \in Seq(Videos) /\ ToSet(pending') = ToSet(pending) \cup {v}
      /\ pending' # <<>> /\ pending'[Len(pending')] = v
  BY <1>1, <1>2, AppendedItem DEF IInv, TypeOK
<1>4. TypeOK'
  BY <1>1, <1>2, <1>3 DEF IInv, TypeOK
<1>5. Inv'
  <2>1. Known' = Known /\ v \in Known
    BY <1>2 DEF Known
  <2>2. Ordered'
    BY <1>2 DEF IInv, Inv, Ordered
  <2>3. AllKnown'
    BY <1>2, <1>3, <2>1 DEF IInv, Inv, AllKnown
  <2>4. LastFlagsSource'
    BY <1>2, <1>3 DEF LastFlagsSource
  <2> QED BY <2>2, <2>3, <2>4 DEF Inv
<1> QED BY <1>4, <1>5 DEF IInv

LEMMA SkipKeepsIInv ==
  ASSUME IInv, ~restored, playNext \/ playPrevious
  PROVE  IInv'
<1> DEFINE last == lastPlayedVideoIdx
<1>1. items \in Seq(Videos) /\ loadedVideos = items
  BY DEF IInv, TypeOK, Inv, Ordered
<1>2. last \in 0..Len(items) /\ Len(items) \in Nat /\ DOMAIN items = 1..Len(items)
  BY <1>1, LastFlaggedIsPosition, LenProperties
<1>3. last # 0
  BY DEF playNext, playPrevious, Play, HasNext
<1>4. PICK i \in 1..Len(items) : playVideo(items[i])
  <2> DEFINE up == IF last + 1 \leq Len(items) THEN last + 1 ELSE 1
             down == IF last - 1 < 1 THEN Len(items) ELSE last - 1
  <2>1. playVideo(items[up]) \/ playVideo(items[down])
    BY <1>1 DEF playNext, playPrevious, Play
  <2> HIDE DEF last
  <2>2. up \in 1..Len(items) /\ down \in 1..Len(items)
    BY <1>2, <1>3
  <2> HIDE DEF up, down
  <2> QED BY <2>1, <2>2
<1>5. items[i] \in ToSet(items)
  BY <1>2 DEF ToSet
<1> QED BY <1>4, <1>5, PlayKeepsIInv

LEMMA PausedWaitsForNothing ==
  ASSUME IInv
  PROVE  player \in {"paused", "playing"} => waiting = FALSE
BY DEF IInv, TypeOK

(* What the element and its buttons do changes neither the playlist nor    *)
(* what is flagged.                                                        *)
LEMMA PlayerKeepsIInv ==
  ASSUME IInv, ~restored,
         player' \in {"paused", "loading", "playing", "failed"},
         waiting' = FALSE,
         UNCHANGED <<order, playing, src, pending>>
  PROVE  IInv'
<1>1. TypeOK'
  <2>1. restored' \in BOOLEAN
    BY DEF IInv, TypeOK, order
  <2> QED BY <2>1 DEF IInv, TypeOK, order
<1>2. Inv'
  BY DEF IInv, Inv, Ordered, AllKnown, LastFlagsSource, Known, order
<1> QED BY <1>1, <1>2 DEF IInv

LEMMA ThenKeepsIInv ==
  ASSUME IInv, ~restored, then
  PROVE  IInv'
<1> DEFINE h == Head(pending)
           n == Len(pending)
<1>1. /\ items \in Seq(Videos) /\ loadedVideos = items
      /\ pending \in Seq(Videos) /\ n \in Nat /\ DOMAIN pending = 1..n
  BY LenProperties DEF IInv, TypeOK, Inv, Ordered
<1>2. /\ pending # <<>> /\ (waiting => n > 1)
      /\ playing' = (playing \ ToSet(items)) \cup {h}
      /\ pending' = Tail(pending)
      /\ UNCHANGED <<loadedVideos, items, removed, restored, currentDrag, src,
                     player, waiting>>
  BY <1>1 DEF then, order
<1>3. n > 0 /\ h = pending[1]
  BY <1>1, <1>2
<1>4. /\ pending' \in Seq(Videos) /\ Len(pending') = n - 1
      /\ \A k \in 1..(n - 1) : pending'[k] = pending[k + 1]
  BY <1>1, <1>2
<1>5. h \in Videos /\ h \in ToSet(pending)
  BY <1>1, <1>3, LenProperties DEF ToSet
<1> HIDE DEF h, n
<1>6. DOMAIN pending' = 1..(n - 1)
  BY <1>4, LenProperties
<1>7. ToSet(pending') \subseteq ToSet(pending)
  <2> SUFFICES ASSUME NEW k \in 1..(n - 1)
               PROVE  pending'[k] \in ToSet(pending)
    BY <1>6 DEF ToSet
  <2>1. k + 1 \in DOMAIN pending
    BY <1>1
  <2> QED BY <2>1, <1>4 DEF ToSet
<1>8. TypeOK'
  <2>1. waiting' => pending' # <<>>
    <3>1. n > 1 => pending' # <<>>
      BY <1>1, <1>4
    <3> QED BY <3>1, <1>2
  <2>2. playing' \subseteq Videos
    BY <1>2, <1>5 DEF IInv, TypeOK
  <2> QED BY <2>1, <2>2, <1>2, <1>4 DEF IInv, TypeOK
<1>9. AllKnown'
  BY <1>2, <1>5, <1>7 DEF IInv, Inv, AllKnown, Known
<1>10. LastFlagsSource'
  <2>1. CASE n = 1
    <3>1. pending' = <<>>
      BY <2>1, <1>4
    <3>2. h = src
      BY <2>1, <1>2, <1>3 DEF IInv, Inv, LastFlagsSource, n
    <3> QED BY <3>1, <3>2, <1>2 DEF LastFlagsSource
  <2>2. CASE n # 1
    <3>1. n - 1 \in 1..(n - 1) /\ (n - 1) + 1 = n
      BY <2>2, <1>1, <1>3
    <3>2. pending'[Len(pending')] = pending[n] /\ pending' # <<>>
      BY <3>1, <1>4
    <3>3. pending[n] = src
      BY <1>2 DEF IInv, Inv, LastFlagsSource, n
    <3> QED BY <3>2, <3>3, <1>2 DEF LastFlagsSource
  <2> QED BY <2>1, <2>2
<1>11. Ordered'
  BY <1>2 DEF IInv, Inv, Ordered
<1> QED BY <1>8, <1>9, <1>10, <1>11 DEF IInv, Inv

-----------------------------------------------------------------------------
LEMMA NextKeepsIInv == IInv /\ [Next]_vars => IInv'
<1> SUFFICES ASSUME IInv, [Next]_vars PROVE IInv'
  OBVIOUS
<1>1. CASE UNCHANGED vars
  <2>1. TypeOK'
    BY <1>1 DEF IInv, TypeOK, vars, order, media
  <2>2. Inv'
    BY <1>1 DEF IInv, Inv, Ordered, AllKnown, LastFlagsSource, Known, vars,
                order, media
  <2> QED BY <2>1, <2>2 DEF IInv
<1>2. CASE Next
  <2>0. ~restored
    BY <1>2 DEF Next
  <2>1. CASE \E v \in Videos : addVideo(v) \/ moveUp(v) \/ moveDown(v) \/ remove(v)
    BY <2>0, <2>1, AddKeepsIInv, MoveUpKeepsIInv, MoveDownKeepsIInv, RemoveKeepsIInv
  <2>2. CASE \E v \in Videos : clickItem(v) \/ dragForeign(v)
    BY <2>0, <2>2, PlayKeepsIInv, DragForeignKeepsIInv DEF clickItem
  <2>3. CASE \E v, w \in Videos : dragItem(v, w)
    BY <2>0, <2>3, DragKeepsIInv
  <2>4. CASE PLAY \/ STOP \/ PlaySettles
    <3>1. /\ player' \in {"paused", "loading", "playing", "failed"}
          /\ UNCHANGED <<order, playing, src, pending>>
      BY <2>4 DEF PLAY, STOP, PlaySettles, Paused
    <3>2. waiting' = FALSE
      <4>1. waiting' = FALSE \/ (player = "paused" /\ UNCHANGED waiting)
        BY <2>4 DEF PLAY, STOP, PlaySettles, Paused
      <4> QED BY <4>1, PausedWaitsForNothing
    <3> QED BY <2>0, <3>1, <3>2, PlayerKeepsIInv
  <2>5. CASE NEXT \/ PREVIOUS
    BY <2>0, <2>5, SkipKeepsIInv DEF NEXT, PREVIOUS
  <2>6. CASE then
    BY <2>0, <2>6, ThenKeepsIInv
  <2>7. CASE ended
    <3>1. CASE playNext
      BY <2>0, <3>1, SkipKeepsIInv
    <3>2. CASE player' = "paused" /\ UNCHANGED <<order, playing, src, pending, waiting>>
      <4>1. waiting' = FALSE
        BY <2>7, <3>2, PausedWaitsForNothing DEF ended
      <4> QED BY <2>0, <3>2, <4>1, PlayerKeepsIInv
    <3> QED BY <2>7, <3>1, <3>2 DEF ended
  <2> QED BY <1>2, <2>1, <2>2, <2>3, <2>4, <2>5, <2>6, <2>7 DEF Next
<1> QED BY <1>1, <1>2

(* The inductive invariant holds for any number of videos, of which any    *)
(* may be broken, and any number of callbacks that are still to run.       *)
LEMMA IInvHolds == Spec => []IInv
BY InitIInv, NextKeepsIInv, PTL DEF Spec

(* Each variable keeps its type: only the array may have holes, and the    *)
(* promise that waits for the element is one that playVideo made.          *)
THEOREM TypeCorrect == Spec => []TypeOK
BY IInvHolds, PTL DEF IInv

(* The array loadedVideos and the <li> items hold the same videos in the   *)
(* same order, until something foreign puts a removed item back.           *)
THEOREM PageAgreesWithArray == Spec => []OrderAgrees
<1>1. IInv => OrderAgrees
  BY DEF IInv, Inv, Ordered, OrderAgrees
<1> QED BY <1>1, IInvHolds, PTL

(* Once the callbacks of playVideo have run, the item flagged as playing   *)
(* is the one the element was last given.                                  *)
THEOREM FlagsCatchUp == Spec => []FlagIsSource
<1>1. IInv => FlagIsSource
  BY DEF IInv, Inv, LastFlagsSource, FlagIsSource
<1> QED BY <1>1, IInvHolds, PTL

(* When a video of the page comes to its end, playNext starts the one      *)
(* below it on the page, and the topmost one after the last.               *)
THEOREM EndPlaysTheOneBelow == Spec => EndIsFollowed
<1> DEFINE Step == ended /\ ~restored /\ src \in ToSet(items)
                     => src' = Below(src) /\ player' = "loading"
<1>1. IInv /\ [Next]_vars => [Step]_vars
  <2> SUFFICES ASSUME IInv, ended, ~restored, src \in ToSet(items)
               PROVE  src' = Below(src) /\ player' = "loading"
    OBVIOUS
  <2> DEFINE i == currentItemIdx(src)
  <2>1. /\ items \in Seq(Videos) /\ loadedVideos = items /\ IsInjective(items)
        /\ DOMAIN items = 1..Len(items) /\ Len(items) \in Nat
    BY LenProperties DEF IInv, TypeOK, Inv, Ordered
  <2>2. i \in 1..Len(items) /\ items[i] = src
    BY <2>1, IndexOfItem
  <2>3. \A v \in ToSet(items) : v \in playing <=> v = src
    BY DEF ended, IInv, Inv, LastFlagsSource
  <2> HIDE DEF i
  <2>4. \A j \in 1..Len(items) : items[j] \in playing <=> j = i
    BY <2>1, <2>2, <2>3 DEF IsInjective, ToSet
  <2>5. lastPlayedVideoIdx = i
    BY <2>1, <2>2, <2>4, LastFlaggedIsPosition
  <2>6. HasNext
    <3>1. None \notin ToSet(items)
      BY <2>1, PlaylistAssumption DEF ToSet
    <3> QED BY <3>1, <2>1, <2>2, <2>5 DEF HasNext
  <2>7. playVideo(items[IF i + 1 \leq Len(items) THEN i + 1 ELSE 1])
    BY <2>1, <2>5, <2>6 DEF ended, playNext, Play
  <2>8. i + 1 \leq Len(items) <=> i < Len(items)
    BY <2>1, <2>2
  <2> QED BY <2>7, <2>8 DEF playVideo, Below, i
<1> QED BY <1>1, IInvHolds, PTL DEF Spec, EndIsFollowed
=============================================================================
