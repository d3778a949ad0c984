---------------------- MODULE StandbyConfigManagerProofs ----------------------
(* Proofs about the configuration: which source each value comes from, and *)
(* when the cloud replaces what is in the image.                           *)
EXTENDS StandbyConfigManager, FiniteSetTheorems, WellFoundedInduction, TLAPS

-----------------------------------------------------------------------------
(* Numbers.                                                                *)

(* A set of natural numbers that is not empty has a least element.         *)
LEMMA LeastNumber ==
  ASSUME NEW T, T \subseteq Nat, T # {}
  PROVE  \E m \in T : \A n \in T : m <= n
<1> DEFINE F == {0..k : k \in T}
<1>1. F \subseteq FiniteSubsetsOf(Nat)
  <2>1. ASSUME NEW k \in T PROVE 0..k \in FiniteSubsetsOf(Nat)
    <3>1. IsFiniteSet(0..k) BY FS_Interval
    <3>2. 0..k \in SUBSET Nat OBVIOUS
    <3> QED BY <3>1, <3>2 DEF FiniteSubsetsOf
  <2> QED BY <2>1
<1>2. \E x \in F : \A y \in F : ~(<<y, x>> \in StrictSubsetOrdering(Nat))
  <2>1. F # {} OBVIOUS
  <2> HIDE DEF F
  <2>2. IsWellFoundedOn(StrictSubsetOrdering(Nat), FiniteSubsetsOf(Nat))
    BY FS_StrictSubsetOrderingWellFounded
  <2> QED BY <2>1, <2>2, <1>1, WFMin
<1>3. PICK m \in T : \A y \in F : ~(<<y, 0..m>> \in StrictSubsetOrdering(Nat))
  BY <1>2
<1>4. ASSUME NEW n \in T, n < m PROVE FALSE
  <2>1. 0..n \subseteq 0..m /\ 0..n # 0..m
    <3>1. m \in 0..m /\ m \notin 0..n BY <1>4
    <3> QED BY <3>1, <1>4
  <2>2. <<0..n, 0..m>> \in StrictSubsetOrdering(Nat)
    BY <2>1 DEF StrictSubsetOrdering
  <2> QED BY <2>2, <1>3
<1> QED BY <1>4

(* A set that has 0, and n + 1 with each n below N, has all of 0..N.       *)
LEMMA UpTo ==
  ASSUME NEW N \in Nat, NEW G, 0 \in G, \A n \in 0..N : n \in G /\ n < N => n + 1 \in G
  PROVE  0..N \subseteq G
<1> SUFFICES ASSUME (0..N) \ G # {} PROVE FALSE
  OBVIOUS
<1> DEFINE T == (0..N) \ G
<1>1. PICK m \in T : \A n \in T : m <= n
  <2>1. T \subseteq Nat /\ T # {} OBVIOUS
  <2> HIDE DEF T
  <2> QED BY <2>1, LeastNumber
<1>2. m # 0 /\ m - 1 \in 0..N /\ m - 1 < N /\ m - 1 \notin T
  BY <1>1
<1>3. (m - 1) + 1 = m
  BY <1>1
<1> QED BY <1>1, <1>2, <1>3

(* The least element is found when it is there.                            *)
LEMMA MinIs ==
  ASSUME NEW T, T \subseteq Int, NEW m \in T, \A n \in T : m <= n
  PROVE  Min(T) = m
<1> DEFINE c == CHOOSE x \in T : \A y \in T : x <= y
<1>1. \A y \in T : m <= y
  OBVIOUS
<1>2. c \in T /\ \A y \in T : c <= y
  BY <1>1
<1>3. c <= m /\ m <= c
  BY <1>1, <1>2
<1>4. Min(T) = c
  BY DEF Min
<1> HIDE DEF c
<1> QED BY <1>2, <1>3, <1>4

(* The greatest element is found when it is there.                         *)
LEMMA MaxIs ==
  ASSUME NEW T, T \subseteq Int, NEW m \in T, \A n \in T : n <= m
  PROVE  Max(T) = m
<1> DEFINE c == CHOOSE x \in T : \A y \in T : x >= y
<1>1. \A y \in T : m >= y
  OBVIOUS
<1>2. c \in T /\ \A y \in T : c >= y
  BY <1>1
<1>3. c >= m /\ m >= c
  BY <1>1, <1>2
<1>4. Max(T) = c
  BY DEF Max
<1> HIDE DEF c
<1> QED BY <1>2, <1>3, <1>4

(* A set of natural numbers has a minimum.                                 *)
LEMMA MinThere ==
  ASSUME NEW T, T \subseteq Nat, T # {}
  PROVE  Min(T) \in T /\ \A n \in T : Min(T) <= n
<1>1. PICK m \in T : \A n \in T : m <= n
  BY LeastNumber
<1>2. T \subseteq Int
  OBVIOUS
<1>3. Min(T) = m
  BY <1>1, <1>2, MinIs
<1> QED BY <1>1, <1>3

-----------------------------------------------------------------------------
(* GetParamVersion, file by file.                                          *)

Newer(next, version) == IF CompareVersion(next, version) # 0 THEN next ELSE version

(* The recursion of FoldLeft goes over the sets of places: it asks for the *)
(* intervals 1..n only.                                                    *)
VersionFold(list, g, S) ==
  [s \in SUBSET S |-> IF s = {} THEN NoVersion ELSE Newer(list[Max(s)], g[s \ {Max(s)}])]

(* The last place of a set that has it.                                    *)
LEMMA LastPlace ==
  ASSUME NEW n \in Nat, NEW s \in SUBSET (1..(n + 1)), n + 1 \in s
  PROVE  Max(s) = n + 1 /\ s \ {n + 1} \in SUBSET (1..n)
<1>1. s \subseteq Int /\ \A m \in s : m <= n + 1
  OBVIOUS
<1>2. Max(s) = n + 1
  BY <1>1, MaxIs
<1> QED BY <1>2

(* A set without the last place.                                           *)
LEMMA NotLastPlace ==
  ASSUME NEW n \in Nat, NEW s \in SUBSET (1..(n + 1)), n + 1 \notin s
  PROVE  s \in SUBSET (1..n)
OBVIOUS

(* The greatest element of a set of places is one of them.                 *)
LEMMA MaxThere ==
  ASSUME NEW n \in Nat, NEW s \in SUBSET (1..n), s # {}
  PROVE  Max(s) \in s
<1> DEFINE T == {n - k : k \in s}
<1>0. s \subseteq Int /\ \A k \in s : k \in Int /\ n - k \in Nat
  OBVIOUS
<1>1. T \subseteq Nat /\ T # {}
  BY <1>0
<1>2. PICK m \in T : \A k \in T : m <= k
  <2> HIDE DEF T
  <2> QED BY <1>1, LeastNumber
<1>3. PICK k \in s : m = n - k
  BY <1>2
<1>4. ASSUME NEW j \in s PROVE j <= k
  <2>1. n - k <= n - j
    BY <1>2, <1>3
  <2> QED BY <2>1, <1>0
<1>5. Max(s) = k
  BY <1>4, <1>0, MaxIs
<1> QED BY <1>5

(* The function of the recursion exists.                                   *)
LEMMA VersionFoldExists ==
  ASSUME NEW list, NEW N \in Nat
  PROVE  \E g : g = VersionFold(list, g, 1..N)
<1> DEFINE G == {n \in 0..N : \E g : g = VersionFold(list, g, 1..n)}
<1>1. 0 \in G
  <2> DEFINE z == [s \in SUBSET (1..0) |-> NoVersion]
  <2>1. z = VersionFold(list, z, 1..0)
    BY DEF VersionFold
  <2> QED BY <2>1
<1>2. ASSUME NEW n \in 0..N, n \in G, n < N
      PROVE  n + 1 \in G
  <2>1. PICK g : g = VersionFold(list, g, 1..n)
    BY <1>2
  <2> DEFINE h == [s \in SUBSET (1..(n + 1)) |->
                     IF n + 1 \in s THEN Newer(list[n + 1], g[s \ {n + 1}]) ELSE g[s]]
  <2>2. \A s \in SUBSET (1..n) : h[s] = g[s] /\ s \in SUBSET (1..(n + 1))
    BY <1>2
  <2>3. \A s \in SUBSET (1..n) : g[s] = IF s = {} THEN NoVersion
                                        ELSE Newer(list[Max(s)], g[s \ {Max(s)}])
    BY <2>1 DEF VersionFold
  <2>4. \A s \in SUBSET (1..(n + 1)) : n + 1 \in s => h[s] = Newer(list[n + 1], g[s \ {n + 1}])
    OBVIOUS
  <2>8. h = [s \in SUBSET (1..(n + 1)) |-> h[s]]
    OBVIOUS
  <2> HIDE DEF h
  <2>5. ASSUME NEW s \in SUBSET (1..(n + 1))
        PROVE  h[s] = IF s = {} THEN NoVersion ELSE Newer(list[Max(s)], h[s \ {Max(s)}])
    <3>1. CASE n + 1 \in s
      <4>1. Max(s) = n + 1 /\ s \ {n + 1} \in SUBSET (1..n)
        BY <3>1, LastPlace
      <4>2. h[s \ {n + 1}] = g[s \ {n + 1}]
        BY <4>1, <2>2
      <4>3. h[s] = Newer(list[n + 1], g[s \ {n + 1}])
        BY <3>1, <2>4
      <4>4. s # {}
        BY <3>1
      <4> QED BY <4>1, <4>2, <4>3, <4>4
    <3>2. CASE n + 1 \notin s
      <4>1. s \in SUBSET (1..n)
        BY <3>2, NotLastPlace
      <4>2. s \ {Max(s)} \in SUBSET (1..n)
        BY <4>1
      <4>3. h[s] = g[s] /\ h[s \ {Max(s)}] = g[s \ {Max(s)}]
        BY <4>1, <4>2, <2>2
      <4>4. g[s] = IF s = {} THEN NoVersion ELSE Newer(list[Max(s)], g[s \ {Max(s)}])
        BY <4>1, <2>3
      <4> QED BY <4>3, <4>4
    <3> QED BY <3>1, <3>2
  <2>6. h = VersionFold(list, h, 1..(n + 1))
    BY <2>5, <2>8 DEF VersionFold
  <2>7. n + 1 \in 0..N
    BY <1>2
  <2> QED BY <2>6, <2>7
<1>3. N \in G
  <2> HIDE DEF G
  <2>1. 0..N \subseteq G
    BY <1>1, <1>2, UpTo
  <2> QED BY <2>1
<1> QED BY <1>3

(* What GetParamVersion does with each file.                               *)
LEMMA VersionByVersion ==
  ASSUME NEW S, NEW list \in Seq(S)
  PROVE  \E f : /\ f[0] = NoVersion
                /\ \A n \in 1..Len(list) : f[n] = Newer(list[n], f[n - 1])
                /\ GetParamVersion(list) = f[Len(list)]
<1> DEFINE iter == CHOOSE g : g = VersionFold(list, g, DOMAIN list)
<1>1. GetParamVersion(list) = iter[DOMAIN list]
  BY DEF GetParamVersion, FoldLeft, MapThenFoldSet, VersionFold, Newer
<1>2. DOMAIN list = 1..Len(list) /\ Len(list) \in Nat
  OBVIOUS
<1>3. iter = VersionFold(list, iter, 1..Len(list))
  BY <1>2, VersionFoldExists
<1> HIDE DEF iter
<1>4. \A s \in SUBSET (1..Len(list)) :
        iter[s] = IF s = {} THEN NoVersion ELSE Newer(list[Max(s)], iter[s \ {Max(s)}])
  BY <1>3 DEF VersionFold
<1> DEFINE f == [n \in 0..Len(list) |-> iter[1..n]]
<1>5. f[0] = NoVersion
  <2>1. 1..0 = {} /\ 1..0 \in SUBSET (1..Len(list)) /\ f[0] = iter[1..0]
    BY <1>2
  <2> QED BY <2>1, <1>4
<1>6. ASSUME NEW n \in 1..Len(list)
      PROVE  f[n] = Newer(list[n], f[n - 1])
  <2>1. n - 1 \in Nat /\ (n - 1) + 1 = n
    BY <1>2
  <2>2. 1..n \in SUBSET (1..((n - 1) + 1)) /\ (n - 1) + 1 \in 1..n
    BY <2>1
  <2>3. Max(1..n) = (n - 1) + 1
    BY <2>1, <2>2, LastPlace
  <2>4. Max(1..n) = n /\ (1..n) \ {n} = 1..(n - 1)
    BY <2>1, <2>3
  <2>5. 1..n \in SUBSET (1..Len(list)) /\ 1..n # {}
    <3>1. n \in 1..n /\ \A i \in 1..n : i \in 1..Len(list)
      BY <2>1, <1>2
    <3> QED BY <3>1
  <2>6. iter[1..n] = Newer(list[n], iter[1..(n - 1)])
    BY <2>4, <2>5, <1>4
  <2>7. f[n] = iter[1..n] /\ f[n - 1] = iter[1..(n - 1)]
    BY <2>1, <1>2
  <2> QED BY <2>6, <2>7
<1>7. f[Len(list)] = iter[DOMAIN list]
  BY <1>2
<1> HIDE DEF f
<1> QED BY <1>1, <1>5, <1>6, <1>7

-----------------------------------------------------------------------------
(* Versions in the order of their numbers.                                 *)

(* A version that is written as it should be.                              *)
Proper(v) == v \in Seq(Segment) /\ WellFormed(v)

(* The four numbers of a version.                                          *)
LEMMA ProperSegments ==
  ASSUME NEW v, Proper(v)
  PROVE  /\ Len(v) = 4 /\ DOMAIN v = 1..4
         /\ \A i \in 1..4 : v[i] \in DOMAIN SegmentValue \ Padded /\ SegmentValue[v[i]] \in Nat
<1>1. v \in Seq(Segment) /\ Len(v) = 4
  BY DEF Proper, WellFormed, VERSION_LEN
<1>2. DOMAIN v = 1..4
  BY <1>1
<1>3. \A i \in 1..4 : v[i] \in DOMAIN SegmentValue \ Padded
  BY <1>2 DEF Proper, WellFormed
<1>4. \A x \in DOMAIN SegmentValue : SegmentValue[x] \in Nat
  BY VersionAssumption
<1> QED BY <1>1, <1>2, <1>3, <1>4

(* A version that is written as it should be is there.                     *)
LEMMA ProperIsSome ==
  ASSUME NEW v, Proper(v)
  PROVE  v # NoVersion
<1>1. Len(v) = 4
  BY ProperSegments
<1> QED BY <1>1 DEF NoVersion

(* The first number in which two versions differ decides.                  *)
Lexicographic(a, b) ==
  \/ SegmentValue[a[1]] > SegmentValue[b[1]]
  \/ /\ SegmentValue[a[1]] = SegmentValue[b[1]]
     /\ \/ SegmentValue[a[2]] > SegmentValue[b[2]]
        \/ /\ SegmentValue[a[2]] = SegmentValue[b[2]]
           /\ \/ SegmentValue[a[3]] > SegmentValue[b[3]]
              \/ /\ SegmentValue[a[3]] = SegmentValue[b[3]]
                 /\ SegmentValue[a[4]] >= SegmentValue[b[4]]

(* The first difference, spelled out.                                      *)
LEMMA FirstDifference ==
  ASSUME NEW D \in SUBSET (1..4)
  PROVE  \/ D = {}
         \/ 1 \in D /\ Min(D) = 1
         \/ 1 \notin D /\ 2 \in D /\ Min(D) = 2
         \/ 1 \notin D /\ 2 \notin D /\ 3 \in D /\ Min(D) = 3
         \/ 1 \notin D /\ 2 \notin D /\ 3 \notin D /\ 4 \in D /\ Min(D) = 4
<1>1. D \subseteq Int /\ \A n \in D : n = 1 \/ n = 2 \/ n = 3 \/ n = 4
  OBVIOUS
<1>2. CASE 1 \in D
  <2>1. \A n \in D : 1 <= n
    BY <1>1
  <2> QED BY <2>1, <1>1, <1>2, MinIs
<1>3. CASE 1 \notin D /\ 2 \in D
  <2>1. \A n \in D : 2 <= n
    BY <1>1, <1>3
  <2> QED BY <2>1, <1>1, <1>3, MinIs
<1>4. CASE 1 \notin D /\ 2 \notin D /\ 3 \in D
  <2>1. \A n \in D : 3 <= n
    BY <1>1, <1>4
  <2> QED BY <2>1, <1>1, <1>4, MinIs
<1>5. CASE 1 \notin D /\ 2 \notin D /\ 3 \notin D /\ 4 \in D
  <2>1. \A n \in D : 4 <= n
    BY <1>1, <1>5
  <2> QED BY <2>1, <1>1, <1>5, MinIs
<1>6. CASE 1 \notin D /\ 2 \notin D /\ 3 \notin D /\ 4 \notin D
  BY <1>1, <1>6
<1> QED BY <1>2, <1>3, <1>4, <1>5, <1>6

(* NotOlder is the lexicographic order.                                    *)
LEMMA NotOlderIs ==
  ASSUME NEW a, NEW b, Proper(a), Proper(b)
  PROVE  NotOlder(a, b) <=> Lexicographic(a, b)
<1> DEFINE x(i) == SegmentValue[a[i]]
           y(i) == SegmentValue[b[i]]
           D == {i \in 1..4 : x(i) # y(i)}
<1>1. \A i \in 1..4 : x(i) \in Nat /\ y(i) \in Nat
  BY ProperSegments
<1>2. \A i \in 1..4 : i \in D <=> x(i) # y(i)
  OBVIOUS
<1>3. D \in SUBSET (1..4)
  OBVIOUS
<1>4. NotOlder(a, b) <=> (D = {} \/ x(Min(D)) > y(Min(D)))
  BY DEF NotOlder, VERSION_LEN
<1>5. Lexicographic(a, b) <=>
        \/ x(1) > y(1)
        \/ /\ x(1) = y(1)
           /\ \/ x(2) > y(2)
              \/ x(2) = y(2) /\ (x(3) > y(3) \/ (x(3) = y(3) /\ x(4) >= y(4)))
  BY DEF Lexicographic
<1> HIDE DEF x, y, D
<1>6. CASE D = {}
  BY <1>1, <1>2, <1>4, <1>5, <1>6
<1>7. CASE 1 \in D /\ Min(D) = 1
  BY <1>1, <1>2, <1>4, <1>5, <1>7
<1>8. CASE 1 \notin D /\ 2 \in D /\ Min(D) = 2
  BY <1>1, <1>2, <1>4, <1>5, <1>8
<1>9. CASE 1 \notin D /\ 2 \notin D /\ 3 \in D /\ Min(D) = 3
  BY <1>1, <1>2, <1>4, <1>5, <1>9
<1>10. CASE 1 \notin D /\ 2 \notin D /\ 3 \notin D /\ 4 \in D /\ Min(D) = 4
  BY <1>1, <1>2, <1>4, <1>5, <1>10
<1> QED BY <1>3, <1>6, <1>7, <1>8, <1>9, <1>10, FirstDifference

(* The order of the numbers is total.                                      *)
LEMMA NotOlderTotal ==
  ASSUME NEW a, NEW b, Proper(a), Proper(b)
  PROVE  NotOlder(a, b) \/ NotOlder(b, a)
<1>1. \A i \in 1..4 : SegmentValue[a[i]] \in Nat /\ SegmentValue[b[i]] \in Nat
  BY ProperSegments
<1>2. Lexicographic(a, b) \/ Lexicographic(b, a)
  BY <1>1 DEF Lexicographic
<1>3. (NotOlder(a, b) <=> Lexicographic(a, b)) /\ (NotOlder(b, a) <=> Lexicographic(b, a))
  BY NotOlderIs
<1> QED BY <1>2, <1>3

(* The order of the numbers is transitive.                                 *)
LEMMA NotOlderTransitive ==
  ASSUME NEW a, NEW b, NEW c, Proper(a), Proper(b), Proper(c), NotOlder(a, b), NotOlder(b, c)
  PROVE  NotOlder(a, c)
<1>1. \A i \in 1..4 : /\ SegmentValue[a[i]] \in Nat /\ SegmentValue[b[i]] \in Nat
                      /\ SegmentValue[c[i]] \in Nat
  BY ProperSegments
<1>2. Lexicographic(a, b) /\ Lexicographic(b, c)
  BY NotOlderIs
<1>3. Lexicographic(a, c)
  BY <1>1, <1>2 DEF Lexicographic
<1> QED BY <1>3, NotOlderIs

(* CompareVersion compares text first; where nothing is padded, texts that *)
(* differ are numbers that differ.                                         *)
LEMMA ComparesNumbers ==
  ASSUME NEW a, NEW b, Proper(a), Proper(b)
  PROVE  CompareVersion(a, b) = IF NotOlder(a, b) THEN 1 ELSE 0
<1> DEFINE D == {i \in 1..VERSION_LEN : a[i] # b[i]}
           E == {i \in 1..VERSION_LEN : SegmentValue[a[i]] # SegmentValue[b[i]]}
           x(i) == SegmentValue[a[i]]
           y(i) == SegmentValue[b[i]]
<1>1. Len(a) = 4 /\ Len(b) = 4
  BY ProperSegments
<1>2. a # NoVersion /\ b # NoVersion
  BY <1>1 DEF NoVersion
<1>3. D = E
  <2>1. \A i \in 1..4 : /\ a[i] \in DOMAIN SegmentValue \ Padded
                        /\ b[i] \in DOMAIN SegmentValue \ Padded
    BY ProperSegments
  <2>2. \A i \in 1..4 : a[i] # b[i] <=> SegmentValue[a[i]] # SegmentValue[b[i]]
    BY <2>1, VersionAssumption
  <2> QED BY <2>2 DEF VERSION_LEN
<1>4. CompareVersion(a, b) = IF D = {} THEN 1 ELSE IF y(Min(D)) < x(Min(D)) THEN 1 ELSE 0
  <2> DEFINE last == IF D = {} THEN VERSION_LEN ELSE Min(D)
  <2>1. 1..last \subseteq 1..4
    <3>1. CASE D = {}
      BY <3>1 DEF VERSION_LEN
    <3>2. CASE D # {}
      <4>1. D \subseteq Nat /\ D \subseteq 1..4
        BY DEF VERSION_LEN
      <4>2. Min(D) \in D
        <5> HIDE DEF D
        <5> QED BY <3>2, <4>1, MinThere
      <4>3. Min(D) \in 1..4
        BY <4>1, <4>2
      <4>4. last = Min(D)
        BY <3>2
      <4> HIDE DEF last
      <4> QED BY <4>3, <4>4
    <3> QED BY <3>1, <3>2
  <2>2. \A i \in 1..4 : a[i] \in DOMAIN SegmentValue /\ b[i] \in DOMAIN SegmentValue
    BY ProperSegments
  <2>3. \A i \in 1..last : {a[i], b[i]} \subseteq DOMAIN SegmentValue
    <3> HIDE DEF last
    <3> QED BY <2>1, <2>2
  <2>4. Len(a) = VERSION_LEN /\ Len(b) = VERSION_LEN
    BY <1>1 DEF VERSION_LEN
  <2> QED BY <2>3, <2>4, <1>2 DEF CompareVersion
<1>5. NotOlder(a, b) <=> (E = {} \/ x(Min(E)) > y(Min(E)))
  BY DEF NotOlder
<1>6. D # {} => x(Min(D)) \in Nat /\ y(Min(D)) \in Nat
  <2> SUFFICES ASSUME D # {} PROVE x(Min(D)) \in Nat /\ y(Min(D)) \in Nat
    OBVIOUS
  <2>1. D \subseteq Nat /\ D \subseteq 1..4
    BY DEF VERSION_LEN
  <2>2. Min(D) \in D
    <3> HIDE DEF D
    <3> QED BY <2>1, MinThere
  <2>3. Min(D) \in 1..4
    BY <2>1, <2>2
  <2> HIDE DEF D
  <2> QED BY <2>3, ProperSegments
<1> HIDE DEF D, E, x, y
<1> QED BY <1>3, <1>4, <1>5, <1>6

(* GetParamVersion finds the newest of versions that are written as they   *)
(* should be.                                                              *)
LEMMA NewestFound ==
  ASSUME NEW list, list \in Seq(Version), list # << >>, \A v \in Range(list) : Proper(v)
  PROVE  /\ GetParamVersion(list) \in Range(list)
         /\ \A v \in Range(list) : NotOlder(GetParamVersion(list), v)
<1> DEFINE N == Len(list)
<1>1. N \in Nat /\ N # 0 /\ 1 \in 1..N
  OBVIOUS
<1>2. \A n \in 1..N : list[n] \in Range(list) /\ Proper(list[n])
  BY DEF Range
<1>3. \A v \in Range(list) : \E n \in 1..N : v = list[n]
  BY DEF Range
<1>4. PICK f : /\ f[0] = NoVersion
               /\ \A n \in 1..Len(list) : f[n] = Newer(list[n], f[n - 1])
               /\ GetParamVersion(list) = f[Len(list)]
  BY VersionByVersion
<1>5. GetParamVersion(list) = f[N] /\ \A n \in 1..N : f[n] = Newer(list[n], f[n - 1])
  BY <1>4
<1> HIDE DEF N
<1> DEFINE Found(n) == /\ \E i \in 1..n : f[n] = list[i]
                       /\ \A i \in 1..n : NotOlder(f[n], list[i])
           G == {n \in 0..N : n # 0 => Found(n)}
<1>6. 0 \in G
  BY <1>1
<1>7. Found(1)
  <2>1. f[1] = Newer(list[1], NoVersion)
    BY <1>1, <1>4, <1>5
  <2>2. Proper(list[1])
    BY <1>1, <1>2
  <2>3. list[1] # NoVersion
    <3>1. Len(list[1]) = 4
      BY <2>2, ProperSegments
    <3> QED BY <3>1 DEF NoVersion
  <2>4. CompareVersion(list[1], NoVersion) = 1
    BY <2>3 DEF CompareVersion
  <2>5. f[1] = list[1]
    BY <2>1, <2>4 DEF Newer
  <2>6. NotOlder(f[1], list[1])
    BY <2>2, <2>5, NotOlderTotal
  <2>7. \A i \in 1..1 : i = 1
    OBVIOUS
  <2>8. 1 \in 1..1
    OBVIOUS
  <2> QED BY <2>5, <2>6, <2>7, <2>8
<1>8. ASSUME NEW n \in 1..N, Found(n), n < N
      PROVE  Found(n + 1)
  <2>1. n + 1 \in 1..N /\ (n + 1) - 1 = n
    BY <1>1, <1>8
  <2>2. f[n + 1] = Newer(list[n + 1], f[n])
    BY <2>1, <1>5
  <2>3. PICK j \in 1..n : f[n] = list[j]
    BY <1>8
  <2>4. \A i \in 1..n : i \in 1..N /\ i \in 1..(n + 1)
    BY <1>1, <1>8
  <2>5. Proper(list[n + 1]) /\ Proper(f[n])
    BY <2>1, <2>3, <2>4, <1>2
  <2>6. \A i \in 1..(n + 1) : i \in 1..n \/ i = n + 1
    BY <1>1
  <2>7. CASE NotOlder(list[n + 1], f[n])
    <3>1. CompareVersion(list[n + 1], f[n]) = 1
      BY <2>5, <2>7, ComparesNumbers
    <3>2. f[n + 1] = list[n + 1]
      BY <3>1, <2>2 DEF Newer
    <3>3. ASSUME NEW i \in 1..n PROVE NotOlder(list[n + 1], list[i])
      <4>1. NotOlder(f[n], list[i]) /\ Proper(list[i])
        BY <1>8, <2>4, <1>2
      <4> QED BY <4>1, <2>5, <2>7, NotOlderTransitive
    <3>4. NotOlder(list[n + 1], list[n + 1])
      BY <2>5, NotOlderTotal
    <3>5. \A i \in 1..(n + 1) : NotOlder(f[n + 1], list[i])
      BY <2>6, <3>2, <3>3, <3>4
    <3>6. n + 1 \in 1..(n + 1)
      BY <1>1
    <3> QED BY <3>2, <3>5, <3>6
  <2>8. CASE ~ NotOlder(list[n + 1], f[n])
    <3>1. CompareVersion(list[n + 1], f[n]) = 0
      BY <2>5, <2>8, ComparesNumbers
    <3>2. f[n + 1] = f[n]
      BY <3>1, <2>2 DEF Newer
    <3>3. NotOlder(f[n], list[n + 1])
      BY <2>5, <2>8, NotOlderTotal
    <3>4. \A i \in 1..n : NotOlder(f[n], list[i])
      BY <1>8
    <3>5. \A i \in 1..(n + 1) : NotOlder(f[n + 1], list[i])
      BY <2>6, <3>2, <3>3, <3>4
    <3>6. j \in 1..(n + 1)
      BY <2>4
    <3> QED BY <2>3, <3>2, <3>5, <3>6
  <2> QED BY <2>7, <2>8
<1>9. ASSUME NEW n \in 0..N, n \in G, n < N
      PROVE  n + 1 \in G
  <2> HIDE DEF Found
  <2>1. n + 1 \in 0..N
    BY <1>1, <1>9
  <2>2. CASE n = 0
    BY <2>1, <2>2, <1>7
  <2>3. CASE n # 0
    <3>1. n \in 1..N /\ Found(n)
      BY <2>3, <1>1, <1>9
    <3>2. Found(n + 1)
      BY <3>1, <1>8, <1>9
    <3> QED BY <3>2, <2>1
  <2> QED BY <2>2, <2>3
<1>10. Found(N)
  <2> HIDE DEF Found
  <2>1. N \in G
    <3> HIDE DEF G
    <3>1. 0..N \subseteq G
      BY <1>1, <1>6, <1>9, UpTo
    <3> QED BY <3>1, <1>1
  <2> QED BY <2>1, <1>1
<1>11. PICK i \in 1..N : f[N] = list[i]
  BY <1>10
<1>12. \A n \in 1..N : NotOlder(f[N], list[n])
  BY <1>10
<1> HIDE DEF Found, G
<1> QED BY <1>2, <1>3, <1>5, <1>11, <1>12

(* Without a file there is no version.                                     *)
LEMMA NothingFound == GetParamVersion(<< >>) = NoVersion
<1>1. << >> \in Seq(Version) /\ Len(<< >>) = 0
  OBVIOUS
<1>2. \A list : list = << >> => GetParamVersion(list) = NoVersion
  <2> TAKE list
  <2> HAVE list = << >>
  <2>1. list \in Seq(Version) /\ Len(list) = 0
    BY <1>1
  <2>2. PICK f : f[0] = NoVersion /\ GetParamVersion(list) = f[Len(list)]
    BY <2>1, VersionByVersion
  <2> QED BY <2>1, <2>2
<1> QED BY <1>2

(* The version that is compared with the cloud's is the newest of all.     *)
LEMMA NewestOfAll ==
  ASSUME NEW p, NEW q, p \in Seq(Version), q \in Seq(Version), Range(p) \cup Range(q) # {},
         \A w \in Range(p) \cup Range(q) : Proper(w)
  PROVE  LET result == CompareVersion(GetParamVersion(p), GetParamVersion(q))
             newest == IF result > 0 THEN GetParamVersion(p) ELSE GetParamVersion(q)
         IN  /\ result >= 0
             /\ newest \in Range(p) \cup Range(q)
             /\ \A w \in Range(p) \cup Range(q) : NotOlder(newest, w)
<1> DEFINE device == GetParamVersion(p)
           strategy == GetParamVersion(q)
           result == CompareVersion(device, strategy)
           newest == IF result > 0 THEN device ELSE strategy
<1>0. /\ p # << >> => device \in Range(p) /\ \A w \in Range(p) : NotOlder(device, w)
      /\ q # << >> => strategy \in Range(q) /\ \A w \in Range(q) : NotOlder(strategy, w)
      /\ p = << >> => device = NoVersion /\ Range(p) = {}
      /\ q = << >> => strategy = NoVersion /\ Range(q) = {}
  <2>1. p # << >> => device \in Range(p) /\ \A w \in Range(p) : NotOlder(device, w)
    BY NewestFound
  <2>2. q # << >> => strategy \in Range(q) /\ \A w \in Range(q) : NotOlder(strategy, w)
    BY NewestFound
  <2>3. p = << >> => device = NoVersion
    BY NothingFound
  <2>4. q = << >> => strategy = NoVersion
    BY NothingFound
  <2>5. \A r : r = << >> => Range(r) = {}
    BY DEF Range
  <2> QED BY <2>1, <2>2, <2>3, <2>4, <2>5
<1>1. p # << >> \/ q # << >>
  BY <1>0
<1>2. /\ p # << >> => Proper(device) /\ device # NoVersion
      /\ q # << >> => Proper(strategy) /\ strategy # NoVersion
  <2>1. ASSUME NEW w, Proper(w) PROVE w # NoVersion
    BY <2>1, ProperIsSome
  <2> HIDE DEF device, strategy
  <2>2. ASSUME p # << >> PROVE Proper(device) /\ device # NoVersion
    <3>1. device \in Range(p)
      BY <1>0, <2>2
    <3>2. Proper(device)
      BY <3>1
    <3> QED BY <3>2, <2>1
  <2>3. ASSUME q # << >> PROVE Proper(strategy) /\ strategy # NoVersion
    <3>1. strategy \in Range(q)
      BY <1>0, <2>3
    <3>2. Proper(strategy)
      BY <3>1
    <3> QED BY <3>2, <2>1
  <2> QED BY <2>2, <2>3
<1> HIDE DEF device, strategy
<1>3. CASE p = << >>
  <2>1. q # << >> /\ device = NoVersion /\ strategy # NoVersion
    BY <1>0, <1>1, <1>2, <1>3
  <2>2. result = 0
    BY <2>1 DEF CompareVersion
  <2>3. newest = strategy
    BY <2>2
  <2> HIDE DEF result, newest
  <2>4. result >= 0 /\ newest \in Range(p) \cup Range(q)
    BY <2>1, <2>2, <2>3, <1>0
  <2>5. \A w \in Range(p) \cup Range(q) : NotOlder(newest, w)
    BY <2>1, <2>3, <1>0, <1>3
  <2> QED BY <2>4, <2>5 DEF result, newest, device, strategy
<1>4. CASE p # << >> /\ q = << >>
  <2>1. device # NoVersion /\ strategy = NoVersion
    BY <1>0, <1>2, <1>4
  <2>2. result = 1
    BY <2>1 DEF CompareVersion
  <2>3. newest = device
    BY <2>2
  <2> HIDE DEF result, newest
  <2>4. result >= 0 /\ newest \in Range(p) \cup Range(q)
    BY <2>2, <2>3, <1>0, <1>4
  <2>5. \A w \in Range(p) \cup Range(q) : NotOlder(newest, w)
    BY <2>3, <1>0, <1>4
  <2> QED BY <2>4, <2>5 DEF result, newest, device, strategy
<1>5. CASE p # << >> /\ q # << >>
  <2>1. Proper(device) /\ Proper(strategy)
    BY <1>2, <1>5
  <2>2. result = IF NotOlder(device, strategy) THEN 1 ELSE 0
    BY <2>1, ComparesNumbers
  <2> HIDE DEF result
  <2>3. CASE NotOlder(device, strategy)
    <3>1. result = 1
      BY <2>2, <2>3
    <3>2. newest = device
      BY <3>1
    <3> HIDE DEF newest
    <3>3. ASSUME NEW w \in Range(q) PROVE NotOlder(device, w)
      <4>1. NotOlder(strategy, w) /\ Proper(w)
        BY <1>0, <1>5
      <4> QED BY <4>1, <2>1, <2>3, NotOlderTransitive
    <3>4. \A w \in Range(p) \cup Range(q) : NotOlder(newest, w)
      BY <3>2, <3>3, <1>0, <1>5
    <3>5. result >= 0 /\ newest \in Range(p) \cup Range(q)
      BY <3>1, <3>2, <1>0, <1>5
    <3> QED BY <3>4, <3>5 DEF result, newest, device, strategy
  <2>4. CASE ~ NotOlder(device, strategy)
    <3>1. result = 0
      BY <2>2, <2>4
    <3>2. newest = strategy
      BY <3>1
    <3> HIDE DEF newest
    <3>3. NotOlder(strategy, device)
      BY <2>1, <2>4, NotOlderTotal
    <3>4. ASSUME NEW w \in Range(p) PROVE NotOlder(strategy, w)
      <4>1. NotOlder(device, w) /\ Proper(w)
        BY <1>0, <1>5
      <4> QED BY <4>1, <2>1, <3>3, NotOlderTransitive
    <3>5. \A w \in Range(p) \cup Range(q) : NotOlder(newest, w)
      BY <3>2, <3>4, <1>0, <1>5
    <3>6. result >= 0 /\ newest \in Range(p) \cup Range(q)
      BY <3>1, <3>2, <1>0, <1>5
    <3> QED BY <3>5, <3>6 DEF result, newest, device, strategy
  <2> QED BY <2>3, <2>4
<1> QED BY <1>3, <1>4, <1>5

(* The decision, where every version is there and as it should be: the     *)
(* cloud is read if it is not older than any, and not if one is newer.     *)
LEMMA DecisionIs ==
  ASSUME NEW v, v.device \in Seq(Version), v.strategy \in Seq(Version),
         Range(v.device) \cup Range(v.strategy) # {},
         \A w \in Range(v.device) \cup Range(v.strategy) \cup {v.cloud} : Proper(w)
  PROVE  LET image == Range(v.device) \cup Range(v.strategy)
         IN  /\ NeedsToReadCloudConfig(v) => \A w \in image : NotOlder(v.cloud, w)
             /\ ~ NeedsToReadCloudConfig(v) => \E w \in image : NotOlder(w, v.cloud)
<1> DEFINE image == Range(v.device) \cup Range(v.strategy)
           device == GetParamVersion(v.device)
           strategy == GetParamVersion(v.strategy)
           result == CompareVersion(device, strategy)
           newest == IF result > 0 THEN device ELSE strategy
<1>1. result >= 0 /\ newest \in image /\ \A w \in image : NotOlder(newest, w)
  <2>1. \A w \in Range(v.device) \cup Range(v.strategy) : Proper(w)
    OBVIOUS
  <2> QED BY <2>1, NewestOfAll
<1>2. NeedsToReadCloudConfig(v) <=> result >= 0 /\ CompareVersion(v.cloud, newest) > 0
  BY DEF NeedsToReadCloudConfig
<1> HIDE DEF device, strategy, result, newest
<1>3. Proper(v.cloud) /\ Proper(newest)
  BY <1>1
<1>4. CompareVersion(v.cloud, newest) = IF NotOlder(v.cloud, newest) THEN 1 ELSE 0
  BY <1>3, ComparesNumbers
<1>5. NeedsToReadCloudConfig(v) <=> NotOlder(v.cloud, newest)
  BY <1>1, <1>2, <1>4
<1>6. ASSUME NeedsToReadCloudConfig(v), NEW w \in image
      PROVE  NotOlder(v.cloud, w)
  <2>1. NotOlder(newest, w) /\ Proper(w)
    BY <1>1
  <2>2. NotOlder(v.cloud, newest)
    BY <1>5, <1>6
  <2> QED BY <2>1, <2>2, <1>3, NotOlderTransitive
<1>7. ASSUME ~ NeedsToReadCloudConfig(v)
       PROVE  \E w \in image : NotOlder(w, v.cloud)
  <2>1. NotOlder(newest, v.cloud)
    BY <1>3, <1>5, <1>7, NotOlderTotal
  <2> QED BY <2>1, <1>1
<1> QED BY <1>6, <1>7

-----------------------------------------------------------------------------
(* ParseSections, section by section.                                      *)

EntryMaps == [Sections -> [Key -> Nat]]

SectionNext(map, s, file, source) ==
  IF s \in Sections THEN ParseSection(map, s, file[s], source) ELSE map

(* As VersionFold.                                                         *)
SectionFold(map, order, file, source, g, S) ==
  [t \in SUBSET S |-> IF t = {} THEN map
                      ELSE SectionNext(g[t \ {Max(t)}], order[Max(t)], file, source)]

(* The function of the recursion exists.                                   *)
LEMMA SectionFoldExists ==
  ASSUME NEW map, NEW order, NEW file, NEW source, NEW N \in Nat
  PROVE  \E g : g = SectionFold(map, order, file, source, g, 1..N)
<1> DEFINE step(m, n) == SectionNext(m, order[n], file, source)
           G == {n \in 0..N : \E g : g = SectionFold(map, order, file, source, g, 1..n)}
<1>1. 0 \in G
  <2> DEFINE z == [t \in SUBSET (1..0) |-> map]
  <2>1. z = SectionFold(map, order, file, source, z, 1..0)
    BY DEF SectionFold
  <2> QED BY <2>1
<1>2. ASSUME NEW n \in 0..N, n \in G, n < N
      PROVE  n + 1 \in G
  <2>1. PICK g : g = SectionFold(map, order, file, source, g, 1..n)
    BY <1>2
  <2> DEFINE h == [t \in SUBSET (1..(n + 1)) |->
                     IF n + 1 \in t THEN step(g[t \ {n + 1}], n + 1) ELSE g[t]]
  <2>2. \A t \in SUBSET (1..n) : h[t] = g[t] /\ t \in SUBSET (1..(n + 1))
    BY <1>2
  <2>3. \A t \in SUBSET (1..n) : g[t] = IF t = {} THEN map ELSE step(g[t \ {Max(t)}], Max(t))
    BY <2>1 DEF SectionFold
  <2>4. \A t \in SUBSET (1..(n + 1)) : n + 1 \in t => h[t] = step(g[t \ {n + 1}], n + 1)
    OBVIOUS
  <2>5. h = [t \in SUBSET (1..(n + 1)) |-> h[t]]
    OBVIOUS
  <2> HIDE DEF h, step
  <2>6. ASSUME NEW t \in SUBSET (1..(n + 1))
        PROVE  h[t] = IF t = {} THEN map ELSE step(h[t \ {Max(t)}], Max(t))
    <3>1. CASE n + 1 \in t
      <4>1. Max(t) = n + 1 /\ t \ {n + 1} \in SUBSET (1..n)
        BY <3>1, LastPlace
      <4>2. h[t \ {n + 1}] = g[t \ {n + 1}]
        BY <4>1, <2>2
      <4>3. h[t] = step(g[t \ {n + 1}], n + 1)
        BY <3>1, <2>4
      <4>4. t # {}
        BY <3>1
      <4> QED BY <4>1, <4>2, <4>3, <4>4
    <3>2. CASE n + 1 \notin t
      <4>1. t \in SUBSET (1..n)
        BY <3>2, NotLastPlace
      <4>2. t \ {Max(t)} \in SUBSET (1..n)
        BY <4>1
      <4>3. h[t] = g[t] /\ h[t \ {Max(t)}] = g[t \ {Max(t)}]
        BY <4>1, <4>2, <2>2
      <4>4. g[t] = IF t = {} THEN map ELSE step(g[t \ {Max(t)}], Max(t))
        BY <4>1, <2>3
      <4> QED BY <4>3, <4>4
    <3> QED BY <3>1, <3>2
  <2>7. h = SectionFold(map, order, file, source, h, 1..(n + 1))
    BY <2>5, <2>6 DEF SectionFold, step
  <2>8. n + 1 \in 0..N
    BY <1>2
  <2> QED BY <2>7, <2>8
<1>3. N \in G
  <2> HIDE DEF G
  <2>1. 0..N \subseteq G
    BY <1>1, <1>2, UpTo
  <2> QED BY <2>1
<1> QED BY <1>3

(* What ParseSections does with each section.                              *)
LEMMA SectionBySection ==
  ASSUME NEW S, NEW order \in Seq(S), NEW map, NEW file, NEW source
  PROVE  \E f : /\ f[0] = map
                /\ \A n \in 1..Len(order) :
                     f[n] = SectionNext(f[n - 1], order[n], file, source)
                /\ ParseSections(map, order, file, source) = f[Len(order)]
<1> DEFINE iter == CHOOSE g : g = SectionFold(map, order, file, source, g, DOMAIN order)
<1>1. ParseSections(map, order, file, source) = iter[DOMAIN order]
  BY DEF ParseSections, FoldLeft, MapThenFoldSet, SectionFold, SectionNext
<1>2. DOMAIN order = 1..Len(order) /\ Len(order) \in Nat
  OBVIOUS
<1>3. iter = SectionFold(map, order, file, source, iter, 1..Len(order))
  BY <1>2, SectionFoldExists
<1> HIDE DEF iter
<1>4. \A t \in SUBSET (1..Len(order)) :
        iter[t] = IF t = {} THEN map
                  ELSE SectionNext(iter[t \ {Max(t)}], order[Max(t)], file, source)
  BY <1>3 DEF SectionFold
<1> DEFINE f == [n \in 0..Len(order) |-> iter[1..n]]
<1>5. f[0] = map
  <2>1. 1..0 = {} /\ 1..0 \in SUBSET (1..Len(order)) /\ f[0] = iter[1..0]
    BY <1>2
  <2> QED BY <2>1, <1>4
<1>6. ASSUME NEW n \in 1..Len(order)
      PROVE  f[n] = SectionNext(f[n - 1], order[n], file, source)
  <2>1. n - 1 \in Nat /\ (n - 1) + 1 = n
    BY <1>2
  <2>2. 1..n \in SUBSET (1..((n - 1) + 1)) /\ (n - 1) + 1 \in 1..n
    BY <2>1
  <2>3. Max(1..n) = (n - 1) + 1
    BY <2>1, <2>2, LastPlace
  <2>4. Max(1..n) = n /\ (1..n) \ {n} = 1..(n - 1)
    BY <2>1, <2>3
  <2>5. 1..n \in SUBSET (1..Len(order)) /\ 1..n # {}
    <3>1. n \in 1..n /\ \A i \in 1..n : i \in 1..Len(order)
      BY <2>1, <1>2
    <3> QED BY <3>1
  <2>6. iter[1..n] = SectionNext(iter[1..(n - 1)], order[n], file, source)
    BY <2>4, <2>5, <1>4
  <2>7. f[n] = iter[1..n] /\ f[n - 1] = iter[1..(n - 1)]
    BY <2>1, <1>2
  <2> QED BY <2>6, <2>7
<1>7. f[Len(order)] = iter[DOMAIN order]
  BY <1>2
<1> HIDE DEF f
<1> QED BY <1>1, <1>5, <1>6, <1>7

(* Section sec gives entry k of the map of s.                              *)
Gives(sec, file, s, k) == sec \in Sections /\ MapOf(sec) = s /\ k \in Taken(sec, file[sec])

Among(order, file, s, k) == \E i \in 1..Len(order) : Gives(order[i], file, s, k)

(* The entry of a map after a source that offers it, or does not.          *)
Entry(map, s, k, offered, source) ==
  IF offered /\ (s \in FirstWins => map[s][k] = Absent) THEN source ELSE map[s][k]

(* A section has the map it fills.                                         *)
LEMMA MapsThere ==
  ASSUME NEW s \in Sections
  PROVE  MapOf(s) \in Sections /\ (s \in FirstWins <=> MapOf(s) \in FirstWins)
<1>1. "standby" \in Sections
  BY ConfigAssumption
<1>2. "standby" \notin FirstWins /\ "detect_list" \notin FirstWins
  BY DEF FirstWins
<1> QED BY <1>1, <1>2 DEF MapOf

(* What one section gives.                                                 *)
LEMMA SectionGives ==
  ASSUME NEW map \in EntryMaps, NEW sec, NEW file, NEW source \in Nat
  PROVE  /\ SectionNext(map, sec, file, source) \in EntryMaps
         /\ \A s \in Sections, k \in Key :
              SectionNext(map, sec, file, source)[s][k] =
                Entry(map, s, k, Gives(sec, file, s, k), source)
<1>1. CASE sec \notin Sections
  BY <1>1 DEF SectionNext, Entry, Gives
<1>2. CASE sec \in Sections
  <2> DEFINE t == MapOf(sec)
             taken == Taken(sec, file[sec])
             row == [k \in Key |-> IF k \in taken /\ (sec \in FirstWins => map[t][k] = Absent)
                                   THEN source ELSE map[t][k]]
  <2>1. t \in Sections /\ (sec \in FirstWins <=> t \in FirstWins)
    BY <1>2, MapsThere
  <2>2. SectionNext(map, sec, file, source) = [map EXCEPT ![t] = row]
    BY <1>2, <2>1 DEF SectionNext, ParseSection, EntryMaps
  <2>3. \A s \in Sections, k \in Key : Gives(sec, file, s, k) <=> (t = s /\ k \in taken)
    BY <1>2 DEF Gives
  <2> HIDE DEF t, taken
  <2>4. map \in [Sections -> [Key -> Nat]]
    BY DEF EntryMaps
  <2>5. map[t] \in [Key -> Nat] /\ row \in [Key -> Nat]
    BY <2>1, <2>4
  <2>6. \A k \in Key : row[k] = IF k \in taken /\ (sec \in FirstWins => map[t][k] = Absent)
                                THEN source ELSE map[t][k]
    OBVIOUS
  <2> HIDE DEF row
  <2>7. [map EXCEPT ![t] = row] \in [Sections -> [Key -> Nat]]
    BY <2>4, <2>5
  <2>8. \A s \in Sections : [map EXCEPT ![t] = row][s] = IF s = t THEN row ELSE map[s]
    BY <2>1, <2>4
  <2>9. ASSUME NEW s \in Sections, NEW k \in Key
        PROVE  [map EXCEPT ![t] = row][s][k] = Entry(map, s, k, Gives(sec, file, s, k), source)
    <3>1. CASE s = t
      BY <3>1, <2>1, <2>3, <2>6, <2>8 DEF Entry
    <3>2. CASE s # t
      BY <3>2, <2>3, <2>8 DEF Entry
    <3> QED BY <3>1, <3>2
  <2> QED BY <2>2, <2>7, <2>9 DEF EntryMaps
<1> QED BY <1>1, <1>2

(* What a sequence of sections gives.                                      *)
LEMMA SectionsGive ==
  ASSUME NEW S, NEW order \in Seq(S), NEW map \in EntryMaps, NEW file,
         NEW source \in Nat, source # Absent
  PROVE  /\ ParseSections(map, order, file, source) \in EntryMaps
         /\ \A s \in Sections, k \in Key :
              ParseSections(map, order, file, source)[s][k] =
                Entry(map, s, k, Among(order, file, s, k), source)
<1>1. PICK f : /\ f[0] = map
               /\ \A n \in 1..Len(order) : f[n] = SectionNext(f[n - 1], order[n], file, source)
               /\ ParseSections(map, order, file, source) = f[Len(order)]
  BY SectionBySection
<1> DEFINE N == Len(order)
           given(n, s, k) == \E i \in 1..n : Gives(order[i], file, s, k)
           Good(n) == /\ f[n] \in EntryMaps
                      /\ \A s \in Sections, k \in Key :
                           f[n][s][k] = Entry(map, s, k, given(n, s, k), source)
           G == {n \in 0..N : Good(n)}
<1>2. N \in Nat
  OBVIOUS
<1>3. \A n \in 1..N : f[n] = SectionNext(f[n - 1], order[n], file, source)
  BY <1>1
<1>4. ParseSections(map, order, file, source) = f[N]
  BY <1>1
<1> HIDE DEF N
<1>5. 0 \in G
  <2>1. \A s, k : ~ given(0, s, k)
    OBVIOUS
  <2> HIDE DEF given
  <2>2. Good(0)
    BY <2>1, <1>1 DEF Entry
  <2> QED BY <2>2, <1>2
<1>6. ASSUME NEW n \in 0..N, n \in G, n < N
      PROVE  n + 1 \in G
  <2>1. n + 1 \in 1..N /\ (n + 1) - 1 = n /\ n + 1 \in 0..N
    BY <1>2, <1>6
  <2>2. f[n + 1] = SectionNext(f[n], order[n + 1], file, source)
    BY <2>1, <1>3
  <2>3. f[n] \in EntryMaps
    BY <1>6
  <2>4. /\ f[n + 1] \in EntryMaps
        /\ \A s \in Sections, k \in Key :
             f[n + 1][s][k] = Entry(f[n], s, k, Gives(order[n + 1], file, s, k), source)
    BY <2>2, <2>3, SectionGives
  <2>5. ASSUME NEW s \in Sections, NEW k \in Key
        PROVE  f[n + 1][s][k] = Entry(map, s, k, given(n + 1, s, k), source)
    <3>1. given(n + 1, s, k) <=> given(n, s, k) \/ Gives(order[n + 1], file, s, k)
      <4>1. \A i \in 1..(n + 1) : i \in 1..n \/ i = n + 1
        BY <1>2
      <4>2. n + 1 \in 1..(n + 1) /\ \A i \in 1..n : i \in 1..(n + 1)
        BY <1>2
      <4> QED BY <4>1, <4>2
    <3>2. f[n][s][k] = Entry(map, s, k, given(n, s, k), source)
      BY <1>6
    <3>3. f[n + 1][s][k] = Entry(f[n], s, k, Gives(order[n + 1], file, s, k), source)
      BY <2>4
    <3> HIDE DEF given
    <3> QED BY <3>1, <3>2, <3>3 DEF Entry
  <2> HIDE DEF given
  <2>6. Good(n + 1)
    BY <2>4, <2>5
  <2> HIDE DEF Good
  <2> QED BY <2>1, <2>6
<1>7. Good(N)
  <2> HIDE DEF Good
  <2>1. N \in G
    <3> HIDE DEF G
    <3>1. 0..N \subseteq G
      BY <1>2, <1>5, <1>6, UpTo
    <3> QED BY <3>1, <1>2
  <2> QED BY <2>1
<1>8. \A s, k : given(N, s, k) <=> Among(order, file, s, k)
  BY DEF N, Among
<1> HIDE DEF given
<1>9. ASSUME NEW s \in Sections, NEW k \in Key
      PROVE  f[N][s][k] = Entry(map, s, k, Among(order, file, s, k), source)
  <2>1. f[N][s][k] = Entry(map, s, k, given(N, s, k), source)
    BY <1>7
  <2> QED BY <2>1, <1>8 DEF Entry
<1> QED BY <1>4, <1>7, <1>9

SectionNames ==
  {"standby", "detect_list", "maintenance_list", "pkg_type_list", "strategy_list",
   "halfhour_switch_setting", "standby_list_para", "ladder_battery_list", "mx_standby_list"}

(* The two orders are sequences of names.                                  *)
LEMMA OrdersAreSequences ==
  SectionOrder \in Seq(SectionNames) /\ CloudSections \in Seq(SectionNames)
<1>1. SectionOrder \in Seq(SectionNames)
  BY DEF SectionOrder, SectionNames
<1>2. CloudSections \in Seq(SectionNames)
  BY DEF CloudSections, SectionNames
<1> QED BY <1>1, <1>2

(* What a device file gives: the entries that it offers.                   *)
LEMMA DeviceGives ==
  ASSUME NEW map \in EntryMaps, NEW file, NEW source \in Nat, source # Absent
  PROVE  /\ ParseDeviceStanbyConfig(map, file, source) \in EntryMaps
         /\ \A s \in Sections, k \in Key :
              ParseDeviceStanbyConfig(map, file, source)[s][k] =
                Entry(map, s, k, FileOffers(file, s, k), source)
<1> DEFINE bad == Disordered(file)
           order == IF bad = {} THEN SectionOrder ELSE SubSeq(SectionOrder, 1, Min(bad))
<1>1. SectionOrder \in Seq(SectionNames) /\ Len(SectionOrder) \in Nat
  BY OrdersAreSequences
<1>2. DOMAIN SectionOrder = 1..Len(SectionOrder)
  BY <1>1
<1>3. bad \subseteq 1..Len(SectionOrder)
  BY <1>2 DEF Disordered
<1>4. \A i \in 1..Len(SectionOrder) :
        i \notin bad <=>
          (SectionOrder[i] \in Sections => Clean(SectionOrder[i], file[SectionOrder[i]]))
  BY <1>2 DEF Disordered
<1>5. ParseDeviceStanbyConfig(map, file, source) = ParseSections(map, order, file, source)
  BY DEF ParseDeviceStanbyConfig
<1>6. \A s, k : FileOffers(file, s, k) <=>
        \E i \in 1..Len(SectionOrder) :
          Gives(SectionOrder[i], file, s, k) /\ \A j \in 1..(i - 1) : j \notin bad
  <2> SUFFICES ASSUME NEW s, NEW k
               PROVE  FileOffers(file, s, k) <=>
                        \E i \in 1..Len(SectionOrder) :
                          Gives(SectionOrder[i], file, s, k) /\ \A j \in 1..(i - 1) : j \notin bad
    OBVIOUS
  <2>1. \A i \in 1..Len(SectionOrder) : \A j \in 1..(i - 1) : j \in 1..Len(SectionOrder)
    BY <1>1
  <2> HIDE DEF bad
  <2>2. \A i \in 1..Len(SectionOrder) :
          (\A j \in 1..(i - 1) : j \notin bad) <=>
          (\A j \in 1..(i - 1) :
             SectionOrder[j] \in Sections => Clean(SectionOrder[j], file[SectionOrder[j]]))
    BY <2>1, <1>4
  <2>3. FileOffers(file, s, k) <=>
          \E i \in 1..Len(SectionOrder) :
            /\ Gives(SectionOrder[i], file, s, k)
            /\ \A j \in 1..(i - 1) :
                 SectionOrder[j] \in Sections => Clean(SectionOrder[j], file[SectionOrder[j]])
    BY <1>2 DEF FileOffers, Gives
  <2> QED BY <2>2, <2>3
<1> HIDE DEF bad
<1>7. ASSUME NEW s, NEW k
      PROVE  /\ order \in Seq(SectionNames)
             /\ FileOffers(file, s, k) <=> \E i \in 1..Len(order) : Gives(order[i], file, s, k)
  <2>1. CASE bad = {}
    BY <2>1, <1>1, <1>6
  <2>2. CASE bad # {}
    <3> DEFINE b == Min(bad)
    <3>1. bad \subseteq Nat
      BY <1>3
    <3>2. b \in bad /\ \A n \in bad : b <= n
      BY <3>1, <2>2, MinThere
    <3>3. b \in 1..Len(SectionOrder)
      BY <3>2, <1>3
    <3>4. order = SubSeq(SectionOrder, 1, b)
      BY <2>2
    <3> HIDE DEF b, order
    <3>5. /\ order \in Seq(SectionNames) /\ Len(order) = b
          /\ \A i \in 1..b : order[i] = SectionOrder[i]
      BY <3>3, <3>4, <1>1
    <3>6. \A i \in 1..Len(SectionOrder) : (\A j \in 1..(i - 1) : j \notin bad) <=> i \in 1..b
      <4> TAKE i \in 1..Len(SectionOrder)
      <4>0. i \in Int /\ b \in Int /\ 1 <= i /\ 1 <= b
        BY <3>3, <1>1
      <4>1. ASSUME \A j \in 1..(i - 1) : j \notin bad PROVE i \in 1..b
        <5>1. b \notin 1..(i - 1)
          BY <4>1, <3>2
        <5> QED BY <5>1, <4>0
      <4>2. ASSUME i \in 1..b, NEW j \in 1..(i - 1) PROVE j \notin bad
        <5>1. j < b
          BY <4>0, <4>2
        <5>2. j \in bad => b <= j
          BY <3>2
        <5>3. j \in Int
          BY <4>0
        <5> QED BY <5>1, <5>2, <5>3, <4>0
      <4> QED BY <4>1, <4>2
    <3>7. \A i \in 1..b : i \in 1..Len(SectionOrder)
      BY <3>3, <1>1
    <3>8. FileOffers(file, s, k) <=> \E i \in 1..b : Gives(SectionOrder[i], file, s, k)
      BY <3>6, <3>7, <1>6
    <3>9. (\E i \in 1..b : Gives(SectionOrder[i], file, s, k)) <=>
          (\E i \in 1..b : Gives(order[i], file, s, k))
      BY <3>5
    <3> QED BY <3>5, <3>8, <3>9
  <2> QED BY <2>1, <2>2
<1> HIDE DEF order
<1>8. order \in Seq(SectionNames)
  BY <1>7
<1>9. /\ ParseSections(map, order, file, source) \in EntryMaps
      /\ \A s \in Sections, k \in Key :
           ParseSections(map, order, file, source)[s][k] =
             Entry(map, s, k, Among(order, file, s, k), source)
  BY <1>8, SectionsGive
<1>10. ASSUME NEW s \in Sections, NEW k \in Key
       PROVE  ParseSections(map, order, file, source)[s][k] =
                Entry(map, s, k, FileOffers(file, s, k), source)
  <2>1. FileOffers(file, s, k) <=> Among(order, file, s, k)
    BY <1>7 DEF Among
  <2> QED BY <2>1, <1>9 DEF Entry
<1> QED BY <1>5, <1>9, <1>10

(* The cloud offers an entry of one of its sections.                       *)
CloudOffers(file, s, k) == s \in CloudPart /\ k \in Taken(s, file[s])

(* What the cloud gives.                                                   *)
LEMMA CloudGives ==
  ASSUME NEW map \in EntryMaps, NEW file
  PROVE  /\ ParseCloudConfig(map, file) \in EntryMaps
         /\ \A s \in Sections, k \in Key :
              ParseCloudConfig(map, file)[s][k] =
                IF CloudOffers(file, s, k) THEN Cloud ELSE map[s][k]
<1>1. CloudSections \in Seq(SectionNames) /\ DOMAIN CloudSections = 1..Len(CloudSections)
  <2>1. CloudSections \in Seq(SectionNames)
    BY OrdersAreSequences
  <2> QED BY <2>1
<1>2. Cloud \in Nat /\ Cloud # Absent
  BY ConfigAssumption DEF Cloud, Absent
<1>3. \A i \in 1..Len(CloudSections) :
        MapOf(CloudSections[i]) = CloudSections[i] /\ CloudSections[i] \notin FirstWins
  BY DEF CloudSections, MapOf, FirstWins
<1>4. ASSUME NEW s \in Sections, NEW k
      PROVE  /\ CloudOffers(file, s, k) <=>
                  \E i \in 1..Len(CloudSections) : Gives(CloudSections[i], file, s, k)
             /\ CloudOffers(file, s, k) => s \notin FirstWins
  <2>1. s \in CloudPart <=> \E i \in 1..Len(CloudSections) : s = CloudSections[i]
    BY <1>1 DEF CloudPart, Range
  <2>2. \A i \in 1..Len(CloudSections) :
          Gives(CloudSections[i], file, s, k) <=> s = CloudSections[i] /\ k \in Taken(s, file[s])
    BY <1>3 DEF Gives
  <2>3. CloudOffers(file, s, k) <=> s \in CloudPart /\ k \in Taken(s, file[s])
    BY DEF CloudOffers
  <2> QED BY <2>1, <2>2, <2>3, <1>3
<1>5. /\ ParseCloudConfig(map, file) \in EntryMaps
      /\ \A s \in Sections, k \in Key :
           ParseCloudConfig(map, file)[s][k] =
             Entry(map, s, k, Among(CloudSections, file, s, k), Cloud)
  BY <1>1, <1>2, SectionsGive DEF ParseCloudConfig
<1>6. ASSUME NEW s \in Sections, NEW k \in Key
      PROVE  ParseCloudConfig(map, file)[s][k] =
               IF CloudOffers(file, s, k) THEN Cloud ELSE map[s][k]
  <2>1. CloudOffers(file, s, k) <=> Among(CloudSections, file, s, k)
    BY <1>4 DEF Among
  <2>2. CloudOffers(file, s, k) => s \notin FirstWins
    BY <1>4
  <2> QED BY <2>1, <2>2, <1>5 DEF Entry
<1> QED BY <1>5, <1>6

-----------------------------------------------------------------------------
(* Sources.                                                                *)

(* The source that a value comes from, of those that offer it.             *)
MergedOf(s, T) == IF T = {} THEN Absent ELSE IF s \in FirstWins THEN Min(T) ELSE Max(T)

(* Nothing is merged from nothing only.                                    *)
LEMMA MergedAbsent ==
  ASSUME NEW s, NEW n \in Nat, NEW T \in SUBSET (1..n)
  PROVE  MergedOf(s, T) = Absent <=> T = {}
<1>1. T \subseteq Nat /\ 0 \notin T
  OBVIOUS
<1>2. T # {} => Min(T) \in T /\ Max(T) \in T
  BY <1>1, MinThere, MaxThere
<1> QED BY <1>1, <1>2 DEF MergedOf, Absent

(* A later source is merged as Entry does it.                              *)
LEMMA MergedLater ==
  ASSUME NEW s, NEW n \in Nat, NEW T \in SUBSET (1..n), NEW m \in Nat, n < m
  PROVE  MergedOf(s, T \cup {m}) =
           IF s \in FirstWins => MergedOf(s, T) = Absent THEN m ELSE MergedOf(s, T)
<1> DEFINE U == T \cup {m}
<1>1. U \subseteq Int /\ m \in U /\ U # {} /\ T \subseteq Nat /\ \A i \in T : i < m
  OBVIOUS
<1>2. Max(U) = m
  <2>1. \A i \in U : i <= m
    BY <1>1
  <2> QED BY <2>1, <1>1, MaxIs
<1>3. CASE T = {}
  <2>1. \A i \in U : m <= i
    BY <1>3
  <2>2. Min(U) = m
    BY <2>1, <1>1, MinIs
  <2> QED BY <2>2, <1>2, <1>3 DEF MergedOf
<1>4. CASE T # {}
  <2>1. Min(T) \in T /\ \A i \in T : Min(T) <= i
    BY <1>1, <1>4, MinThere
  <2>2. Min(T) \in U /\ \A i \in U : Min(T) <= i
    <3> DEFINE c == Min(T)
    <3>1. c \in T /\ \A i \in T : c <= i
      BY <2>1
    <3> HIDE DEF c
    <3>2. c <= m /\ \A i \in U : i \in T \/ i = m
      BY <3>1, <1>1
    <3>3. c \in U /\ \A i \in U : c <= i
      BY <3>1, <3>2
    <3> QED BY <3>3 DEF c
  <2>3. Min(U) = Min(T)
    BY <2>2, <1>1, MinIs
  <2>4. MergedOf(s, T) # Absent
    BY <1>4, MergedAbsent
  <2>5. MergedOf(s, T) = IF s \in FirstWins THEN Min(T) ELSE Max(T)
    BY <1>4 DEF MergedOf
  <2>6. MergedOf(s, U) = IF s \in FirstWins THEN Min(U) ELSE Max(U)
    BY <1>1 DEF MergedOf
  <2> QED BY <1>2, <2>3, <2>4, <2>5, <2>6
<1> QED BY <1>3, <1>4

(* A cloud that was not read offers nothing.                               *)
LEMMA NoCloudOffers ==
  ASSUME NEW s, NEW k
  PROVE  ~ CloudOffers(NoCloud, s, k)
<1> SUFFICES ASSUME s \in CloudPart PROVE k \notin Taken(s, NoCloud[s])
  BY DEF CloudOffers
<1>1. NoCloud[s] = [j \in Key |-> "absent"]
  BY DEF NoCloud
<1> QED BY <1>1 DEF Taken

-----------------------------------------------------------------------------
(* The inductive invariant.                                                *)

Stages == {"files", "strategies", "cloud", "no cloud", "ready"}
VersionTexts == Version \cup {NoVersion}
Versions == [device : Seq(Version), strategy : Seq(Version), cloud : VersionTexts]
Said == [content : ResContent, source : Nat]

TypeOK ==
  /\ stage \in Stages
  /\ configMap \in EntryMaps
  /\ files \in Seq([Sections -> Content]) /\ Len(files) <= MaxFiles /\ resFiles \in Seq(Said)
  /\ versions \in Versions
  /\ backup \in [Key -> Nat] /\ debugMode \in BOOLEAN /\ misused \in BOOLEAN

(* The maps are merged, until the shell is used; the backup of the shell   *)
(* is what was merged, unless the shell was misused.                       *)
EntriesMerged ==
  \A s \in Sections \ {"detect_list"}, k \in Key :
    configMap[s][k] = MergedOf(s, Offers(s, k)) \/ (s = "standby" /\ (debugMode \/ misused))
BackupMerged ==
  debugMode /\ ~ misused => \A k \in Key : backup[k] = MergedOf("standby", Offers("standby", k))
Unread == stage # "ready" => cloudFile = NoCloud /\ ~ debugMode /\ ~ misused

(* The resources come from the files that were read.                       *)
ResourcesMerged ==
  /\ resConfig.raw = LastSource(ResContent \ {"absent"})
  /\ resConfig.whole = LastSource(Whole) /\ resConfig.timer \in {LastSource(Whole), Absent}

(* The stage after the comparison is what was decided.                     *)
Decided ==
  /\ stage = "cloud" => NeedsToReadCloudConfig(versions)
  /\ stage = "no cloud" => ~ NeedsToReadCloudConfig(versions)
  /\ stage = "ready" => versions = NoVersions

ConfigInv == TypeOK /\ EntriesMerged /\ BackupMerged /\ Unread /\ ResourcesMerged /\ Decided

(* The first state.                                                        *)
LEMMA ConfigInit ==
  ASSUME Init
  PROVE  ConfigInv
<1> USE DEF Init
<1>1. TypeOK
  <2>1. NoEntries \in [Key -> Nat]
    BY DEF NoEntries, Absent
  <2>2. configMap \in EntryMaps
    BY <2>1 DEF EntryMaps
  <2>3. versions \in Versions
    BY DEF NoVersions, VersionTexts, Versions
  <2>4. resFiles \in Seq(Said) /\ files \in Seq([Sections -> Content]) /\ Len(files) <= MaxFiles
    BY ConfigAssumption
  <2>5. stage \in Stages
    BY DEF Stages
  <2> QED BY <2>1, <2>2, <2>3, <2>4, <2>5 DEF TypeOK
<1>2. \A s, k : Offers(s, k) = {}
  <2> SUFFICES ASSUME NEW s, NEW k PROVE Offers(s, k) = {}
    OBVIOUS
  <2>1. ~ CloudOffers(NoCloud, s, k)
    BY NoCloudOffers
  <2>2. ~ (s \in CloudPart /\ k \in Taken(s, cloudFile[s]))
    BY <2>1 DEF CloudOffers
  <2>3. DOMAIN files = {}
    OBVIOUS
  <2> QED BY <2>2, <2>3 DEF Offers
<1>3. EntriesMerged
  <2>1. \A s \in Sections, k \in Key : configMap[s][k] = Absent
    BY DEF NoEntries
  <2> QED BY <2>1, <1>2 DEF EntriesMerged, MergedOf
<1>4. BackupMerged /\ Unread
  BY DEF BackupMerged, Unread
<1>5. ResourcesMerged
  <2>1. \A contents : LastSource(contents) = Absent
    BY DEF LastSource
  <2> QED BY <2>1 DEF ResourcesMerged
<1>6. Decided
  BY DEF Decided
<1> QED BY <1>1, <1>3, <1>4, <1>5, <1>6 DEF ConfigInv

(* The operations keep the types.                                          *)
LEMMA TypeStep ==
  ASSUME TypeOK, [Next]_vars
  PROVE  TypeOK'
<1> USE DEF TypeOK
<1>0. VersionTexts = Version \cup {NoVersion} /\ NoVersion \in VersionTexts
  BY DEF VersionTexts
<1>01. NoVersions \in Versions
  BY <1>0 DEF NoVersions, Versions
<1>1. ASSUME NEW file \in [Sections -> Content], NEW v \in Version, ReadDeviceFile(file, v)
      PROVE  TypeOK'
  <2>1. Len(files) + 1 \in Nat /\ Len(files) + 1 # Absent
    BY DEF Absent
  <2>2. configMap' \in EntryMaps
    BY <2>1, <1>1, DeviceGives DEF ReadDeviceFile
  <2>3. files' \in Seq([Sections -> Content]) /\ Len(files') <= MaxFiles
    BY <1>1, ConfigAssumption DEF ReadDeviceFile, RoomFor
  <2>4. versions' \in Versions
    <3>1. versions' = [versions EXCEPT !.device = Append(versions.device, v)]
      BY <1>1 DEF ReadDeviceFile
    <3>2. Append(versions.device, v) \in Seq(Version)
      BY DEF Versions
    <3> QED BY <3>1, <3>2 DEF Versions
  <2>5. stage' = stage /\ UNCHANGED <<resFiles, backup, debugMode, misused>>
    BY <1>1 DEF ReadDeviceFile, dump
  <2> QED BY <2>2, <2>3, <2>4, <2>5
<1>2. ASSUME NEW content \in ResContent, NEW v \in Version, ReadStrategyFile(content, v)
      PROVE  TypeOK'
  <2>1. versions' \in Versions
    <3>1. versions' = [versions EXCEPT !.strategy = Append(versions.strategy, v)]
      BY <1>2 DEF ReadStrategyFile
    <3>2. Append(versions.strategy, v) \in Seq(Version)
      BY DEF Versions
    <3> QED BY <3>1, <3>2 DEF Versions
  <2>2. stage' \in Stages /\ UNCHANGED <<configMap, files, backup, debugMode, misused>>
    BY <1>2 DEF ReadStrategyFile, dump, Stages
  <2>3. resFiles' \in Seq(Said)
    <3>1. [content |-> content, source |-> Len(resFiles) + 1] \in Said
      BY DEF Said
    <3> QED BY <3>1, <1>2 DEF ReadStrategyFile
  <2> QED BY <2>1, <2>2, <2>3
<1>3. ASSUME NEW v \in Version, CompareWithCloud(v)
      PROVE  TypeOK'
  <2>1. versions' \in Versions
    BY <1>0, <1>3 DEF CompareWithCloud, Versions
  <2>2. stage' \in Stages /\ UNCHANGED <<configMap, files, resFiles, backup, debugMode, misused>>
    BY <1>3 DEF CompareWithCloud, files_, dump, Stages
  <2> QED BY <2>1, <2>2
<1>4. ASSUME NEW file \in [CloudPart -> Content], NEW content \in ResContent,
             ReadCloud(file, content)
      PROVE  TypeOK'
  <2>1. configMap' \in EntryMaps
    BY <1>4, CloudGives DEF ReadCloud
  <2>2. versions' \in Versions
    BY <1>4, <1>01 DEF ReadCloud
  <2>3. stage' \in Stages /\ UNCHANGED <<files, backup, debugMode, misused>>
    BY <1>4 DEF ReadCloud, dump, Stages
  <2>4. resFiles' \in Seq(Said)
    <3>1. [content |-> content, source |-> Cloud] \in Said
      BY ConfigAssumption DEF Said, Cloud
    <3> QED BY <3>1, <1>4 DEF ReadCloud
  <2> QED BY <2>1, <2>2, <2>3, <2>4
<1>5. ASSUME SkipCloud
      PROVE  TypeOK'
  <2>1. versions' \in Versions
    BY <1>5, <1>01 DEF SkipCloud
  <2>2. stage' \in Stages /\ UNCHANGED <<configMap, files, resFiles, backup, debugMode, misused>>
    BY <1>5 DEF SkipCloud, files_, dump, Stages
  <2> QED BY <2>1, <2>2
<1>6. ASSUME NEW on \in BOOLEAN, DumpSetDebugMode(on)
      PROVE  TypeOK'
  <2>1. configMap["standby"] \in [Key -> Nat] /\ NoEntries \in [Key -> Nat]
    BY ConfigAssumption DEF EntryMaps, NoEntries, Absent
  <2>2. backup' \in [Key -> Nat]
    BY <2>1, <1>6 DEF DumpSetDebugMode
  <2>3. configMap' \in EntryMaps
    BY <1>6 DEF DumpSetDebugMode, EntryMaps
  <2>4. debugMode' \in BOOLEAN /\ misused' \in BOOLEAN
    BY <1>6 DEF DumpSetDebugMode
  <2>5. UNCHANGED <<stage, files, resFiles, versions>>
    BY <1>6 DEF DumpSetDebugMode, files_
  <2> QED BY <2>2, <2>3, <2>4, <2>5
<1>7. ASSUME NEW k \in Key, DumpSet(k)
      PROVE  TypeOK'
  <2>1. configMap' = [configMap EXCEPT !["standby"][k] = Debug] /\ Debug \in Nat
    BY <1>7, ConfigAssumption DEF DumpSet, Debug
  <2>2. configMap' \in EntryMaps
    BY <2>1, ConfigAssumption DEF EntryMaps
  <2>3. UNCHANGED <<stage, files, resFiles, versions, backup, debugMode, misused>>
    BY <1>7 DEF DumpSet, files_
  <2> QED BY <2>2, <2>3
<1>8. ASSUME UNCHANGED vars
      PROVE  TypeOK'
  BY <1>8 DEF vars, files_, dump
<1> QED BY <1>1, <1>2, <1>3, <1>4, <1>5, <1>6, <1>7, <1>8 DEF Next

(* The files that offer an entry, and the cloud.                           *)
LEMMA OffersAre ==
  ASSUME NEW s, NEW k
  PROVE  /\ Offers(s, k) = {f \in DOMAIN files : FileOffers(files[f], s, k)}
                             \cup (IF CloudOffers(cloudFile, s, k) THEN {Cloud} ELSE {})
         /\ Offers(s, k)' = {f \in DOMAIN files' : FileOffers(files'[f], s, k)}
                             \cup (IF CloudOffers(cloudFile', s, k) THEN {Cloud} ELSE {})
<1>1. Offers(s, k) = {f \in DOMAIN files : FileOffers(files[f], s, k)}
                       \cup (IF CloudOffers(cloudFile, s, k) THEN {Cloud} ELSE {})
  BY DEF Offers, CloudOffers
<1>2. Offers(s, k)' = {f \in DOMAIN files' : FileOffers(files'[f], s, k)}
                        \cup (IF CloudOffers(cloudFile', s, k) THEN {Cloud} ELSE {})
  BY DEF Offers, CloudOffers
<1> QED BY <1>1, <1>2

(* Who offers is known from what was read.                                 *)
LEMMA OffersKept ==
  ASSUME UNCHANGED <<files, cloudFile>>, NEW s, NEW k
  PROVE  Offers(s, k)' = Offers(s, k)
BY OffersAre

(* Before the cloud is read only files offer.                              *)
LEMMA OffersOfFiles ==
  ASSUME TypeOK, Unread, stage # "ready", NEW s, NEW k
  PROVE  /\ Offers(s, k) = {f \in DOMAIN files : FileOffers(files[f], s, k)}
         /\ Offers(s, k) \in SUBSET (1..Len(files)) /\ Len(files) \in Nat
<1>1. cloudFile = NoCloud
  BY DEF Unread
<1>2. ~ CloudOffers(cloudFile, s, k)
  BY <1>1, NoCloudOffers
<1>3. Offers(s, k) = {f \in DOMAIN files : FileOffers(files[f], s, k)}
  BY <1>2, OffersAre
<1>4. DOMAIN files = 1..Len(files) /\ Len(files) \in Nat
  BY DEF TypeOK
<1> QED BY <1>3, <1>4

(* A file that is read.                                                    *)
LEMMA DeviceFileMerged ==
  ASSUME TypeOK, EntriesMerged, BackupMerged, Unread,
         NEW file \in [Sections -> Content], NEW v \in Version, ReadDeviceFile(file, v)
  PROVE  EntriesMerged' /\ BackupMerged' /\ Unread'
<1> DEFINE n == Len(files)
<1>1. stage = "files" /\ stage' = stage /\ UNCHANGED <<cloudFile, debugMode, misused>>
  BY DEF ReadDeviceFile, files_, dump
<1>2. cloudFile = NoCloud /\ ~ debugMode /\ ~ misused
  BY <1>1 DEF Unread
<1>3. Unread'
  BY <1>1, <1>2 DEF Unread
<1>4. BackupMerged'
  <2>1. ~ debugMode'
    BY <1>1, <1>2
  <2> QED BY <2>1 DEF BackupMerged
<1>5. n \in Nat /\ n + 1 \in Nat /\ n < n + 1 /\ n + 1 # Absent
  BY DEF TypeOK, Absent
<1>6. files \in Seq([Sections -> Content]) /\ files' = Append(files, file)
  BY DEF ReadDeviceFile, TypeOK
<1>7. /\ DOMAIN files = 1..n /\ DOMAIN files' = 1..(n + 1)
      /\ files'[n + 1] = file /\ \A f \in 1..n : files'[f] = files[f]
  BY <1>6
<1>8. configMap' = ParseDeviceStanbyConfig(configMap, file, n + 1)
  BY DEF ReadDeviceFile
<1>9. configMap \in EntryMaps
  BY DEF TypeOK
<1>10. ASSUME NEW s \in Sections \ {"detect_list"}, NEW k \in Key
       PROVE  configMap'[s][k] = MergedOf(s, Offers(s, k)')
  <2> DEFINE T == Offers(s, k)
  <2>1. T = {f \in DOMAIN files : FileOffers(files[f], s, k)} /\ T \in SUBSET (1..n)
    BY <1>1, OffersOfFiles
  <2>2. Offers(s, k)' = {f \in DOMAIN files' : FileOffers(files'[f], s, k)}
    <3>1. ~ CloudOffers(cloudFile', s, k)
      BY <1>1, <1>2, NoCloudOffers
    <3> QED BY <3>1, OffersAre
  <2> HIDE DEF n
  <2>3. Offers(s, k)' = T \cup (IF FileOffers(file, s, k) THEN {n + 1} ELSE {})
    <3>1. \A f \in 1..(n + 1) : f \in 1..n \/ f = n + 1
      BY <1>5
    <3>2. n + 1 \in 1..(n + 1) /\ \A f \in 1..n : f \in 1..(n + 1)
      BY <1>5
    <3>3. \A f : f \in Offers(s, k)' <=> f \in 1..(n + 1) /\ FileOffers(files'[f], s, k)
      BY <2>2, <1>7
    <3>4. \A f : f \in T <=> f \in 1..n /\ FileOffers(files[f], s, k)
      BY <2>1, <1>7
    <3> HIDE DEF T
    <3>5. \A f : f \in Offers(s, k)' <=> f \in T \/ (f = n + 1 /\ FileOffers(file, s, k))
      BY <3>1, <3>2, <3>3, <3>4, <1>7
    <3> QED BY <3>5
  <2>4. configMap[s][k] = MergedOf(s, T)
    BY <1>2 DEF EntriesMerged
  <2>5. configMap'[s][k] = Entry(configMap, s, k, FileOffers(file, s, k), n + 1)
    BY <1>5, <1>8, <1>9, DeviceGives
  <2> HIDE DEF T
  <2>6. CASE FileOffers(file, s, k)
    <3>1. MergedOf(s, T \cup {n + 1}) =
            IF s \in FirstWins => MergedOf(s, T) = Absent THEN n + 1 ELSE MergedOf(s, T)
      <4>1. ASSUME NEW m \in Nat, n < m
            PROVE  MergedOf(s, T \cup {m}) =
                     IF s \in FirstWins => MergedOf(s, T) = Absent THEN m ELSE MergedOf(s, T)
        BY <4>1, <1>5, <2>1, MergedLater
      <4> QED BY <4>1, <1>5
    <3>2. Offers(s, k)' = T \cup {n + 1}
      BY <2>3, <2>6
    <3>3. configMap'[s][k] =
            IF s \in FirstWins => configMap[s][k] = Absent THEN n + 1 ELSE configMap[s][k]
      BY <2>5, <2>6 DEF Entry
    <3> QED BY <3>1, <3>2, <3>3, <2>4
  <2>7. CASE ~ FileOffers(file, s, k)
    <3>1. Offers(s, k)' = T
      BY <2>3, <2>7
    <3>2. configMap'[s][k] = configMap[s][k]
      BY <2>5, <2>7 DEF Entry
    <3> QED BY <3>1, <3>2, <2>4
  <2> QED BY <2>6, <2>7
<1>11. EntriesMerged'
  BY <1>10 DEF EntriesMerged
<1> QED BY <1>3, <1>4, <1>11

(* The cloud.                                                              *)
LEMMA CloudMerged ==
  ASSUME TypeOK, EntriesMerged, BackupMerged, Unread,
         NEW file \in [CloudPart -> Content], NEW content \in ResContent,
         ReadCloud(file, content)
  PROVE  EntriesMerged' /\ BackupMerged' /\ Unread'
<1> DEFINE n == Len(files)
<1>1. /\ stage = "cloud" /\ stage' = "ready" /\ cloudFile' = file
      /\ UNCHANGED <<files, debugMode, misused>>
  BY DEF ReadCloud, dump
<1>2. ~ debugMode /\ ~ misused
  BY <1>1 DEF Unread
<1>3. Unread'
  BY <1>1 DEF Unread
<1>4. BackupMerged'
  <2>1. ~ debugMode'
    BY <1>1, <1>2
  <2> QED BY <2>1 DEF BackupMerged
<1>5. n \in Nat /\ Cloud \in Nat /\ n < Cloud
  BY ConfigAssumption DEF TypeOK, Cloud
<1>6. ASSUME NEW s \in Sections \ {"detect_list"}, NEW k \in Key
      PROVE  configMap'[s][k] = MergedOf(s, Offers(s, k)')
  <2> DEFINE T == Offers(s, k)
  <2>1. T = {f \in DOMAIN files : FileOffers(files[f], s, k)} /\ T \in SUBSET (1..n)
    BY <1>1, OffersOfFiles
  <2>2. Offers(s, k)' = T \cup (IF CloudOffers(file, s, k) THEN {Cloud} ELSE {})
    BY <1>1, <2>1, OffersAre
  <2>3. configMap[s][k] = MergedOf(s, T)
    BY <1>2 DEF EntriesMerged
  <2>4. configMap' = ParseCloudConfig(configMap, file) /\ configMap \in EntryMaps
    BY DEF ReadCloud, TypeOK
  <2>5. configMap'[s][k] = IF CloudOffers(file, s, k) THEN Cloud ELSE configMap[s][k]
    BY <2>4, CloudGives
  <2> HIDE DEF n, T
  <2>6. CASE CloudOffers(file, s, k)
    <3>1. MergedOf(s, T \cup {Cloud}) =
            IF s \in FirstWins => MergedOf(s, T) = Absent THEN Cloud ELSE MergedOf(s, T)
      BY <1>5, <2>1, MergedLater
    <3>2. s \notin FirstWins
      <4>1. s \in CloudPart
        BY <2>6 DEF CloudOffers
      <4> QED BY <4>1 DEF CloudPart, CloudSections, Range, FirstWins
    <3> QED BY <3>1, <3>2, <2>2, <2>5, <2>6
  <2>7. CASE ~ CloudOffers(file, s, k)
    BY <2>7, <2>2, <2>3, <2>5
  <2> QED BY <2>6, <2>7
<1>7. EntriesMerged'
  BY <1>6 DEF EntriesMerged
<1> QED BY <1>3, <1>4, <1>7

(* The mode of the shell: what is put aside is what was merged, and it is  *)
(* what is put back.                                                       *)
LEMMA DebugModeMerged ==
  ASSUME TypeOK, EntriesMerged, BackupMerged, Unread,
         NEW on \in BOOLEAN, DumpSetDebugMode(on)
  PROVE  EntriesMerged' /\ BackupMerged' /\ Unread'
<1>1. stage = "ready" /\ stage' = stage /\ UNCHANGED <<files, cloudFile>>
  BY DEF DumpSetDebugMode, Dumped, files_
<1>2. Unread'
  BY <1>1 DEF Unread
<1>3. \A s, k : Offers(s, k)' = Offers(s, k)
  BY <1>1, OffersKept
<1>4. "standby" \in Sections \ {"detect_list"}
  BY ConfigAssumption
<1>5. configMap \in [Sections -> [Key -> Nat]]
  BY DEF TypeOK, EntryMaps
<1>6. CASE on = TRUE
  <2>1. debugMode' /\ configMap' = configMap /\ backup' = configMap["standby"]
    BY <1>6 DEF DumpSetDebugMode
  <2>2. misused' \/ (~ misused /\ ~ debugMode)
    BY <1>6 DEF DumpSetDebugMode, TypeOK
  <2>3. EntriesMerged'
    <3> SUFFICES ASSUME NEW s \in Sections \ {"detect_list"}, NEW k \in Key
                 PROVE  configMap'[s][k] = MergedOf(s, Offers(s, k)')
                          \/ (s = "standby" /\ (debugMode' \/ misused'))
      BY DEF EntriesMerged
    <3>1. configMap[s][k] = MergedOf(s, Offers(s, k)) \/ s = "standby"
      BY DEF EntriesMerged
    <3> QED BY <3>1, <2>1, <1>3
  <2>4. BackupMerged'
    <3> SUFFICES ASSUME ~ misused', NEW k \in Key
                 PROVE  backup'[k] = MergedOf("standby", Offers("standby", k)')
      BY DEF BackupMerged
    <3>1. configMap["standby"][k] = MergedOf("standby", Offers("standby", k))
      BY <2>2, <1>4 DEF EntriesMerged
    <3> QED BY <3>1, <2>1, <1>3
  <2> QED BY <2>3, <2>4, <1>2
<1>7. CASE on = FALSE
  <2>1. ~ debugMode' /\ configMap' = [configMap EXCEPT !["standby"] = backup]
    BY <1>7 DEF DumpSetDebugMode
  <2>2. misused' \/ (~ misused /\ debugMode)
    BY <1>7 DEF DumpSetDebugMode, TypeOK
  <2>3. EntriesMerged'
    <3> SUFFICES ASSUME NEW s \in Sections \ {"detect_list"}, NEW k \in Key
                 PROVE  configMap'[s][k] = MergedOf(s, Offers(s, k)')
                          \/ (s = "standby" /\ (debugMode' \/ misused'))
      BY DEF EntriesMerged
    <3>1. CASE s = "standby"
      <4>1. configMap'[s] = backup
        BY <2>1, <3>1, <1>4, <1>5
      <4>2. misused' \/ backup[k] = MergedOf("standby", Offers("standby", k))
        BY <2>2 DEF BackupMerged
      <4> QED BY <4>1, <4>2, <3>1, <1>3
    <3>2. CASE s # "standby"
      <4>1. configMap'[s] = configMap[s]
        BY <2>1, <3>2, <1>5
      <4>2. configMap[s][k] = MergedOf(s, Offers(s, k))
        BY <3>2 DEF EntriesMerged
      <4> QED BY <4>1, <4>2, <1>3
    <3> QED BY <3>1, <3>2
  <2>4. BackupMerged'
    BY <2>1 DEF BackupMerged
  <2> QED BY <2>3, <2>4, <1>2
<1> QED BY <1>6, <1>7

(* A value that the shell sets.                                            *)
LEMMA SetMerged ==
  ASSUME TypeOK, EntriesMerged, BackupMerged, Unread, NEW j \in Key, DumpSet(j)
  PROVE  EntriesMerged' /\ BackupMerged' /\ Unread'
<1>1. /\ stage = "ready" /\ debugMode
      /\ UNCHANGED <<stage, files, cloudFile, backup, debugMode, misused>>
  BY DEF DumpSet, Dumped, files_
<1>2. Unread'
  BY <1>1 DEF Unread
<1>3. \A s, k : Offers(s, k)' = Offers(s, k)
  BY <1>1, OffersKept
<1>4. BackupMerged'
  <2> SUFFICES ASSUME debugMode', ~ misused', NEW k \in Key
               PROVE  backup'[k] = MergedOf("standby", Offers("standby", k)')
    BY DEF BackupMerged
  <2>1. backup[k] = MergedOf("standby", Offers("standby", k))
    BY <1>1 DEF BackupMerged
  <2> QED BY <2>1, <1>1, <1>3
<1>5. EntriesMerged'
  <2> SUFFICES ASSUME NEW s \in Sections \ {"detect_list"}, NEW k \in Key, s # "standby"
               PROVE  configMap'[s][k] = MergedOf(s, Offers(s, k)')
    BY <1>1 DEF EntriesMerged
  <2>1. configMap'[s] = configMap[s]
    BY DEF DumpSet, TypeOK, EntryMaps
  <2>2. configMap[s][k] = MergedOf(s, Offers(s, k))
    BY DEF EntriesMerged
  <2> QED BY <2>1, <2>2, <1>3
<1> QED BY <1>2, <1>4, <1>5

(* The other operations leave the entries and what offers them alone.      *)
LEMMA EntriesStep ==
  ASSUME TypeOK, EntriesMerged, BackupMerged, Unread, [Next]_vars
  PROVE  EntriesMerged' /\ BackupMerged' /\ Unread'
<1>1. ASSUME NEW file \in [Sections -> Content], NEW v \in Version, ReadDeviceFile(file, v)
      PROVE  EntriesMerged' /\ BackupMerged' /\ Unread'
  BY <1>1, DeviceFileMerged
<1>2. ASSUME NEW file \in [CloudPart -> Content], NEW content \in ResContent,
             ReadCloud(file, content)
      PROVE  EntriesMerged' /\ BackupMerged' /\ Unread'
  BY <1>2, CloudMerged
<1>3. ASSUME NEW on \in BOOLEAN, DumpSetDebugMode(on)
      PROVE  EntriesMerged' /\ BackupMerged' /\ Unread'
  BY <1>3, DebugModeMerged
<1>4. ASSUME NEW k \in Key, DumpSet(k)
      PROVE  EntriesMerged' /\ BackupMerged' /\ Unread'
  BY <1>4, SetMerged
<1>5. ASSUME UNCHANGED <<configMap, files, cloudFile, backup, debugMode, misused>>,
             stage' # "ready" => stage # "ready"
      PROVE  EntriesMerged' /\ BackupMerged' /\ Unread'
  <2>1. \A s, k : Offers(s, k)' = Offers(s, k)
    BY <1>5, OffersKept
  <2>2. EntriesMerged'
    BY <2>1, <1>5 DEF EntriesMerged
  <2>3. BackupMerged'
    BY <2>1, <1>5 DEF BackupMerged
  <2>4. Unread'
    BY <1>5 DEF Unread
  <2> QED BY <2>2, <2>3, <2>4
<1>6. ASSUME NEW content \in ResContent, NEW v \in Version, ReadStrategyFile(content, v)
      PROVE  EntriesMerged' /\ BackupMerged' /\ Unread'
  BY <1>5, <1>6 DEF ReadStrategyFile, dump
<1>7. ASSUME NEW v \in Version, CompareWithCloud(v)
      PROVE  EntriesMerged' /\ BackupMerged' /\ Unread'
  BY <1>5, <1>7 DEF CompareWithCloud, files_, dump
<1>8. ASSUME SkipCloud
      PROVE  EntriesMerged' /\ BackupMerged' /\ Unread'
  BY <1>5, <1>8 DEF SkipCloud, files_, dump
<1>9. ASSUME UNCHANGED vars
      PROVE  EntriesMerged' /\ BackupMerged' /\ Unread'
  BY <1>5, <1>9 DEF vars, files_, dump
<1> QED BY <1>1, <1>2, <1>3, <1>4, <1>6, <1>7, <1>8, <1>9 DEF Next

(* One more source: it counts if it says one of these.                     *)
LEMMA LastSourceIs ==
  ASSUME resFiles \in Seq(Said), NEW e \in Said, resFiles' = Append(resFiles, e), NEW contents
  PROVE  LastSource(contents)' = IF e.content \in contents THEN e.source ELSE LastSource(contents)
<1> DEFINE said(r) == {i \in DOMAIN r : r[i].content \in contents}
           N == Len(resFiles)
           more == Append(resFiles, e)
<1>1. /\ N \in Nat /\ DOMAIN resFiles = 1..N /\ DOMAIN more = 1..(N + 1)
      /\ more[N + 1] = e /\ \A i \in 1..N : more[i] = resFiles[i]
  OBVIOUS
<1>2. /\ LastSource(contents) = IF said(resFiles) = {} THEN Absent
                                ELSE resFiles[Max(said(resFiles))].source
      /\ LastSource(contents)' = IF said(more) = {} THEN Absent ELSE more[Max(said(more))].source
  BY DEF LastSource
<1>3. said(resFiles) \in SUBSET (1..N) /\ said(more) \in SUBSET (1..(N + 1))
  BY <1>1
<1>4. /\ N + 1 \in said(more) <=> e.content \in contents
      /\ \A i \in 1..N : i \in said(more) <=> i \in said(resFiles)
  BY <1>1
<1> HIDE DEF said, N, more
<1>5. CASE e.content \in contents
  <2>1. N + 1 \in said(more)
    BY <1>4, <1>5
  <2>2. Max(said(more)) = N + 1
    BY <2>1, <1>1, <1>3, LastPlace
  <2> QED BY <2>1, <2>2, <1>1, <1>2, <1>5
<1>6. CASE e.content \notin contents
  <2>1. said(more) \in SUBSET (1..N)
    <3>1. N + 1 \notin said(more)
      BY <1>4, <1>6
    <3> QED BY <3>1, <1>1, <1>3, NotLastPlace
  <2>2. said(more) = said(resFiles)
    BY <2>1, <1>3, <1>4
  <2>3. CASE said(resFiles) = {}
    BY <2>2, <2>3, <1>2, <1>6
  <2>4. CASE said(resFiles) # {}
    <3>1. Max(said(resFiles)) \in 1..N
      <4>1. Max(said(resFiles)) \in said(resFiles)
        BY <2>4, <1>1, <1>3, MaxThere
      <4> QED BY <4>1, <1>3
    <3>2. more[Max(said(resFiles))] = resFiles[Max(said(resFiles))]
      BY <3>1, <1>1
    <3> QED BY <3>2, <2>2, <2>4, <1>2, <1>6
  <2> QED BY <2>3, <2>4
<1> QED BY <1>5, <1>6

(* A source that is parsed keeps what the resource comes from in order.    *)
LEMMA ResourceParsed ==
  ASSUME resFiles \in Seq(Said), ResourcesMerged,
         NEW content \in ResContent, NEW source \in Nat,
         resFiles' = Append(resFiles, [content |-> content, source |-> source]),
         resConfig' = ParseResCtrlConfig(resConfig, content, source)
  PROVE  ResourcesMerged'
<1> DEFINE e == [content |-> content, source |-> source]
           given == ResContent \ {"absent"}
<1>1. e \in Said /\ resFiles' = Append(resFiles, e) /\ e.content = content /\ e.source = source
  BY DEF Said
<1> HIDE DEF e
<1>2. LastSource(given)' = IF content \in given THEN source ELSE LastSource(given)
  BY <1>1, LastSourceIs
<1>3. LastSource(Whole)' = IF content \in Whole THEN source ELSE LastSource(Whole)
  BY <1>1, LastSourceIs
<1>4. content \in given <=> content # "absent"
  OBVIOUS
<1>5. content \in Whole <=> content \in {"good", "badTimer"}
  BY DEF Whole
<1>6. /\ resConfig.raw = LastSource(given) /\ resConfig.whole = LastSource(Whole)
      /\ resConfig.timer \in {LastSource(Whole), Absent}
  BY DEF ResourcesMerged
<1>7. /\ resConfig'.raw = IF content = "absent" THEN resConfig.raw ELSE source
      /\ resConfig'.whole = IF content \in {"good", "badTimer"} THEN source ELSE resConfig.whole
      /\ resConfig'.timer = CASE content = "good" -> source
                              [] content = "badTimer" -> Absent
                              [] OTHER -> resConfig.timer
  BY DEF ParseResCtrlConfig
<1>8. resConfig'.raw = LastSource(given)'
  BY <1>2, <1>4, <1>6, <1>7
<1>9. resConfig'.whole = LastSource(Whole)'
  BY <1>3, <1>5, <1>6, <1>7
<1>10. resConfig'.timer \in {LastSource(Whole)', Absent}
  BY <1>3, <1>5, <1>6, <1>7
<1> QED BY <1>8, <1>9, <1>10 DEF ResourcesMerged

(* A resource is configured by the last source that could be parsed.       *)
LEMMA ResourcesStep ==
  ASSUME TypeOK, ResourcesMerged, [Next]_vars
  PROVE  ResourcesMerged'
<1>0. resFiles \in Seq(Said)
  BY DEF TypeOK
<1>1. ASSUME NEW content \in ResContent, NEW v \in Version, ReadStrategyFile(content, v)
      PROVE  ResourcesMerged'
  <2>1. Len(resFiles) + 1 \in Nat
    BY <1>0
  <2> QED BY <2>1, <1>0, <1>1, ResourceParsed DEF ReadStrategyFile
<1>2. ASSUME NEW file \in [CloudPart -> Content], NEW content \in ResContent,
             ReadCloud(file, content)
      PROVE  ResourcesMerged'
  <2>1. Cloud \in Nat
    BY ConfigAssumption DEF Cloud
  <2> QED BY <2>1, <1>0, <1>2, ResourceParsed DEF ReadCloud
<1>3. ASSUME UNCHANGED <<resConfig, resFiles>>
      PROVE  ResourcesMerged'
  <2>1. \A contents : LastSource(contents)' = LastSource(contents)
    BY <1>3 DEF LastSource
  <2> QED BY <2>1, <1>3 DEF ResourcesMerged
<1>4. ASSUME NEW file \in [Sections -> Content], NEW v \in Version, ReadDeviceFile(file, v)
      PROVE  ResourcesMerged'
  BY <1>3, <1>4 DEF ReadDeviceFile
<1>5. ASSUME NEW v \in Version, CompareWithCloud(v)
      PROVE  ResourcesMerged'
  BY <1>3, <1>5 DEF CompareWithCloud, files_
<1>6. ASSUME SkipCloud
      PROVE  ResourcesMerged'
  BY <1>3, <1>6 DEF SkipCloud, files_
<1>7. ASSUME NEW on \in BOOLEAN, DumpSetDebugMode(on)
      PROVE  ResourcesMerged'
  BY <1>3, <1>7 DEF DumpSetDebugMode, files_
<1>8. ASSUME NEW k \in Key, DumpSet(k)
      PROVE  ResourcesMerged'
  BY <1>3, <1>8 DEF DumpSet, files_
<1>9. ASSUME UNCHANGED vars
      PROVE  ResourcesMerged'
  BY <1>3, <1>9 DEF vars, files_
<1> QED BY <1>1, <1>2, <1>4, <1>5, <1>6, <1>7, <1>8, <1>9 DEF Next

(* The decision is kept until the cloud was read, or passed over.          *)
LEMMA DecidedStep ==
  ASSUME Decided, [Next]_vars
  PROVE  Decided'
<1>1. ASSUME NEW file \in [Sections -> Content], NEW v \in Version, ReadDeviceFile(file, v)
      PROVE  Decided'
  BY <1>1 DEF ReadDeviceFile, Decided
<1>2. ASSUME NEW content \in ResContent, NEW v \in Version, ReadStrategyFile(content, v)
      PROVE  Decided'
  BY <1>2 DEF ReadStrategyFile, Decided
<1>3. ASSUME NEW v \in Version, CompareWithCloud(v)
      PROVE  Decided'
  <2>1. stage' = IF NeedsToReadCloudConfig(versions') THEN "cloud" ELSE "no cloud"
    BY <1>3 DEF CompareWithCloud
  <2> QED BY <2>1 DEF Decided
<1>4. ASSUME stage' = "ready", versions' = NoVersions
      PROVE  Decided'
  BY <1>4 DEF Decided
<1>5. ASSUME NEW file \in [CloudPart -> Content], NEW content \in ResContent,
             ReadCloud(file, content)
      PROVE  Decided'
  BY <1>4, <1>5 DEF ReadCloud
<1>6. ASSUME SkipCloud
      PROVE  Decided'
  BY <1>4, <1>6 DEF SkipCloud
<1>7. ASSUME stage = "ready", UNCHANGED <<stage, versions>>
      PROVE  Decided'
  BY <1>7 DEF Decided
<1>8. ASSUME NEW on \in BOOLEAN, DumpSetDebugMode(on)
      PROVE  Decided'
  BY <1>7, <1>8 DEF DumpSetDebugMode, Dumped
<1>9. ASSUME NEW k \in Key, DumpSet(k)
      PROVE  Decided'
  BY <1>7, <1>9 DEF DumpSet, Dumped
<1>10. ASSUME UNCHANGED vars
       PROVE  Decided'
  BY <1>10 DEF vars, Decided
<1> QED BY <1>1, <1>2, <1>3, <1>5, <1>6, <1>8, <1>9, <1>10 DEF Next

-----------------------------------------------------------------------------
(* The properties.                                                         *)

(* What was read of the configuration is well typed, its entries are       *)
(* merged in order, and the stage is what the versions decided.            *)
THEOREM ConfigInvHolds == Spec => []ConfigInv
<1>1. Init => ConfigInv
  BY ConfigInit
<1>2. ConfigInv /\ [Next]_vars => ConfigInv'
  <2> SUFFICES ASSUME ConfigInv, [Next]_vars PROVE ConfigInv'
    OBVIOUS
  <2>1. TypeOK /\ EntriesMerged /\ BackupMerged /\ Unread /\ ResourcesMerged /\ Decided
    BY DEF ConfigInv
  <2>2. TypeOK'
    BY <2>1, TypeStep
  <2>3. EntriesMerged' /\ BackupMerged' /\ Unread'
    BY <2>1, EntriesStep
  <2>4. ResourcesMerged'
    BY <2>1, ResourcesStep
  <2>5. Decided'
    BY <2>1, DecidedStep
  <2> QED BY <2>2, <2>3, <2>4, <2>5 DEF ConfigInv
<1> QED BY <1>1, <1>2, PTL DEF Spec

(* The value of an entry is the one of the last source that offers it, or  *)
(* of the first for the lists (ParseStandbyConfig, ParsePkgTypeList and    *)
(* the others), and the parsed form of a resource comes as a whole from    *)
(* the last source that could be parsed (ParseResCtrlConfig).              *)
THEOREM MergedAsOrderedHolds == Spec => []MergedAsOrdered
<1>1. ConfigInv => MergedAsOrdered
  <2> SUFFICES ASSUME ConfigInv PROVE MergedAsOrdered
    OBVIOUS
  <2>1. EntriesMerged /\ ResourcesMerged
    BY DEF ConfigInv
  <2> QED BY <2>1 DEF EntriesMerged, ResourcesMerged, MergedOf, MergedAsOrdered
<1> QED BY <1>1, ConfigInvHolds, PTL

(* The cloud replaces what is in the image only if it is not older than    *)
(* any of the files, and does so if it is newer than all of them           *)
(* (NeedsToReadCloudConfig).                                               *)
THEOREM CloudNotOlderHolds == Spec => []CloudNotOlder
<1>1. ConfigInv => CloudNotOlder
  <2> SUFFICES ASSUME ConfigInv,
                      Range(versions.device) \cup Range(versions.strategy) # {},
                      \A v \in Range(versions.device) \cup Range(versions.strategy)
                               \cup {versions.cloud} : WellFormed(v)
               PROVE  LET image == Range(versions.device) \cup Range(versions.strategy)
                      IN  /\ stage = "cloud" => \A v \in image : NotOlder(versions.cloud, v)
                          /\ stage = "no cloud" => \E v \in image : NotOlder(v, versions.cloud)
    BY DEF CloudNotOlder
  <2>1. TypeOK /\ Decided
    BY DEF ConfigInv
  <2>2. /\ versions.device \in Seq(Version) /\ versions.strategy \in Seq(Version)
        /\ versions.cloud \in VersionTexts
    BY <2>1 DEF TypeOK, Versions
  <2>3. \A v \in VersionTexts : v \in Seq(Segment)
    <3>1. \A v \in Version : v \in Seq(Segment)
      BY VersionAssumption
    <3>2. \A S : << >> \in Seq(S)
      OBVIOUS
    <3> QED BY <3>1, <3>2 DEF VersionTexts, NoVersion
  <2>4. \A v \in Range(versions.device) \cup Range(versions.strategy) : v \in Version
    BY <2>2 DEF Range
  <2>5. \A v \in Range(versions.device) \cup Range(versions.strategy) \cup {versions.cloud} :
          Proper(v)
    BY <2>2, <2>3, <2>4 DEF VersionTexts, Proper
  <2>6. LET image == Range(versions.device) \cup Range(versions.strategy)
        IN  /\ NeedsToReadCloudConfig(versions) => \A v \in image : NotOlder(versions.cloud, v)
            /\ ~ NeedsToReadCloudConfig(versions) => \E v \in image : NotOlder(v, versions.cloud)
    BY <2>2, <2>5, DecisionIs
  <2> QED BY <2>1, <2>6 DEF Decided
<1> QED BY <1>1, ConfigInvHolds, PTL
=============================================================================
