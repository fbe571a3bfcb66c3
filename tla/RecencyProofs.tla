---------------------------- MODULE RecencyProofs ----------------------------
(***************************************************************************)
(* Why time stamps keep a store in order of use: when the entries in use   *)
(* carry different stamps, their order by stamp is a list, and giving one  *)
(* of them, or a new one, a stamp above all the others puts it at the      *)
(* front and leaves the order of the rest.  The proxy's object cache and   *)
(* the cache simulator both rest on this.                                  *)
(***************************************************************************)
EXTENDS RecencyStore, Integers, FiniteSetTheorems, SequenceTheorems, TLAPS

(* The indices in V, their stamps, and how many of V are stamped later.    *)
Later(V, stamp, i) == {j \in V : stamp[j] > stamp[i]}
Rank(V, stamp, i) == Cardinality(Later(V, stamp, i))

Stamps(V, stamp) ==
    /\ IsFiniteSet(V)
    /\ \A i \in V : stamp[i] \in Nat
    /\ \A i, j \in V : stamp[i] = stamp[j] => i = j

(* The entries of V, the one with the latest stamp first.                  *)
InOrder(V, stamp, entry) ==
    [n \in 1 .. Cardinality(V) |-> entry[CHOOSE i \in V : Rank(V, stamp, i) = n - 1]]

-----------------------------------------------------------------------------
LEMMA LaterIsFinite ==
    ASSUME NEW V, NEW stamp, Stamps(V, stamp), NEW i \in V
    PROVE  /\ IsFiniteSet(Later(V, stamp, i)) /\ Rank(V, stamp, i) \in Nat
           /\ Later(V, stamp, i) \subseteq V \ {i}
           /\ Cardinality(V) \in Nat /\ Rank(V, stamp, i) < Cardinality(V)
<1>1. IsFiniteSet(V) /\ Cardinality(V) \in Nat
  BY FS_CardinalityType DEF Stamps
<1>2. Later(V, stamp, i) \in SUBSET (V \ {i})
  BY DEF Later, Stamps
<1>3. IsFiniteSet(V \ {i}) /\ Cardinality(V \ {i}) = Cardinality(V) - 1
  BY <1>1, FS_RemoveElement
<1>4. IsFiniteSet(Later(V, stamp, i)) /\ Rank(V, stamp, i) <= Cardinality(V \ {i})
  BY <1>2, <1>3, FS_Subset DEF Rank
<1>5. Rank(V, stamp, i) \in Nat
  BY <1>4, FS_CardinalityType DEF Rank
<1> QED
  BY <1>1, <1>2, <1>3, <1>4, <1>5

(* An index with a later stamp has a smaller rank.                         *)
LEMMA RankOrder ==
    ASSUME NEW V, NEW stamp, Stamps(V, stamp), NEW i \in V, NEW j \in V
    PROVE  /\ stamp[i] > stamp[j] <=> Rank(V, stamp, i) < Rank(V, stamp, j)
           /\ Rank(V, stamp, i) = Rank(V, stamp, j) => i = j
<1>1. ASSUME NEW a \in V, NEW c \in V, stamp[a] > stamp[c]
      PROVE  Rank(V, stamp, a) < Rank(V, stamp, c)
  <2>1. /\ Later(V, stamp, a) \in SUBSET Later(V, stamp, c)
        /\ a \in Later(V, stamp, c) /\ a \notin Later(V, stamp, a)
    BY <1>1 DEF Later, Stamps
  <2>2. IsFiniteSet(Later(V, stamp, c)) /\ Rank(V, stamp, a) \in Nat /\ Rank(V, stamp, c) \in Nat
    BY LaterIsFinite
  <2>3. /\ Rank(V, stamp, a) <= Rank(V, stamp, c)
        /\ Rank(V, stamp, a) = Rank(V, stamp, c) =>
               Later(V, stamp, c) = Later(V, stamp, a)
    BY <2>1, <2>2, FS_Subset DEF Rank
  <2> QED
    BY <2>1, <2>2, <2>3
<1>2. stamp[i] \in Nat /\ stamp[j] \in Nat /\ (stamp[i] = stamp[j] => i = j)
  BY DEF Stamps
<1>3. Rank(V, stamp, i) \in Nat /\ Rank(V, stamp, j) \in Nat
  BY LaterIsFinite
<1>4. CASE stamp[i] > stamp[j]
  BY <1>1, <1>2, <1>3, <1>4
<1>5. CASE stamp[j] > stamp[i]
  <2>1. Rank(V, stamp, j) < Rank(V, stamp, i)
    BY <1>1, <1>5
  <2> QED
    BY <2>1, <1>2, <1>3, <1>5
<1>6. CASE stamp[i] = stamp[j]
  BY <1>2, <1>3, <1>6
<1> QED
  BY <1>2, <1>4, <1>5, <1>6

(* Every rank below the number of indices is taken.                        *)
LEMMA RankTaken ==
    ASSUME NEW V, NEW stamp, Stamps(V, stamp), NEW n \in 1 .. Cardinality(V)
    PROVE  \E i \in V : Rank(V, stamp, i) = n - 1
<1> DEFINE N == Cardinality(V)
           T == 0 .. N - 1
           f == [i \in V |-> Rank(V, stamp, i)]
<1>1. IsFiniteSet(V) /\ N \in Nat
  BY FS_CardinalityType DEF Stamps
<1>2. IsFiniteSet(T) /\ Cardinality(T) = N
  <2>1. 0 \in Int /\ N - 1 \in Int
    BY <1>1
  <2>2. IsFiniteSet(T) /\ Cardinality(T) = IF 0 > N - 1 THEN 0 ELSE N - 1 - 0 + 1
    BY <2>1, FS_Interval
  <2> QED
    BY <1>1, <2>2
<1>3. \A i \in V : Rank(V, stamp, i) \in T
  BY <1>1, LaterIsFinite
<1>4. f \in Injection(V, T)
  <2>1. f \in [V -> T]
    BY <1>3
  <2>2. \A i, j \in V : f[i] = f[j] => i = j
    BY RankOrder
  <2> QED
    BY <2>1, <2>2 DEF Injection, IsInjective
<1>5. f \in Surjection(V, T)
  BY <1>1, <1>2, <1>4, FS_Injection
<1>6. n - 1 \in T
  BY <1>1
<1> QED
  BY <1>5, <1>6 DEF Surjection

LEMMA InOrderAt ==
    ASSUME NEW V, NEW stamp, NEW entry, Stamps(V, stamp), NEW i \in V
    PROVE  /\ Rank(V, stamp, i) + 1 \in 1 .. Cardinality(V)
           /\ InOrder(V, stamp, entry)[Rank(V, stamp, i) + 1] = entry[i]
<1> DEFINE n == Rank(V, stamp, i) + 1
           k == CHOOSE j \in V : Rank(V, stamp, j) = n - 1
<1>1. Rank(V, stamp, i) \in Nat /\ Cardinality(V) \in Nat /\ n \in 1 .. Cardinality(V)
  BY LaterIsFinite
<1>2. Rank(V, stamp, i) = n - 1
  BY <1>1
<1>3. k \in V /\ Rank(V, stamp, k) = n - 1
  BY <1>2
<1>4. k = i
  BY <1>2, <1>3, RankOrder
<1> QED
  BY <1>1, <1>4 DEF InOrder

LEMMA InOrderType ==
    ASSUME NEW V, NEW stamp, NEW entry, NEW S, Stamps(V, stamp), \A i \in V : entry[i] \in S
    PROVE  /\ InOrder(V, stamp, entry) \in Seq(S)
           /\ Len(InOrder(V, stamp, entry)) = Cardinality(V)
           /\ Cardinality(V) \in Nat
<1>1. Cardinality(V) \in Nat
  BY FS_CardinalityType DEF Stamps
<1>2. \A n \in 1 .. Cardinality(V) : InOrder(V, stamp, entry)[n] \in S
  <2> TAKE n \in 1 .. Cardinality(V)
  <2>1. PICK i \in V : Rank(V, stamp, i) = n - 1
    BY RankTaken
  <2>2. Rank(V, stamp, i) + 1 = n
    BY <1>1, <2>1
  <2> QED
    BY <2>2, InOrderAt
<1>3. InOrder(V, stamp, entry) \in [1 .. Cardinality(V) -> S]
  BY <1>2 DEF InOrder
<1> QED
  BY <1>1, <1>3, SeqDef

-----------------------------------------------------------------------------
(* Two lists agree when they agree at the rank of every index.             *)
LEMMA InOrderIs ==
    ASSUME NEW V, NEW stamp, NEW entry, NEW S, Stamps(V, stamp),
           \A i \in V : entry[i] \in S,
           NEW list \in Seq(S), Len(list) = Cardinality(V),
           \A i \in V : list[Rank(V, stamp, i) + 1] = entry[i]
    PROVE  InOrder(V, stamp, entry) = list
<1>1. /\ InOrder(V, stamp, entry) \in Seq(S)
      /\ Len(InOrder(V, stamp, entry)) = Cardinality(V) /\ Cardinality(V) \in Nat
  BY InOrderType
<1>2. ASSUME NEW n \in 1 .. Cardinality(V)
      PROVE  InOrder(V, stamp, entry)[n] = list[n]
  <2>1. PICK i \in V : Rank(V, stamp, i) = n - 1
    BY RankTaken
  <2>2. Rank(V, stamp, i) + 1 = n
    BY <1>1, <2>1
  <2> QED
    BY <2>2, InOrderAt
<1> QED
  BY <1>1, <1>2, SeqEqual

(* A stamp later than all others: the index comes first, and whoever was   *)
(* stamped later than it moves back by one.                                *)
LEMMA RankRestamped ==
    ASSUME NEW V, NEW W, NEW stamp, NEW new, Stamps(V, stamp), NEW i \in W,
           W \ {i} \subseteq V, \A j \in V \ W : \A k \in W \ {i} : stamp[j] < stamp[k],
           new[i] \in Nat, \A j \in V : stamp[j] < new[i],
           \A j \in W \ {i} : new[j] = stamp[j]
    PROVE  /\ Stamps(W, new)
           /\ Rank(W, new, i) = 0
           /\ \A j \in W \ {i} : Rank(W, new, j) =
                  IF i \in V /\ stamp[i] > stamp[j] THEN Rank(V, stamp, j)
                  ELSE Rank(V, stamp, j) + 1
<1>1. IsFiniteSet(V) /\ \A j \in V : stamp[j] \in Nat
  BY DEF Stamps
<1>2. Stamps(W, new)
  <2>1. W \ {i} \in SUBSET V
    OBVIOUS
  <2>2. IsFiniteSet(W \ {i})
    BY <1>1, <2>1, FS_Subset
  <2>3. IsFiniteSet((W \ {i}) \cup {i}) /\ (W \ {i}) \cup {i} = W
    BY <2>2, FS_AddElement
  <2>4. \A j \in W : new[j] \in Nat
    BY <1>1
  <2>5. \A j, k \in W : new[j] = new[k] => j = k
    BY <1>1 DEF Stamps
  <2> QED
    BY <2>3, <2>4, <2>5 DEF Stamps
<1>3. Rank(W, new, i) = 0
  <2>1. Later(W, new, i) = {}
    BY <1>1 DEF Later
  <2> QED
    BY <2>1, FS_EmptySet DEF Rank
<1>4. ASSUME NEW j \in W \ {i}
      PROVE  Rank(W, new, j) = IF i \in V /\ stamp[i] > stamp[j] THEN Rank(V, stamp, j)
                               ELSE Rank(V, stamp, j) + 1
  <2>1. Later(W, new, j) = Later(V, stamp, j) \cup {i}
    <3>1. \A k \in V \ W : ~ (stamp[k] > stamp[j])
      BY <1>1
    <3> QED
      BY <1>1, <3>1 DEF Later
  <2>2. i \in Later(V, stamp, j) <=> i \in V /\ stamp[i] > stamp[j]
    BY DEF Later
  <2>3. IsFiniteSet(Later(V, stamp, j))
    BY LaterIsFinite
  <2> QED
    BY <2>1, <2>2, <2>3, FS_AddElement DEF Rank
<1> QED
  BY <1>2, <1>3, <1>4

-----------------------------------------------------------------------------
(* An index in use is given the latest stamp.                              *)
Retouched(V, stamp, new, i) ==
    /\ Stamps(V, stamp) /\ i \in V
    /\ new[i] \in Nat /\ \A j \in V : stamp[j] < new[i]
    /\ \A j \in V \ {i} : new[j] = stamp[j]

LEMMA RestampTouches ==
    ASSUME NEW V, NEW stamp, NEW new, NEW entry, NEW i, Retouched(V, stamp, new, i)
    PROVE  /\ Stamps(V, new)
           /\ \E n \in DOMAIN InOrder(V, stamp, entry) :
                  InOrder(V, new, entry) = Touched(InOrder(V, stamp, entry), n)
           /\ InOrder(V, new, entry)[1] = entry[i]
<1> USE DEF Retouched
<1> DEFINE list == InOrder(V, stamp, entry)
           r == Rank(V, stamp, i) + 1
           rest == RemoveAt(list, r)
           N == Cardinality(V)
           S == {entry[j] : j \in V}
<1>a. \A j \in V : entry[j] \in S
  OBVIOUS
<1> HIDE DEF S
<1>1. list \in Seq(S) /\ Len(list) = N /\ N \in Nat
  BY <1>a, InOrderType
<1>2. r \in 1 .. N /\ list[r] = entry[i]
  BY InOrderAt
<1>3. /\ Stamps(V, new)
      /\ Rank(V, new, i) = 0
      /\ \A j \in V \ {i} : Rank(V, new, j) =
             IF stamp[i] > stamp[j] THEN Rank(V, stamp, j) ELSE Rank(V, stamp, j) + 1
  BY RankRestamped
<1> HIDE DEF list, r
<1>4. /\ rest \in Seq(S) /\ Len(rest) = N - 1
      /\ \A n \in 1 .. N - 1 : rest[n] = IF n < r THEN list[n] ELSE list[n + 1]
  <2>1. \A n \in 1 .. N : list[n] \in S
    BY <1>1, ElementOfSeq
  <2>2. /\ SubSeq(list, 1, r - 1) \in Seq(S) /\ Len(SubSeq(list, 1, r - 1)) = r - 1
        /\ \A n \in 1 .. r - 1 : SubSeq(list, 1, r - 1)[n] = list[n]
    <3>1. 1 \in Int /\ r - 1 \in Int /\ \A n \in 1 .. r - 1 : list[n] \in S
      BY <1>1, <1>2, <2>1
    <3>2. /\ SubSeq(list, 1, r - 1) \in Seq(S)
          /\ Len(SubSeq(list, 1, r - 1)) = IF 1 <= r - 1 THEN r - 1 - 1 + 1 ELSE 0
          /\ \A n \in 1 .. r - 1 - 1 + 1 : SubSeq(list, 1, r - 1)[n] = list[1 + n - 1]
      BY <3>1, SubSeqProperties
    <3> QED
      BY <1>1, <1>2, <3>2
  <2>3. /\ SubSeq(list, r + 1, N) \in Seq(S) /\ Len(SubSeq(list, r + 1, N)) = N - r
        /\ \A n \in 1 .. N - r : SubSeq(list, r + 1, N)[n] = list[r + n]
    <3>1. r + 1 \in Int /\ N \in Int /\ \A n \in r + 1 .. N : list[n] \in S
      BY <1>1, <1>2, <2>1
    <3>2. /\ SubSeq(list, r + 1, N) \in Seq(S)
          /\ Len(SubSeq(list, r + 1, N)) = IF r + 1 <= N THEN N - (r + 1) + 1 ELSE 0
          /\ \A n \in 1 .. N - (r + 1) + 1 : SubSeq(list, r + 1, N)[n] = list[r + 1 + n - 1]
      BY <3>1, SubSeqProperties
    <3> QED
      BY <1>1, <1>2, <3>2
  <2>4. rest = SubSeq(list, 1, r - 1) \o SubSeq(list, r + 1, N)
    BY <1>1 DEF RemoveAt
  <2>5. /\ rest \in Seq(S) /\ Len(rest) = (r - 1) + (N - r)
        /\ \A n \in 1 .. (r - 1) + (N - r) :
               rest[n] = IF n <= r - 1 THEN SubSeq(list, 1, r - 1)[n]
                         ELSE SubSeq(list, r + 1, N)[n - (r - 1)]
    BY <2>2, <2>3, <2>4, ConcatProperties
  <2> QED
    <3>1. Len(rest) = N - 1 /\ (r - 1) + (N - r) = N - 1
      BY <1>1, <1>2, <2>5
    <3>2. ASSUME NEW n \in 1 .. N - 1
          PROVE  rest[n] = IF n < r THEN list[n] ELSE list[n + 1]
      <4>1. CASE n < r
        BY <1>1, <1>2, <2>2, <2>5, <3>1, <4>1
      <4>2. CASE ~ (n < r)
        <5>1. n - (r - 1) \in 1 .. N - r /\ ~ (n <= r - 1) /\ r + (n - (r - 1)) = n + 1
          BY <1>1, <1>2, <4>2
        <5> QED
          BY <2>3, <2>5, <3>1, <4>2, <5>1
      <4> QED
        BY <4>1, <4>2
    <3> QED
      BY <2>5, <3>1, <3>2
<1> HIDE DEF rest
<1>5. /\ <<list[r]>> \o rest \in Seq(S) /\ Len(<<list[r]>> \o rest) = N
      /\ (<<list[r]>> \o rest)[1] = entry[i]
      /\ \A n \in 2 .. N : (<<list[r]>> \o rest)[n] = rest[n - 1]
  <2>1. <<list[r]>> \in Seq(S) /\ Len(<<list[r]>>) = 1 /\ <<list[r]>>[1] = entry[i]
    BY <1>2, <1>a
  <2>2. /\ <<list[r]>> \o rest \in Seq(S) /\ Len(<<list[r]>> \o rest) = 1 + (N - 1)
        /\ \A n \in 1 .. 1 + (N - 1) : (<<list[r]>> \o rest)[n] =
               IF n <= 1 THEN <<list[r]>>[n] ELSE rest[n - 1]
    BY <1>4, <2>1, ConcatProperties
  <2> QED
    BY <1>1, <1>2, <2>1, <2>2
<1>6. ASSUME NEW j \in V
      PROVE  (<<list[r]>> \o rest)[Rank(V, new, j) + 1] = entry[j]
  <2>1. CASE j = i
    BY <1>3, <1>5, <2>1
  <2>2. CASE j # i
    <3> DEFINE q == Rank(V, stamp, j) + 1
    <3>1. q \in 1 .. N /\ list[q] = entry[j] /\ Rank(V, stamp, j) \in Nat
      BY InOrderAt, LaterIsFinite DEF list
    <3>2. stamp[i] > stamp[j] <=> r < q
      <4>1. stamp[i] > stamp[j] <=> Rank(V, stamp, i) < Rank(V, stamp, j)
        BY RankOrder
      <4> QED
        BY <4>1, LaterIsFinite DEF r
    <3>3. r # q
      BY <2>2, RankOrder, LaterIsFinite DEF r
    <3>4. Rank(V, new, j) = IF r < q THEN q - 1 ELSE q
      BY <1>3, <2>2, <3>1, <3>2
    <3> HIDE DEF q
    <3>5. CASE r < q
      <4>1. q \in 2 .. N /\ Rank(V, new, j) + 1 = q /\ q - 1 \in 1 .. N - 1 /\ ~ (q - 1 < r)
        BY <1>1, <1>2, <3>1, <3>4, <3>5
      <4>2. rest[q - 1] = list[q]
        BY <1>4, <3>1, <4>1
      <4> QED
        BY <1>5, <3>1, <4>1, <4>2
    <3>6. CASE q < r
      <4>1. q + 1 \in 2 .. N /\ Rank(V, new, j) + 1 = q + 1 /\ q \in 1 .. N - 1
        BY <1>1, <1>2, <3>1, <3>4, <3>6
      <4>2. rest[q] = list[q] /\ (q + 1) - 1 = q
        BY <1>4, <3>1, <3>6, <4>1
      <4> QED
        BY <1>5, <3>1, <4>1, <4>2
    <3>7. r < q \/ q < r
      BY <1>1, <1>2, <3>1, <3>3
    <3> QED
      BY <3>5, <3>6, <3>7
  <2> QED
    BY <2>1, <2>2
<1>7. InOrder(V, new, entry) = <<list[r]>> \o rest
  <2> DEFINE moved == <<list[r]>> \o rest
  <2>1. moved \in Seq(S) /\ Len(moved) = Cardinality(V)
    BY <1>5
  <2>2. \A j \in V : moved[Rank(V, new, j) + 1] = entry[j]
    BY <1>6
  <2> HIDE DEF moved
  <2>3. InOrder(V, new, entry) = moved
    BY <1>3, <1>a, <2>1, <2>2, InOrderIs
  <2> QED
    BY <2>3 DEF moved
<1>8. InOrder(V, new, entry) = Touched(list, r) /\ r \in DOMAIN list
  BY <1>1, <1>2, <1>7, LenProperties DEF Touched, rest
<1> QED
  BY <1>3, <1>5, <1>7, <1>8 DEF list

(* An index that was free, or the one with the earliest stamp when its     *)
(* entry gives way, is given the latest stamp and a new entry.             *)
Restamped(V, W, stamp, new, entry, entered, i, capacity) ==
    /\ Stamps(V, stamp) /\ i \in W
    /\ \/ i \notin V /\ W = V \cup {i} /\ Cardinality(V) # capacity
       \/ W = V /\ Cardinality(V) = capacity /\ \A j \in V : stamp[i] <= stamp[j]
    /\ \A j \in W \ {i} : entered[j] = entry[j] /\ new[j] = stamp[j]
    /\ new[i] \in Nat /\ \A j \in V : stamp[j] < new[i]

LEMMA RestampAdds ==
    ASSUME NEW V, NEW W, NEW stamp, NEW new, NEW entry, NEW entered, NEW i, NEW capacity,
           Restamped(V, W, stamp, new, entry, entered, i, capacity)
    PROVE  /\ Stamps(W, new)
           /\ InOrder(W, new, entered) = Added(InOrder(V, stamp, entry), entered[i], capacity)
           /\ InOrder(W, new, entered)[1] = entered[i]
<1> USE DEF Restamped
<1> DEFINE list == InOrder(V, stamp, entry)
           kept == IF Cardinality(V) = capacity THEN Front(list) ELSE list
           added == <<entered[i]>> \o kept
           N == Cardinality(V)
           S == {entry[j] : j \in V} \cup {entered[i]}
<1>a. \A j \in V : entry[j] \in S
  OBVIOUS
<1>b. entered[i] \in S
  OBVIOUS
<1> HIDE DEF S
<1>1. list \in Seq(S) /\ Len(list) = N /\ N \in Nat /\ IsFiniteSet(V)
  BY <1>a, InOrderType DEF Stamps
<1>2. \A j \in W \ {i} : j \in V /\ list[Rank(V, stamp, j) + 1] = entry[j]
  BY InOrderAt
<1>3. ASSUME NEW j \in W \ {i}
      PROVE  ~ (i \in V /\ stamp[i] > stamp[j])
  <2>1. i \in V => stamp[i] \in Nat /\ stamp[j] \in Nat /\ stamp[i] <= stamp[j]
    BY <1>2 DEF Stamps
  <2> QED
    BY <2>1
<1>4. /\ Stamps(W, new)
      /\ Rank(W, new, i) = 0
      /\ \A j \in W \ {i} : Rank(W, new, j) = Rank(V, stamp, j) + 1
  <2>1. /\ W \ {i} \subseteq V
        /\ \A j \in V \ W : \A k \in W \ {i} : stamp[j] < stamp[k]
    OBVIOUS
  <2>2. /\ Stamps(W, new)
        /\ Rank(W, new, i) = 0
        /\ \A j \in W \ {i} : Rank(W, new, j) =
               IF i \in V /\ stamp[i] > stamp[j] THEN Rank(V, stamp, j)
               ELSE Rank(V, stamp, j) + 1
    BY <2>1, RankRestamped
  <2> QED
    BY <1>3, <2>2
<1> HIDE DEF list
<1>5. /\ Cardinality(W) \in Nat /\ Cardinality(W) >= 1
      /\ kept \in Seq(S) /\ Len(kept) = Cardinality(W) - 1
      /\ \A n \in 1 .. Cardinality(W) - 1 : kept[n] = list[n]
  <2>1. CASE i \notin V /\ W = V \cup {i} /\ Cardinality(V) # capacity
    <3>1. Cardinality(W) = N + 1 /\ kept = list
      BY <1>1, <2>1, FS_AddElement
    <3> QED
      BY <1>1, <3>1
  <2>2. CASE W = V /\ Cardinality(V) = capacity
    <3>1. N # 0
      BY <1>1, <2>2, FS_EmptySet
    <3>2. 1 \in Int /\ N - 1 \in Int /\ \A n \in 1 .. N - 1 : list[n] \in S
      BY <1>1, ElementOfSeq
    <3>3. /\ SubSeq(list, 1, N - 1) \in Seq(S)
          /\ Len(SubSeq(list, 1, N - 1)) = IF 1 <= N - 1 THEN N - 1 - 1 + 1 ELSE 0
          /\ \A n \in 1 .. N - 1 - 1 + 1 : SubSeq(list, 1, N - 1)[n] = list[1 + n - 1]
      BY <3>2, SubSeqProperties
    <3>4. kept = SubSeq(list, 1, N - 1)
      BY <1>1, <2>2 DEF Front
    <3> QED
      BY <1>1, <2>2, <3>1, <3>3, <3>4
  <2> QED
    BY <2>1, <2>2
<1> HIDE DEF kept
<1>6. /\ added \in Seq(S) /\ Len(added) = Cardinality(W)
      /\ added[1] = entered[i]
      /\ \A n \in 2 .. Cardinality(W) : added[n] = list[n - 1]
  <2>1. <<entered[i]>> \in Seq(S) /\ Len(<<entered[i]>>) = 1 /\ <<entered[i]>>[1] = entered[i]
    BY <1>b
  <2>2. /\ added \in Seq(S) /\ Len(added) = 1 + (Cardinality(W) - 1)
        /\ \A n \in 1 .. 1 + (Cardinality(W) - 1) : added[n] =
               IF n <= 1 THEN <<entered[i]>>[n] ELSE kept[n - 1]
    BY <1>5, <2>1, ConcatProperties
  <2> QED
    BY <1>5, <2>1, <2>2
<1> HIDE DEF added
<1>7. \A j \in W : added[Rank(W, new, j) + 1] = entered[j]
  <2> TAKE j \in W
  <2>1. CASE j = i
    BY <1>4, <1>6, <2>1
  <2>2. CASE j # i
    <3>1. Rank(W, new, j) = Rank(V, stamp, j) + 1 /\ j \in V
      BY <1>2, <1>4, <2>2
    <3>2. Rank(V, stamp, j) \in Nat /\ Rank(W, new, j) < Cardinality(W)
      BY <1>4, <3>1, LaterIsFinite
    <3>3. /\ Rank(W, new, j) + 1 \in 2 .. Cardinality(W)
          /\ Rank(W, new, j) + 1 - 1 = Rank(V, stamp, j) + 1
      BY <1>5, <3>1, <3>2
    <3>4. added[Rank(W, new, j) + 1] = list[Rank(W, new, j) + 1 - 1]
      <4> DEFINE q == Rank(W, new, j) + 1
      <4>1. q \in 2 .. Cardinality(W)
        BY <3>3
      <4> HIDE DEF q
      <4>2. added[q] = list[q - 1]
        BY <1>6, <4>1
      <4> QED
        BY <3>1, <3>2, <4>2 DEF q
    <3>5. list[Rank(V, stamp, j) + 1] = entry[j] /\ entered[j] = entry[j]
      BY <1>2, <2>2
    <3> QED
      BY <3>3, <3>4, <3>5
  <2> QED
    BY <2>1, <2>2
<1>8. \A j \in W : entered[j] \in S
  BY <1>2, <1>a, <1>b
<1>9. InOrder(W, new, entered) = added
  BY <1>4, <1>6, <1>7, <1>8, InOrderIs
<1>10. added = Added(list, entered[i], capacity)
  BY <1>1 DEF added, kept, Added
<1> QED
  BY <1>4, <1>6, <1>9, <1>10 DEF list
=============================================================================
