----------------------------- MODULE CSimProofs -----------------------------
(***************************************************************************)
(* Proofs about the cache simulator, for every geometry of its cache, any  *)
(* trace and any length of it: each set is a least-recently-used store,    *)
(* and the counts are those of the reuse distances.                        *)
(***************************************************************************)
EXTENDS TestTrans, RecencyProofs

LineStates == [valid : BOOLEAN, tag : Tags \cup {0}, timeStamp : Nat]
SetStates  == [Lines -> LineStates]

(* Of a set in state C: its lines in use, their stamps and tags.           *)
InUse(C)   == {i \in Lines : C[i].valid}
StampOf(C) == [i \in Lines |-> C[i].timeStamp]
TagOf(C)   == [i \in Lines |-> C[i].tag]
ListOf(C)  == InOrder(InUse(C), StampOf(C), TagOf(C))

(* No two lines in use have the same stamp or the same tag, and all stamps *)
(* are older than clock.                                                   *)
Good(C, clock) ==
    /\ C \in SetStates /\ clock \in Nat
    /\ Stamps(InUse(C), StampOf(C))
    /\ \A i \in InUse(C) : StampOf(C)[i] < clock
    /\ \A i, j \in InUse(C) : C[i].tag = C[j].tag => i = j

(* The line that a lookup uses, and the set with it stamped.               *)
Slot(C, tag) ==
    IF Matching(C, tag) # {} THEN FirstOf(Matching(C, tag))
    ELSE IF Unused(C) # {} THEN FirstOf(Unused(C)) ELSE Oldest(C)

Filled(C, i, tag, stamp) ==
    [C EXCEPT ![i] = [valid |-> TRUE, tag |-> tag, timeStamp |-> stamp]]

-----------------------------------------------------------------------------
LEMMA FirstIs ==
    ASSUME NEW S \in SUBSET Nat, S # {}
    PROVE  FirstOf(S) \in S /\ \A j \in S : FirstOf(S) <= j
<1>1. PICK m \in S : \A y \in S : ~ (<<y, m>> \in OpToRel(<, Nat))
  BY NatLessThanWellFounded, WFMin
<1>2. \A y \in S : ~ (y < m)
  BY <1>1 DEF OpToRel
<1>3. \A y \in S : m <= y
  BY <1>2
<1> QED
  BY <1>3 DEF FirstOf

LEMMA SlotIs ==
    ASSUME NEW C \in SetStates, NEW tag
    PROVE  /\ Slot(C, tag) \in Lines
           /\ Matching(C, tag) # {} => Slot(C, tag) \in Matching(C, tag)
           /\ Matching(C, tag) = {} /\ Unused(C) # {} => Slot(C, tag) \notin InUse(C)
           /\ Matching(C, tag) = {} /\ Unused(C) = {} =>
                  \A j \in Lines : C[Slot(C, tag)].timeStamp <= C[j].timeStamp
<1>1. Matching(C, tag) \in SUBSET Lines /\ Unused(C) \in SUBSET Lines
  BY DEF Matching, Unused
<1>2. Lines \in SUBSET Nat /\ 1 \in Lines
  BY GeometryAssumption DEF Lines
<1>3. CASE Matching(C, tag) # {}
  <2>1. FirstOf(Matching(C, tag)) \in Matching(C, tag)
    BY <1>1, <1>2, <1>3, FirstIs
  <2> QED
    BY <1>1, <1>3, <2>1 DEF Slot
<1>4. CASE Matching(C, tag) = {} /\ Unused(C) # {}
  <2>1. FirstOf(Unused(C)) \in Unused(C)
    BY <1>1, <1>2, <1>4, FirstIs
  <2> QED
    BY <1>1, <1>4, <2>1 DEF Slot, Unused, InUse
<1>5. CASE Matching(C, tag) = {} /\ Unused(C) = {}
  <2> DEFINE stamps == {C[i].timeStamp : i \in Lines}
             oldest == {i \in Lines : \A j \in Lines : C[i].timeStamp <= C[j].timeStamp}
  <2>1. stamps \in SUBSET Nat /\ C[1].timeStamp \in stamps
    BY <1>2 DEF SetStates, LineStates
  <2>2. FirstOf(stamps) \in stamps /\ \A t \in stamps : FirstOf(stamps) <= t
    BY <2>1, FirstIs
  <2>3. oldest # {} /\ oldest \in SUBSET Lines
    <3>1. PICK k \in Lines : FirstOf(stamps) = C[k].timeStamp
      BY <2>2
    <3>2. \A j \in Lines : C[j].timeStamp \in stamps
      OBVIOUS
    <3>3. k \in oldest
      BY <2>2, <3>1, <3>2
    <3> QED
      BY <3>3
  <2>4. FirstOf(oldest) \in oldest
    BY <1>2, <2>3, FirstIs
  <2>5. Slot(C, tag) = FirstOf(oldest)
    BY <1>5 DEF Slot, Oldest
  <2> QED
    BY <1>5, <2>3, <2>4, <2>5
<1> QED
  BY <1>3, <1>4, <1>5

(* Stamping the line that a lookup chooses is one use of the set.          *)
LEMMA FilledUses ==
    ASSUME NEW C, NEW clock, Good(C, clock), NEW tag \in Tags, NEW t \in Nat, clock <= t
    PROVE  LET D == Filled(C, Slot(C, tag), tag, t)
           IN  /\ Good(D, t + 1)
               /\ Used(ListOf(C), ListOf(D), Tags, E)
               /\ ListOf(D)[1] = tag
               /\ Matching(D, tag) = {Slot(C, tag)}
<1> DEFINE i == Slot(C, tag)
           D == Filled(C, i, tag, t)
           V == InUse(C)
           W == InUse(D)
           stamp == StampOf(C)
           new == StampOf(D)
           entry == TagOf(C)
           entered == TagOf(D)
<1>1. /\ C \in SetStates /\ clock \in Nat
      /\ Stamps(V, stamp) /\ (\A j \in V : stamp[j] < clock)
      /\ \A j, k \in V : C[j].tag = C[k].tag => j = k
  BY DEF Good
<1>2. /\ i \in Lines
      /\ Matching(C, tag) # {} => i \in Matching(C, tag)
      /\ Matching(C, tag) = {} /\ Unused(C) # {} => i \notin V
      /\ Matching(C, tag) = {} /\ Unused(C) = {} =>
             \A j \in Lines : C[i].timeStamp <= C[j].timeStamp
  BY <1>1, SlotIs
<1> HIDE DEF i
<1>3. /\ D \in SetStates
      /\ D[i] = [valid |-> TRUE, tag |-> tag, timeStamp |-> t]
      /\ \A j \in Lines \ {i} : D[j] = C[j]
  <2>1. [valid |-> TRUE, tag |-> tag, timeStamp |-> t] \in LineStates
    BY DEF LineStates
  <2> QED
    BY <1>1, <1>2, <2>1 DEF Filled, SetStates
<1> HIDE DEF D
<1>4. V \subseteq Lines /\ W = V \cup {i} /\ W \subseteq Lines
  BY <1>2, <1>3 DEF InUse
<1>5. /\ stamp \in [Lines -> Nat] /\ new \in [Lines -> Nat]
      /\ new[i] = t /\ \A j \in Lines \ {i} : new[j] = stamp[j]
  BY <1>1, <1>2, <1>3 DEF StampOf, SetStates, LineStates
<1>6. entered[i] = tag /\ \A j \in Lines \ {i} : entered[j] = entry[j]
  BY <1>2, <1>3 DEF TagOf
<1>7. Matching(C, tag) = {} => \A j \in V : C[j].tag # tag
  BY <1>4 DEF Matching, InUse
<1>8. Matching(C, tag) # {} => i \in V /\ C[i].tag = tag
  BY <1>2 DEF Matching, InUse
<1>9. Matching(D, tag) = {i}
  <2>1. \A j \in V \ {i} : C[j].tag # tag
    BY <1>1, <1>7, <1>8
  <2>2. \A j \in Lines \ {i} : D[j].valid => j \in V
    BY <1>3 DEF InUse
  <2> QED
    BY <1>2, <1>3, <2>1, <2>2 DEF Matching
<1>10. \A j, k \in W : D[j].tag = D[k].tag => j = k
  <2>1. \A j \in W : D[j].tag = tag => j = i
    BY <1>4, <1>9 DEF Matching, InUse
  <2>2. \A j \in W \ {i} : j \in V /\ D[j].tag = C[j].tag
    BY <1>3, <1>4
  <2> QED
    BY <1>1, <1>3, <2>1, <2>2
<1>11. new[i] \in Nat /\ \A j \in V : stamp[j] < new[i]
  BY <1>1, <1>4, <1>5
<1>12. \A j \in W : new[j] < t + 1
  BY <1>1, <1>4, <1>5
<1>13. IsFiniteSet(Lines) /\ Cardinality(Lines) = E
  BY FS_Interval, GeometryAssumption DEF Lines
<1> HIDE DEF V, W, stamp, new, entry, entered
<1>14. CASE Matching(C, tag) # {}
  <2>1. i \in V /\ W = V /\ C[i].tag = tag
    BY <1>4, <1>8, <1>14
  <2>2. entered = entry
    <3>1. \A j \in Lines : entered[j] = entry[j]
      BY <1>2, <1>6, <2>1 DEF entry, TagOf
    <3> QED
      BY <3>1 DEF entry, entered, TagOf
  <2>3. \A j \in V \ {i} : new[j] = stamp[j]
    BY <1>4, <1>5
  <2>4. /\ Stamps(V, new)
        /\ \E n \in DOMAIN InOrder(V, stamp, entry) :
               InOrder(V, new, entry) = Touched(InOrder(V, stamp, entry), n)
        /\ InOrder(V, new, entry)[1] = entry[i]
    <3>1. Retouched(V, stamp, new, i)
      BY <1>1, <1>11, <2>1, <2>3 DEF Retouched
    <3> QED
      BY <3>1, RestampTouches
  <2>5. ListOf(C) = InOrder(V, stamp, entry) /\ ListOf(D) = InOrder(V, new, entry)
    BY <2>1, <2>2 DEF ListOf, V, W, stamp, new, entry, entered
  <2>6. Good(D, t + 1)
    BY <1>3, <1>10, <1>12, <2>1, <2>4 DEF Good, V, W, new
  <2> QED
    BY <1>6, <1>9, <2>2, <2>4, <2>5, <2>6 DEF Used, D, i
<1>15. CASE Matching(C, tag) = {}
  <2>1. Cardinality(V) = E <=> V = Lines
    BY <1>4, <1>13, FS_Subset
  <2>2. Unused(C) = {} <=> V = Lines
    BY <1>4 DEF Unused, V, InUse
  <2>3. Restamped(V, W, stamp, new, entry, entered, i, E)
    <3>1. \A j \in W \ {i} : entered[j] = entry[j] /\ new[j] = stamp[j]
      BY <1>4, <1>5, <1>6
    <3>2. CASE Unused(C) # {}
      <4>1. i \notin V /\ Cardinality(V) # E
        BY <1>2, <1>15, <2>1, <2>2, <3>2 DEF V
      <4> QED
        BY <1>1, <1>4, <1>11, <3>1, <4>1 DEF Restamped
    <3>3. CASE Unused(C) = {}
      <4>1. V = Lines /\ W = V /\ Cardinality(V) = E
        BY <1>2, <1>4, <2>1, <2>2, <3>3
      <4>2. \A j \in V : stamp[i] <= stamp[j]
        BY <1>2, <1>15, <3>3, <4>1 DEF stamp, StampOf
      <4> QED
        BY <1>1, <1>2, <1>11, <3>1, <4>1, <4>2 DEF Restamped
    <3> QED
      BY <3>2, <3>3
  <2>4. /\ Stamps(W, new)
        /\ InOrder(W, new, entered) = Added(InOrder(V, stamp, entry), entered[i], E)
        /\ InOrder(W, new, entered)[1] = entered[i]
    BY <2>3, RestampAdds
  <2>5. ListOf(C) = InOrder(V, stamp, entry) /\ ListOf(D) = InOrder(W, new, entered)
    BY DEF ListOf, V, W, stamp, new, entry, entered
  <2>6. Good(D, t + 1)
    BY <1>3, <1>10, <1>12, <2>4 DEF Good, W, new
  <2> QED
    BY <1>6, <1>9, <2>4, <2>5, <2>6 DEF Used, D, i
<1> QED
  BY <1>14, <1>15

-----------------------------------------------------------------------------
(* Recent, of a set in state C.                                            *)
AtLeast(C, i) == Cardinality({j \in InUse(C) : C[j].timeStamp >= C[i].timeStamp})

RecentOf(C) ==
    [k \in 1 .. Cardinality(InUse(C)) |-> C[CHOOSE i \in InUse(C) : AtLeast(C, i) = k].tag]

LEMMA RecentIs ==
    ASSUME NEW y
    PROVE  Recent(y) = RecentOf(cache[y]) /\ Recent(y)' = RecentOf(cache'[y])
BY DEF Recent, RecentOf, AtLeast, ValidLines, InUse

LEMMA RecentIsList ==
    ASSUME NEW C, NEW clock, Good(C, clock)
    PROVE  RecentOf(C) = ListOf(C)
<1> DEFINE V == InUse(C)
           stamp == StampOf(C)
           used(k) == C[CHOOSE i \in V : AtLeast(C, i) = k].tag
           listed(k) == TagOf(C)[CHOOSE i \in V : Rank(V, stamp, i) = k - 1]
<1>1. /\ Stamps(V, stamp) /\ V \subseteq Lines
      /\ \A i \in V : stamp[i] = C[i].timeStamp /\ stamp[i] \in Nat
  BY DEF Good, InUse, StampOf, SetStates, LineStates
<1>2. ASSUME NEW i \in V
      PROVE  AtLeast(C, i) = Rank(V, stamp, i) + 1
  <2>1. {j \in V : C[j].timeStamp >= C[i].timeStamp} = Later(V, stamp, i) \cup {i}
    BY <1>1 DEF Later, Stamps
  <2>2. IsFiniteSet(Later(V, stamp, i)) /\ i \notin Later(V, stamp, i)
    BY <1>1, LaterIsFinite
  <2> QED
    BY <2>1, <2>2, FS_AddElement DEF AtLeast, Rank
<1>3. ASSUME NEW k \in 1 .. Cardinality(V)
      PROVE  used(k) = listed(k)
  <2> DEFINE a == CHOOSE i \in V : AtLeast(C, i) = k
             r == CHOOSE i \in V : Rank(V, stamp, i) = k - 1
  <2>1. \E j \in V : Rank(V, stamp, j) = k - 1
    BY <1>1, RankTaken
  <2>2. r \in V /\ Rank(V, stamp, r) = k - 1
    BY <2>1
  <2>3. \A j \in V : Rank(V, stamp, j) \in Nat
    BY <1>1, LaterIsFinite
  <2>4. Cardinality(V) \in Nat
    BY <1>1, FS_CardinalityType DEF Stamps
  <2>5. AtLeast(C, r) = k
    BY <1>2, <2>2, <2>4
  <2>6. a \in V /\ AtLeast(C, a) = k
    BY <2>2, <2>5
  <2>7. Rank(V, stamp, a) = k - 1
    BY <1>2, <2>3, <2>4, <2>6
  <2>8. a = r
    BY <1>1, <2>2, <2>6, <2>7, RankOrder
  <2>9. TagOf(C)[r] = C[r].tag
    BY <1>1, <2>2 DEF TagOf
  <2> HIDE DEF a, r
  <2>10. used(k) = C[a].tag /\ listed(k) = TagOf(C)[r]
    BY DEF a, r
  <2> QED
    BY <2>8, <2>9, <2>10
<1>4. RecentOf(C) = [k \in 1 .. Cardinality(V) |-> used(k)]
  BY DEF RecentOf
<1>5. ListOf(C) = [k \in 1 .. Cardinality(V) |-> listed(k)]
  BY DEF ListOf, InOrder
<1> HIDE DEF used, listed
<1> QED
  BY <1>3, <1>4, <1>5

-----------------------------------------------------------------------------
(* The state of an access: the set, the clock and the counts.              *)
IsAccess(st) ==
    /\ st = [set |-> st.set, clock |-> st.clock, hit |-> st.hit, miss |-> st.miss, evict |-> st.evict]
    /\ st.hit \in Nat

(* next is st after a lookup that stamped line i.                          *)
HasFilled(st, next, i, tag) ==
    /\ IsAccess(next)
    /\ next.set = Filled(st.set, i, tag, st.clock)
    /\ next.clock = st.clock + 1

(* A lookup that finds its block, or is the first of its access.           *)
LEMMA LookUpFills ==
    ASSUME NEW st, IsAccess(st), NEW tag, Matching(st.set, tag) # {} \/ st.hit = 0
    PROVE  HasFilled(st, LookUp(st, tag), Slot(st.set, tag), tag)
<1> DEFINE C == st.set
           D == Filled(C, Slot(C, tag), tag, st.clock)
           next == LookUp(st, tag)
<1>0. /\ st = [set |-> st.set, clock |-> st.clock, hit |-> st.hit, miss |-> st.miss, evict |-> st.evict]
      /\ st.hit \in Nat
  BY DEF IsAccess
<1>1. CASE Matching(C, tag) # {}
  <2>1. next = [Stamped(st, Slot(C, tag), tag) EXCEPT !.hit = @ + 1]
    BY <1>1 DEF LookUp, Slot
  <2>2. next = [set |-> D, clock |-> st.clock + 1,
                hit |-> st.hit + 1, miss |-> st.miss, evict |-> st.evict]
    BY <1>0, <2>1 DEF Stamped, Filled
  <2>3. st.hit + 1 \in Nat
    BY <1>0
  <2> HIDE DEF next, D
  <2>4. HasFilled(st, next, Slot(C, tag), tag)
    BY <2>2, <2>3 DEF HasFilled, IsAccess, D
  <2> QED
    BY <2>4 DEF next
<1>2. CASE Matching(C, tag) = {} /\ Unused(C) # {}
  <2>1. next = Stamped([st EXCEPT !.miss = @ + 1], Slot(C, tag), tag)
    BY <1>2 DEF LookUp, Slot
  <2>2. next = [set |-> D, clock |-> st.clock + 1,
                hit |-> st.hit, miss |-> st.miss + 1, evict |-> st.evict]
    BY <1>0, <2>1 DEF Stamped, Filled
  <2> HIDE DEF next, D
  <2>4. HasFilled(st, next, Slot(C, tag), tag)
    BY <1>0, <2>2 DEF HasFilled, IsAccess, D
  <2> QED
    BY <2>4 DEF next
<1>3. CASE Matching(C, tag) = {} /\ Unused(C) = {}
  <2>1. next = [Stamped([st EXCEPT !.miss = @ + 1], Slot(C, tag), tag) EXCEPT !.evict = @ + 1]
    BY <1>3 DEF LookUp, Slot
  <2>2. next = [set |-> D, clock |-> st.clock + 1,
                hit |-> st.hit, miss |-> st.miss + 1, evict |-> st.evict + 1]
    BY <1>0, <2>1 DEF Stamped, Filled
  <2> HIDE DEF next, D
  <2>4. HasFilled(st, next, Slot(C, tag), tag)
    BY <1>0, <2>2 DEF HasFilled, IsAccess, D
  <2> QED
    BY <2>4 DEF next
<1> QED
  BY <1>1, <1>2, <1>3

(* An access begins with nothing counted, and its first lookup stamps.     *)
StartOf(C) == [set |-> C, clock |-> curTimeStamp, hit |-> 0, miss |-> 0, evict |-> 0]
OnceOf(C, tag) == LookUp(StartOf(C), tag)

LEMMA FirstLookUp ==
    ASSUME NEW C, NEW tag, NEW times
    PROVE  /\ IsAccess(OnceOf(C, tag))
           /\ OnceOf(C, tag).set = Filled(C, Slot(C, tag), tag, curTimeStamp)
           /\ OnceOf(C, tag).clock = curTimeStamp + 1
           /\ Updated(C, tag, times) =
                  IF times = 1 THEN OnceOf(C, tag) ELSE LookUp(OnceOf(C, tag), tag)
<1>1. /\ StartOf(C).set = C /\ StartOf(C).clock = curTimeStamp
      /\ StartOf(C).hit = 0 /\ IsAccess(StartOf(C))
  BY DEF StartOf, IsAccess
<1>2. HasFilled(StartOf(C), OnceOf(C, tag), Slot(StartOf(C).set, tag), tag)
  BY <1>1, LookUpFills DEF OnceOf
<1>3. Updated(C, tag, times) =
          IF times = 1 THEN OnceOf(C, tag) ELSE LookUp(OnceOf(C, tag), tag)
  BY DEF Updated, OnceOf, StartOf
<1> QED
  BY <1>1, <1>2, <1>3 DEF HasFilled

LEMMA UpdatedDraws ==
    ASSUME curTimeStamp \in Nat, NEW C, NEW tag, NEW times
    PROVE  /\ Updated(C, tag, times).clock \in Nat
           /\ curTimeStamp <= Updated(C, tag, times).clock
<1> DEFINE once == OnceOf(C, tag)
<1>1. /\ IsAccess(once) /\ once.clock = curTimeStamp + 1
      /\ Updated(C, tag, times) = IF times = 1 THEN once ELSE LookUp(once, tag)
  BY FirstLookUp
<1> HIDE DEF once
<1>2. LookUp(once, tag).clock \in {curTimeStamp + 1, curTimeStamp + 1 + 1}
  <2>1. CASE Matching(once.set, tag) # {} \/ once.hit = 0
    <3>1. HasFilled(once, LookUp(once, tag), Slot(once.set, tag), tag)
      BY <1>1, <2>1, LookUpFills
    <3> QED
      BY <1>1, <3>1 DEF HasFilled
  <2>2. CASE ~ (Matching(once.set, tag) # {} \/ once.hit = 0)
    <3>1. Matching(once.set, tag) = {} /\ once.hit > 0
      BY <1>1, <2>2 DEF IsAccess
    <3>2. LookUp(once, tag) = once
      BY <3>1 DEF LookUp
    <3> QED
      BY <1>1, <3>2
  <2> QED
    BY <2>1, <2>2
<1> QED
  BY <1>1, <1>2

LEMMA GoodLater ==
    ASSUME NEW C, NEW clock, NEW t \in Nat, Good(C, clock), clock <= t
    PROVE  Good(C, t)
<1>1. /\ clock \in Nat
      /\ \A i \in InUse(C) : StampOf(C)[i] \in Nat /\ StampOf(C)[i] < clock
  BY DEF Good, Stamps
<1> QED
  BY <1>1 DEF Good

(* An access, with one lookup or with two, is one use of its set.          *)
IsUse(C, st, tag) ==
    /\ Good(st.set, st.clock)
    /\ Used(ListOf(C), ListOf(st.set), Tags, E)
    /\ ListOf(st.set)[1] = tag

LEMMA UpdatedUses ==
    ASSUME NEW C, Good(C, curTimeStamp), NEW tag \in Tags, NEW times \in {1, 2}
    PROVE  IsUse(C, Updated(C, tag, times), tag)
<1> DEFINE once == OnceOf(C, tag)
           i == Slot(C, tag)
           D == Filled(C, i, tag, curTimeStamp)
<1>1. curTimeStamp \in Nat /\ C \in SetStates
  BY DEF Good
<1>2. /\ IsAccess(once) /\ once.set = D /\ once.clock = curTimeStamp + 1
      /\ Updated(C, tag, times) = IF times = 1 THEN once ELSE LookUp(once, tag)
  BY FirstLookUp
<1>3. /\ Good(D, curTimeStamp + 1)
      /\ Used(ListOf(C), ListOf(D), Tags, E)
      /\ ListOf(D)[1] = tag
      /\ Matching(D, tag) = {i}
  BY <1>1, FilledUses
<1>5. CASE times = 1
  <2> HIDE DEF once, D, i
  <2> QED
    BY <1>2, <1>3, <1>5 DEF IsUse
<1>6. CASE times = 2
  <2> DEFINE t == curTimeStamp + 1
             F == Filled(C, i, tag, t)
             twice == LookUp(once, tag)
  <2>1. HasFilled(once, twice, Slot(D, tag), tag)
    <3>1. Matching(once.set, tag) # {}
      BY <1>2, <1>3
    <3> HIDE DEF once, D, i
    <3> QED
      BY <1>2, <3>1, LookUpFills
  <2>2. Slot(D, tag) = i
    <3>1. D \in SetStates
      BY <1>3 DEF Good
    <3> HIDE DEF D
    <3>2. i \in Lines /\ Slot(D, tag) \in Matching(D, tag)
      BY <1>1, <1>3, <3>1, SlotIs
    <3> QED
      BY <1>3, <3>2
  <2>3. Filled(D, i, tag, t) = F
    <3>1. i \in Lines
      BY <1>1, SlotIs
    <3> QED
      BY <1>1, <3>1 DEF Filled, SetStates
  <2>4. /\ Good(F, t + 1)
        /\ Used(ListOf(C), ListOf(F), Tags, E)
        /\ ListOf(F)[1] = tag
    BY <1>1, FilledUses
  <2>5. twice.set = F /\ twice.clock = t + 1
    BY <1>2, <2>1, <2>2, <2>3 DEF HasFilled
  <2>6. Updated(C, tag, times) = twice
    BY <1>2, <1>6
  <2> HIDE DEF twice, F, i
  <2> QED
    BY <2>4, <2>5, <2>6 DEF IsUse
<1> QED
  BY <1>5, <1>6

-----------------------------------------------------------------------------
(* The invariant of a user's simulation.                                   *)
SimInv ==
    size = NoTest =>
        /\ pc = "csim"
        /\ cache \in [Sets -> SetStates]
        /\ curTimeStamp \in Nat
        /\ read \in Seq(TraceLines)
        /\ \A y \in Sets : Good(cache[y], curTimeStamp)

LEMMA EmptyGood ==
    /\ EmptyCache \in [Sets -> SetStates]
    /\ \A y \in Sets : Good(EmptyCache[y], 0) /\ RecentOf(EmptyCache[y]) = << >>
<1> DEFINE free == [i \in Lines |-> FreeLine]
<1>1. FreeLine \in LineStates /\ FreeLine.valid = FALSE
  BY DEF FreeLine, LineStates
<1>2. free \in SetStates
  BY <1>1 DEF SetStates
<1>3. InUse(free) = {}
  BY <1>1 DEF InUse
<1>4. IsFiniteSet({}) /\ Cardinality({}) = 0
  BY FS_EmptySet
<1>5. Good(free, 0)
  BY <1>2, <1>3, <1>4 DEF Good, Stamps
<1>6. RecentOf(free) = << >>
  <2>1. 1 .. Cardinality(InUse(free)) = {}
    BY <1>3, <1>4
  <2> HIDE DEF free
  <2> QED
    BY <2>1 DEF RecentOf
<1>7. EmptyCache = [y \in Sets |-> free]
  BY DEF EmptyCache
<1> HIDE DEF free
<1> QED
  BY <1>2, <1>5, <1>6, <1>7

LEMMA SimInit == TestInit => SimInv /\ (size = NoTest => StoresEmpty)
<1> SUFFICES ASSUME TestInit, size = NoTest PROVE SimInv /\ StoresEmpty
  BY DEF SimInv
<1>1. size \notin Sizes
  BY TestSizesAssumption DEF NoTest
<1>2. pc = "csim" /\ cache = EmptyCache /\ curTimeStamp = 0 /\ read = << >>
  BY <1>1 DEF TestInit, Init
<1>3. SimInv
  BY <1>2, EmptyGood DEF SimInv
<1>4. StoresEmpty
  BY <1>2, EmptyGood, RecentIs DEF StoresEmpty
<1> QED
  BY <1>3, <1>4

(* An access uses its set and leaves the others as they are.               *)
LEMMA AccessUses ==
    ASSUME cache \in [Sets -> SetStates], curTimeStamp \in Nat,
           \A y \in Sets : Good(cache[y], curTimeStamp),
           NEW line \in TraceLines, accessCache(line.op, line.addr)
    PROVE  /\ cache' \in [Sets -> SetStates]
           /\ curTimeStamp' \in Nat
           /\ \A y \in Sets : Good(cache'[y], curTimeStamp') /\ StoreStep(y, line)
<1> DEFINE used == matchSetAddr(line.addr)
           tag == matchTag(line.addr)
           times == Times(line.op)
           st == Updated(cache[used], tag, times)
<1>1. /\ line.op \in {"L", "M", "S"}
      /\ cache' = [cache EXCEPT ![used] = st.set]
      /\ curTimeStamp' = st.clock
  BY DEF accessCache
<1>2. times \in {1, 2} /\ tag \in Tags
  BY DEF Times, Tags
<1>3. curTimeStamp' \in Nat /\ curTimeStamp <= curTimeStamp'
  BY <1>1, UpdatedDraws
<1>4. ASSUME used \in Sets
      PROVE  IsUse(cache[used], st, tag)
  BY <1>2, <1>4, UpdatedUses
<1> HIDE DEF used, tag, times, st
<1>5. cache' \in [Sets -> SetStates]
  <2>1. used \in Sets => st.set \in SetStates
    BY <1>4 DEF IsUse, Good
  <2> QED
    BY <1>1, <2>1
<1>6. ASSUME NEW y \in Sets
      PROVE  Good(cache'[y], curTimeStamp') /\ StoreStep(y, line)
  <2>1. Recent(y) = ListOf(cache[y])
    BY RecentIs, RecentIsList
  <2>2. Good(cache'[y], curTimeStamp') => Recent(y)' = ListOf(cache'[y])
    BY RecentIs, RecentIsList
  <2>3. CASE y = used
    <3>1. IsUse(cache[y], st, tag) /\ cache'[y] = st.set
      BY <1>1, <1>4, <2>3
    <3>2. /\ Good(cache'[y], curTimeStamp')
          /\ Used(Recent(y), Recent(y)', Tags, E)
          /\ Recent(y)'[1] = tag
      BY <1>1, <2>1, <2>2, <3>1 DEF IsUse
    <3>3. LRU!Used(Recent(y), Recent(y)', Tags, E)
      BY <3>2 DEF Used, Touched, Added, RemoveAt, Front, LRU!Used, LRU!Touched, LRU!Added, LRU!RemoveAt, LRU!Front
    <3> QED
      BY <1>1, <2>3, <3>2, <3>3 DEF StoreStep, used, tag
  <2>4. CASE y # used
    <3>1. cache'[y] = cache[y]
      BY <1>1, <2>4
    <3>2. Good(cache'[y], curTimeStamp')
      BY <1>3, <3>1, GoodLater
    <3>3. Recent(y)' = Recent(y)
      BY <2>1, <2>2, <3>1, <3>2
    <3> QED
      BY <2>4, <3>2, <3>3 DEF StoreStep, used
  <2> QED
    BY <2>3, <2>4
<1> QED
  BY <1>3, <1>5, <1>6

LEMMA SimStep ==
    SimInv /\ [TestNext]_<<csimVars, testVars>> =>
        SimInv' /\ [size = NoTest => StoresUsed]_<<csimVars, testVars>>
<1> SUFFICES ASSUME SimInv, [TestNext]_<<csimVars, testVars>>
             PROVE  SimInv' /\ [size = NoTest => StoresUsed]_<<csimVars, testVars>>
  OBVIOUS
<1>1. CASE UNCHANGED <<csimVars, testVars>>
  <2>1. SimInv'
    BY <1>1 DEF SimInv, csimVars, testVars, NoTest
  <2> QED
    BY <1>1, <2>1
<1>2. CASE size # NoTest /\ TestNext
  <2>1. size' = size
    BY <1>2 DEF TestNext, csim, tracegen, eval_perf, sigalrm_handler
  <2> QED
    BY <1>2, <2>1 DEF SimInv, NoTest
<1>3. CASE size = NoTest /\ TestNext
  <2>1. /\ pc = "csim"
        /\ cache \in [Sets -> SetStates]
        /\ curTimeStamp \in Nat
        /\ read \in Seq(TraceLines)
        /\ \A y \in Sets : Good(cache[y], curTimeStamp)
    BY <1>3 DEF SimInv
  <2>2. csim
    BY <1>3, <2>1 DEF TestNext, tracegen, eval_perf, sigalrm_handler
  <2>3. Next /\ size' = size /\ pc' = pc
    BY <2>2 DEF csim, testVars
  <2>4. PICK line \in TraceLines : ReadLine(line)
    BY <2>3 DEF Next
  <2>5. read' \in Seq(TraceLines) /\ read'[Len(read')] = line
    BY <2>1, <2>4, AppendProperties DEF ReadLine
  <2>6. /\ cache' \in [Sets -> SetStates]
        /\ curTimeStamp' \in Nat
        /\ \A y \in Sets : Good(cache'[y], curTimeStamp') /\ StoreStep(y, line)
    <3>1. CASE accessCache(line.op, line.addr)
      BY <2>1, <3>1, AccessUses
    <3>2. CASE Instruction(line.op) \/ InvalidOp(line.op)
      <4>1. line.op \notin {"L", "M", "S"} /\ cache' = cache /\ curTimeStamp' = curTimeStamp
        BY <3>2 DEF Instruction, InvalidOp
      <4>2. \A y : Recent(y)' = Recent(y)
        BY <4>1, RecentIs
      <4> QED
        BY <2>1, <4>1, <4>2 DEF StoreStep
    <3> QED
      BY <2>4, <3>1, <3>2 DEF ReadLine
  <2>7. StoresUsed
    BY <2>5, <2>6 DEF StoresUsed
  <2>8. SimInv'
    BY <1>3, <2>1, <2>3, <2>5, <2>6 DEF SimInv, NoTest
  <2> QED
    BY <2>7, <2>8
<1> QED
  BY <1>1, <1>2, <1>3

(* lruUpdateSet: whatever the geometry and the trace, every set of a       *)
(* user's cache is a least-recently-used store of its own, its lines       *)
(* ordered by stamps from the clock that all sets share.                   *)
THEOREM CsimSetsAreLRU == TestSpec => ImplementsLRU
<1>1. TestInit => SimInv /\ (size = NoTest => StoresEmpty)
  BY SimInit
<1>2. SimInv /\ [TestNext]_<<csimVars, testVars>> =>
          SimInv' /\ [size = NoTest => StoresUsed]_<<csimVars, testVars>>
  BY SimStep
<1> QED
  BY <1>1, <1>2, PTL DEF TestSpec, ImplementsLRU

-----------------------------------------------------------------------------
(* The counts.  Every lookup stamps exactly one line and draws one stamp,  *)
(* so the stamp of a line is the number of accesses before its last one:   *)
(* the list of accesses and the lines can be compared place by place.      *)
AccessTo(y, tag) == [set |-> y, tag |-> tag]
AccessList     == Seq([set : Sets, tag : Tags])

(* Line i of set y holds the block that access StampOf(C)[i] + 1 used, and *)
(* it was not used again.                                                  *)
LastUse(C, i, y, acc) ==
    LET n == StampOf(C)[i] + 1
    IN  /\ n \in DOMAIN acc
        /\ acc[n] = AccessTo(y, TagOf(C)[i])
        /\ \A m \in DOMAIN acc : m > n => acc[m] # acc[n]

Holds(C, tag) == \E i \in InUse(C) : TagOf(C)[i] = tag

(* A block of set y that access m used is held, or was pushed out by E     *)
(* others used after it.                                                   *)
PushedOut(C, m) == InUse(C) = Lines /\ \A i \in Lines : m < StampOf(C)[i] + 1

Linked(C, y, acc) ==
    /\ \A i \in InUse(C) : LastUse(C, i, y, acc)
    /\ \A m \in DOMAIN acc : acc[m].set = y => Holds(C, acc[m].tag) \/ PushedOut(C, m)

LEMMA AppendIs ==
    ASSUME NEW S, NEW acc \in Seq(S), NEW a \in S
    PROVE  /\ Append(acc, a) \in Seq(S)
           /\ Len(acc) \in Nat /\ Len(Append(acc, a)) = Len(acc) + 1
           /\ DOMAIN acc = 1 .. Len(acc)
           /\ DOMAIN Append(acc, a) = 1 .. Len(acc) + 1
           /\ Append(acc, a)[Len(acc) + 1] = a
           /\ \A m \in DOMAIN acc : m \in DOMAIN Append(acc, a) /\ Append(acc, a)[m] = acc[m]
BY AppendProperties, LenProperties

(* An access to another set. *)
LEMMA OthersLinked ==
    ASSUME NEW C, NEW clock, Good(C, clock), NEW y, NEW acc \in AccessList, Linked(C, y, acc),
           NEW a \in [set : Sets, tag : Tags], a.set # y
    PROVE  Linked(C, y, Append(acc, a))
<1> DEFINE len == Len(acc)
           next == Append(acc, a)
<1>1. /\ len \in Nat /\ DOMAIN acc = 1 .. len /\ DOMAIN next = 1 .. len + 1 /\ next[len + 1] = a
      /\ \A m \in DOMAIN acc : m \in DOMAIN next /\ next[m] = acc[m]
  BY AppendIs DEF AccessList
<1>2. \A m \in DOMAIN next : m \in DOMAIN acc \/ m = len + 1
  BY <1>1
<1> HIDE DEF len, next
<1>3. ASSUME NEW i \in InUse(C)
      PROVE  LastUse(C, i, y, next)
  <2> DEFINE n == StampOf(C)[i] + 1
  <2>1. /\ n \in DOMAIN acc
        /\ acc[n] = AccessTo(y, TagOf(C)[i])
        /\ \A m \in DOMAIN acc : m > n => acc[m] # acc[n]
    BY DEF Linked, LastUse
  <2>2. next[len + 1] # next[n]
    BY <1>1, <2>1 DEF AccessTo
  <2> HIDE DEF n
  <2>3. \A m \in DOMAIN next : m > n => next[m] # next[n]
    BY <1>1, <1>2, <2>1, <2>2
  <2> QED
    BY <1>1, <2>1, <2>3 DEF LastUse, n
<1>4. ASSUME NEW m \in DOMAIN next, next[m].set = y
      PROVE  Holds(C, next[m].tag) \/ PushedOut(C, m)
  <2>1. m \in DOMAIN acc
    BY <1>1, <1>2, <1>4
  <2> QED
    BY <1>1, <1>4, <2>1 DEF Linked
<1> QED
  BY <1>3, <1>4 DEF Linked, next

(* An access to this one, which stamps the line that the lookup chose.     *)
LEMMA FilledLinked ==
    ASSUME NEW acc \in AccessList, NEW C, Good(C, Len(acc)), NEW y \in Sets,
           Linked(C, y, acc), NEW tag \in Tags
    PROVE  Linked(Filled(C, Slot(C, tag), tag, Len(acc)), y, Append(acc, AccessTo(y, tag)))
<1> DEFINE len == Len(acc)
           a == AccessTo(y, tag)
           next == Append(acc, a)
           i == Slot(C, tag)
           D == Filled(C, i, tag, len)
<1>1. /\ len \in Nat /\ DOMAIN acc = 1 .. len /\ DOMAIN next = 1 .. len + 1 /\ next[len + 1] = a
      /\ \A m \in DOMAIN acc : m \in DOMAIN next /\ next[m] = acc[m]
  BY AppendIs DEF AccessList, AccessTo
<1>2. \A m \in DOMAIN next : m \in DOMAIN acc \/ m = len + 1
  BY <1>1
<1>3. /\ C \in SetStates
      /\ \A j \in InUse(C) : StampOf(C)[j] \in Nat /\ StampOf(C)[j] < len
      /\ \A j, k \in InUse(C) : StampOf(C)[j] = StampOf(C)[k] => j = k
      /\ \A j, k \in InUse(C) : TagOf(C)[j] = TagOf(C)[k] => j = k
  BY DEF Good, Stamps, TagOf, InUse
<1>4. /\ i \in Lines
      /\ Matching(C, tag) # {} => i \in Matching(C, tag)
      /\ Matching(C, tag) = {} /\ Unused(C) # {} => i \notin InUse(C)
      /\ Matching(C, tag) = {} /\ Unused(C) = {} =>
             \A j \in Lines : C[i].timeStamp <= C[j].timeStamp
  BY <1>3, SlotIs
<1>5. /\ InUse(D) = InUse(C) \cup {i} /\ InUse(C) \subseteq Lines
      /\ StampOf(D)[i] = len /\ TagOf(D)[i] = tag
      /\ \A j \in Lines \ {i} : StampOf(D)[j] = StampOf(C)[j] /\ TagOf(D)[j] = TagOf(C)[j]
  <2> HIDE DEF i
  <2>1. D[i] = [valid |-> TRUE, tag |-> tag, timeStamp |-> len] /\ \A j \in Lines \ {i} : D[j] = C[j]
    BY <1>3, <1>4 DEF Filled, SetStates
  <2> HIDE DEF D
  <2> QED
    BY <1>4, <2>1 DEF InUse, StampOf, TagOf
<1>6. \A j \in InUse(C) : TagOf(C)[j] = tag => j = i
  <2>1. \A j \in InUse(C) : TagOf(C)[j] = tag => j \in Matching(C, tag)
    BY DEF InUse, TagOf, Matching
  <2>2. \A j \in Matching(C, tag) : j \in InUse(C) /\ TagOf(C)[j] = tag
    BY DEF InUse, TagOf, Matching
  <2> HIDE DEF i
  <2> QED
    BY <1>3, <1>4, <2>1, <2>2
<1>7. \A j \in Lines : StampOf(C)[j] = C[j].timeStamp /\ StampOf(C)[j] \in Nat
  BY <1>3 DEF StampOf, SetStates, LineStates
<1>8. Matching(C, tag) # {} => i \in InUse(C) /\ TagOf(C)[i] = tag
  BY <1>4 DEF InUse, TagOf, Matching
<1>9. Unused(C) = {} <=> InUse(C) = Lines
  BY DEF Unused, InUse
<1> HIDE DEF len, next, i, D
<1>10. ASSUME NEW j \in InUse(D)
       PROVE  LastUse(D, j, y, next)
  <2>1. CASE j = i
    <3>1. StampOf(D)[j] + 1 = len + 1 /\ len + 1 \in DOMAIN next /\ next[len + 1] = AccessTo(y, TagOf(D)[j])
      BY <1>1, <1>5, <2>1
    <3>2. \A m \in DOMAIN next : ~ (m > len + 1)
      BY <1>1
    <3> QED
      BY <3>1, <3>2 DEF LastUse
  <2>2. CASE j # i
    <3> DEFINE n == StampOf(C)[j] + 1
    <3>1. /\ j \in InUse(C) /\ j \in Lines
          /\ StampOf(D)[j] = StampOf(C)[j] /\ TagOf(D)[j] = TagOf(C)[j]
      BY <1>5, <2>2
    <3>2. /\ n \in DOMAIN acc
          /\ acc[n] = AccessTo(y, TagOf(C)[j])
          /\ \A m \in DOMAIN acc : m > n => acc[m] # acc[n]
      BY <3>1 DEF Linked, LastUse
    <3>3. next[len + 1] # next[n]
      BY <1>1, <1>6, <2>2, <3>1, <3>2 DEF AccessTo
    <3> HIDE DEF n
    <3>4. \A m \in DOMAIN next : m > n => next[m] # next[n]
      BY <1>1, <1>2, <3>2, <3>3
    <3> QED
      BY <1>1, <3>1, <3>2, <3>4 DEF LastUse, n
  <2> QED
    BY <2>1, <2>2
<1>11. ASSUME NEW m \in DOMAIN next, next[m].set = y
       PROVE  Holds(D, next[m].tag) \/ PushedOut(D, m)
  <2>1. Holds(D, tag)
    BY <1>5 DEF Holds
  <2>2. CASE m = len + 1
    BY <1>1, <2>1, <2>2 DEF AccessTo
  <2>3. CASE m \in DOMAIN acc
    <3>1. /\ next[m] = acc[m] /\ m \in Nat /\ m < len + 1
          /\ Holds(C, acc[m].tag) \/ PushedOut(C, m)
      BY <1>1, <1>11, <2>3 DEF Linked
    <3>2. CASE PushedOut(C, m)
      <4>1. InUse(D) = Lines /\ InUse(C) = Lines /\ \A j \in Lines : m < StampOf(C)[j] + 1
        BY <1>4, <1>5, <3>2 DEF PushedOut
      <4>2. \A j \in Lines : m < StampOf(D)[j] + 1
        BY <1>5, <3>1, <4>1
      <4> QED
        BY <4>1, <4>2 DEF PushedOut
    <3>3. CASE \E j \in InUse(C) \ {i} : TagOf(C)[j] = acc[m].tag
      BY <1>5, <3>1, <3>3 DEF Holds
    <3>4. CASE i \in InUse(C) /\ TagOf(C)[i] = acc[m].tag
      <4>1. CASE Matching(C, tag) # {}
        BY <1>8, <2>1, <3>1, <3>4, <4>1
      <4>2. CASE Matching(C, tag) = {}
        <5>1. InUse(C) = Lines /\ \A j \in Lines : StampOf(C)[i] <= StampOf(C)[j]
          BY <1>4, <1>7, <1>9, <3>4, <4>2
        <5>2. \A j \in Lines \ {i} : StampOf(C)[i] < StampOf(C)[j]
          <6> TAKE j \in Lines \ {i}
          <6>1. StampOf(C)[i] # StampOf(C)[j]
            BY <1>3, <1>4, <5>1
          <6> QED
            BY <1>4, <1>7, <5>1, <6>1
        <5>3. ~ (m > StampOf(C)[i] + 1)
          <6>1. LastUse(C, i, y, acc)
            BY <3>4 DEF Linked
          <6>2. acc[m] = AccessTo(y, TagOf(C)[i])
            <7>1. acc[m] \in [set : Sets, tag : Tags]
              BY <1>1, <2>3, ElementOfSeq DEF AccessList, len
            <7> QED
              BY <1>11, <3>1, <3>4, <7>1 DEF AccessTo
          <6> QED
            BY <2>3, <6>1, <6>2 DEF LastUse
        <5>4. \A j \in Lines : m < StampOf(D)[j] + 1
          BY <1>4, <1>5, <1>7, <3>1, <5>2, <5>3
        <5>5. InUse(D) = Lines
          BY <1>4, <1>5, <5>1
        <5> QED
          BY <5>4, <5>5 DEF PushedOut
      <4> QED
        BY <4>1, <4>2
    <3> QED
      BY <3>1, <3>2, <3>3, <3>4 DEF Holds
  <2> QED
    BY <1>2, <2>2, <2>3
<1> QED
  BY <1>10, <1>11 DEF Linked, D, next, i, len

(* The blocks of its set that were used after the use m of the block of    *)
(* access n.                                                               *)
Between(acc, m, n) ==
    {acc[k] : k \in {j \in m .. n - 1 : acc[j].set = acc[n].set}} \ {acc[n]}

LEMMA BetweenIs ==
    ASSUME NEW acc, NEW m \in Nat, NEW n \in Nat
    PROVE  /\ IsFiniteSet(Between(acc, m, n)) /\ Cardinality(Between(acc, m, n)) \in Nat
           /\ ReusedInTime(acc, n) <=>
                  \E q \in 1 .. n - 1 : acc[q] = acc[n] /\ Cardinality(Between(acc, q, n)) < E
<1> DEFINE K == {j \in m .. n - 1 : acc[j].set = acc[n].set}
           f == [k \in K |-> acc[k]]
<1>1. IsFiniteSet(m .. n - 1)
  BY FS_Interval
<1>2. IsFiniteSet(K)
  BY <1>1, FS_Subset
<1>3. IsFiniteSet({acc[k] : k \in K})
  <2>1. f \in Surjection(K, {acc[k] : k \in K})
    BY DEF Surjection
  <2> HIDE DEF f, K
  <2> QED
    BY <1>2, <2>1, FS_Surjection
<1>4. Between(acc, m, n) \subseteq {acc[k] : k \in K}
  BY DEF Between
<1>5. IsFiniteSet(Between(acc, m, n))
  BY <1>3, <1>4, FS_Subset
<1>6. ReusedInTime(acc, n) <=>
          \E q \in 1 .. n - 1 : acc[q] = acc[n] /\ Cardinality(Between(acc, q, n)) < E
  BY DEF ReusedInTime, Between
<1> QED
  BY <1>5, <1>6, FS_CardinalityType

(* A lookup finds its block exactly when the block is reused in time: the  *)
(* blocks used since its last use are other lines of the set, and when the *)
(* block is gone, every line holds one of them.                            *)
LEMMA FoundIfReused ==
    ASSUME NEW acc \in AccessList, NEW C, Good(C, Len(acc)), NEW y \in Sets,
           Linked(C, y, acc), NEW tag \in Tags
    PROVE  ReusedInTime(Append(acc, AccessTo(y, tag)), Len(acc) + 1) <=> Matching(C, tag) # {}
<1> DEFINE len == Len(acc)
           a == AccessTo(y, tag)
           next == Append(acc, a)
           V == InUse(C)
           now(m) == Between(next, m, len + 1)
<1>1. /\ len \in Nat /\ DOMAIN acc = 1 .. len /\ DOMAIN next = 1 .. len + 1 /\ next[len + 1] = a
      /\ \A m \in DOMAIN acc : m \in DOMAIN next /\ next[m] = acc[m]
  BY AppendIs DEF AccessList, AccessTo
<1>2. \A m \in 1 .. len : next[m] = acc[m] /\ acc[m] \in [set : Sets, tag : Tags]
  BY <1>1, ElementOfSeq DEF AccessList
<1>3. /\ \A j \in V : StampOf(C)[j] \in Nat /\ StampOf(C)[j] < len
      /\ \A j, k \in V : TagOf(C)[j] = TagOf(C)[k] => j = k
      /\ V \subseteq Lines
  BY DEF Good, Stamps, TagOf, InUse
<1>4. IsFiniteSet(Lines) /\ Cardinality(Lines) = E
  BY FS_Interval, GeometryAssumption DEF Lines
<1>5. \A j \in V : TagOf(C)[j] = tag => j \in Matching(C, tag)
  BY DEF InUse, TagOf, Matching
<1>6. \A j \in Matching(C, tag) : j \in V /\ TagOf(C)[j] = tag
  BY DEF InUse, TagOf, Matching
<1>7. a = [set |-> y, tag |-> tag]
  BY DEF AccessTo
<1> HIDE DEF len, a, next, V
<1>8. \A m : now(m) = {next[k] : k \in {j \in m .. len : next[j].set = y}} \ {a}
  <2>1. (len + 1) - 1 = len /\ next[len + 1] = a /\ a.set = y
    BY <1>1, <1>7
  <2> QED
    BY <2>1 DEF Between
<1>9. ReusedInTime(next, len + 1) <=> \E q \in 1 .. len : next[q] = a /\ Cardinality(now(q)) < E
  <2>1. len + 1 \in Nat /\ (len + 1) - 1 = len /\ next[len + 1] = a
    BY <1>1
  <2>2. ReusedInTime(next, len + 1) <=>
            \E q \in 1 .. (len + 1) - 1 :
                next[q] = next[len + 1] /\ Cardinality(Between(next, q, len + 1)) < E
    BY <2>1, BetweenIs
  <2> QED
    BY <2>1, <2>2
<1>10. \A m \in Nat : IsFiniteSet(now(m)) /\ Cardinality(now(m)) \in Nat
  <2>1. len + 1 \in Nat
    BY <1>1
  <2> QED
    BY <2>1, BetweenIs
<1> HIDE DEF now
<1>11. ASSUME Matching(C, tag) # {}
       PROVE  ReusedInTime(next, len + 1)
  <2>1. PICK i \in V : TagOf(C)[i] = tag
    BY <1>6, <1>11
  <2> DEFINE q == StampOf(C)[i] + 1
             W == V \ {i}
             line == [e \in now(q) |-> CHOOSE j \in W : TagOf(C)[j] = e.tag]
  <2>2. q \in 1 .. len /\ acc[q] = a /\ StampOf(C)[i] \in Nat
    BY <1>1, <1>3, <2>1 DEF Linked, LastUse, a, V
  <2> HIDE DEF q
  <2>3. ASSUME NEW e \in now(q)
        PROVE  e = [set |-> y, tag |-> e.tag] /\ \E j \in W : TagOf(C)[j] = e.tag
    <3>1. PICK k \in q .. len : e = next[k] /\ next[k].set = y /\ e # a
      BY <1>8
    <3>2. k \in 1 .. len /\ k \in DOMAIN acc /\ e = acc[k]
      BY <1>1, <1>2, <2>2, <3>1
    <3>3. e \in [set : Sets, tag : Tags] /\ e = [set |-> y, tag |-> e.tag]
      BY <1>2, <3>1, <3>2
    <3>4. ~ PushedOut(C, k)
      <4>1. i \in Lines /\ ~ (k < StampOf(C)[i] + 1)
        BY <1>3, <2>1, <2>2, <3>1 DEF q
      <4> QED
        BY <4>1 DEF PushedOut
    <3>5. Holds(C, e.tag)
      BY <3>1, <3>2, <3>4, <1>1 DEF Linked
    <3>6. e.tag # tag
      BY <1>7, <3>1, <3>3
    <3> QED
      BY <2>1, <3>3, <3>5, <3>6 DEF Holds, V
  <2>4. IsFiniteSet(W) /\ Cardinality(W) < E
    <3>1. IsFiniteSet(V) /\ Cardinality(V) <= E /\ Cardinality(V) \in Nat
      BY <1>3, <1>4, FS_Subset, FS_CardinalityType
    <3>2. IsFiniteSet(W) /\ Cardinality(W) = Cardinality(V) - 1
      BY <2>1, <3>1, FS_RemoveElement
    <3> QED
      BY <3>1, <3>2, GeometryAssumption
  <2>5. line \in Injection(now(q), W)
    <3>1. \A e \in now(q) : line[e] \in W /\ TagOf(C)[line[e]] = e.tag
      BY <2>3
    <3>2. \A e, f \in now(q) : line[e] = line[f] => e = f
      BY <2>3, <3>1
    <3>3. line \in [now(q) -> W]
      BY <3>1
    <3> QED
      BY <3>2, <3>3 DEF Injection, IsInjective
  <2>6. Cardinality(now(q)) <= Cardinality(W) /\ Cardinality(W) \in Nat
    <3> HIDE DEF line
    <3> QED
      BY <2>4, <2>5, FS_Injection, FS_CardinalityType
  <2>7. Cardinality(now(q)) < E /\ next[q] = a
    <3>1. q \in Nat /\ next[q] = a
      BY <1>1, <1>2, <2>2
    <3>2. Cardinality(now(q)) \in Nat
      BY <1>10, <3>1
    <3> HIDE DEF W
    <3> QED
      BY <2>4, <2>6, <3>1, <3>2, GeometryAssumption
  <2> QED
    BY <1>9, <2>2, <2>7
<1>12. ASSUME Matching(C, tag) = {}, NEW q \in 1 .. len, next[q] = a
       PROVE  ~ (Cardinality(now(q)) < E)
  <2> DEFINE used == [j \in Lines |-> AccessTo(y, TagOf(C)[j])]
  <2>1. acc[q] = a /\ acc[q].set = y /\ acc[q].tag = tag /\ q \in DOMAIN acc
    BY <1>1, <1>2, <1>7, <1>12
  <2>2. ~ Holds(C, tag)
    BY <1>5, <1>12 DEF Holds, V
  <2>3. V = Lines /\ \A j \in Lines : q < StampOf(C)[j] + 1
    BY <2>1, <2>2 DEF Linked, PushedOut, V
  <2>4. ASSUME NEW j \in Lines
        PROVE  AccessTo(y, TagOf(C)[j]) \in now(q)
    <3> DEFINE n == StampOf(C)[j] + 1
    <3>1. n \in 1 .. len /\ acc[n] = AccessTo(y, TagOf(C)[j])
      BY <1>1, <2>3 DEF Linked, LastUse, V
    <3>2. q < n
      BY <2>3
    <3> HIDE DEF n
    <3>3. n \in q .. len /\ next[n] = AccessTo(y, TagOf(C)[j])
      BY <1>1, <1>2, <3>1, <3>2
    <3>4. TagOf(C)[j] # tag
      BY <2>2, <2>3 DEF Holds, V
    <3>5. AccessTo(y, TagOf(C)[j]).set = y /\ AccessTo(y, TagOf(C)[j]) # a
      BY <1>7, <3>4 DEF AccessTo
    <3> QED
      BY <1>8, <3>3, <3>5
  <2>5. used \in Injection(Lines, now(q))
    <3>1. \A j, k \in Lines : used[j] = used[k] => j = k
      BY <1>3, <2>3 DEF AccessTo
    <3>2. used \in [Lines -> now(q)]
      BY <2>4
    <3> QED
      BY <3>1, <3>2 DEF Injection, IsInjective
  <2>6. Cardinality(Lines) <= Cardinality(now(q))
    <3> HIDE DEF used
    <3> QED
      BY <1>10, <2>5, FS_Injection
  <2> QED
    BY <1>4, <1>10, <2>6, GeometryAssumption
<1> QED
  BY <1>9, <1>11, <1>12 DEF next, a, len

Reused(acc) == {n \in DOMAIN acc : ReusedInTime(acc, n)}

(* Another access leaves what was said of the former ones.                 *)
LEMMA ReusedGrows ==
    ASSUME NEW acc \in AccessList, NEW a \in [set : Sets, tag : Tags]
    PROVE  /\ Cardinality(Reused(acc)) \in Nat
           /\ Cardinality(Reused(Append(acc, a))) =
                  Cardinality(Reused(acc)) +
                      IF ReusedInTime(Append(acc, a), Len(acc) + 1) THEN 1 ELSE 0
<1> DEFINE len == Len(acc)
           next == Append(acc, a)
<1>1. /\ len \in Nat /\ DOMAIN acc = 1 .. len /\ DOMAIN next = 1 .. len + 1
      /\ \A m \in DOMAIN acc : next[m] = acc[m]
  BY AppendIs DEF AccessList
<1> HIDE DEF len, next
<1>2. \A n \in 1 .. len : ReusedInTime(next, n) <=> ReusedInTime(acc, n)
  <2> TAKE n \in 1 .. len
  <2>1. \A m \in 1 .. n : next[m] = acc[m]
    BY <1>1
  <2>2. \A q \in 1 .. n - 1 : Between(next, q, n) = Between(acc, q, n)
    <3> TAKE q \in 1 .. n - 1
    <3>1. {j \in q .. n - 1 : next[j].set = next[n].set} = {j \in q .. n - 1 : acc[j].set = acc[n].set}
      BY <1>1, <2>1
    <3>2. \A j \in q .. n - 1 : next[j] = acc[j]
      BY <1>1, <2>1
    <3>3. next[n] = acc[n]
      BY <1>1, <2>1
    <3> QED
      BY <3>1, <3>2, <3>3 DEF Between
  <2>3. n \in Nat /\ \A q \in 1 .. n - 1 : q \in 1 .. n /\ next[q] = acc[q] /\ next[n] = acc[n]
    BY <1>1, <2>1
  <2> QED
    BY <2>2, <2>3, BetweenIs
<1>3. Reused(acc) \in SUBSET (1 .. len)
  BY <1>1 DEF Reused
<1>4. IsFiniteSet(Reused(acc)) /\ Cardinality(Reused(acc)) \in Nat
  <2>1. IsFiniteSet(1 .. len)
    BY <1>1, FS_Interval
  <2> QED
    BY <1>3, <2>1, FS_Subset, FS_CardinalityType
<1>5. len + 1 \notin Reused(acc)
  BY <1>1, <1>3
<1>6. Reused(next) = IF ReusedInTime(next, len + 1) THEN Reused(acc) \cup {len + 1} ELSE Reused(acc)
  <2>1. 1 .. len + 1 = (1 .. len) \cup {len + 1}
    BY <1>1
  <2> QED
    BY <1>1, <1>2, <2>1 DEF Reused
<1>7. Cardinality(Reused(acc) \cup {len + 1}) = Cardinality(Reused(acc)) + 1
  BY <1>4, <1>5, FS_AddElement
<1> QED
  BY <1>4, <1>6, <1>7 DEF next, len

(* What a lookup counts.  The first lookup of an access hits or misses; if *)
(* there is a second, the block is there.                                  *)
LEMMA LookUpCounts ==
    ASSUME NEW st, IsAccess(st), st.miss \in Nat, NEW tag, Matching(st.set, tag) # {} \/ st.hit = 0
    PROVE  /\ LookUp(st, tag).hit  = st.hit + IF Matching(st.set, tag) # {} THEN 1 ELSE 0
           /\ LookUp(st, tag).miss = st.miss + IF Matching(st.set, tag) # {} THEN 0 ELSE 1
<1> DEFINE next == LookUp(st, tag)
<1>0. /\ st = [set |-> st.set, clock |-> st.clock, hit |-> st.hit, miss |-> st.miss, evict |-> st.evict]
      /\ st.hit \in Nat
  BY DEF IsAccess
<1>1. CASE Matching(st.set, tag) # {}
  <2>1. next = [Stamped(st, FirstOf(Matching(st.set, tag)), tag) EXCEPT !.hit = @ + 1]
    BY <1>1 DEF LookUp
  <2>2. next.hit = st.hit + 1 /\ next.miss = st.miss
    BY <1>0, <2>1 DEF Stamped
  <2> QED
    BY <1>1, <2>2
<1>2. CASE Matching(st.set, tag) = {}
  <2>1. \E i : \/ next = Stamped([st EXCEPT !.miss = @ + 1], i, tag)
               \/ next = [Stamped([st EXCEPT !.miss = @ + 1], i, tag) EXCEPT !.evict = @ + 1]
    BY <1>2 DEF LookUp
  <2>2. next.hit = st.hit /\ next.miss = st.miss + 1
    BY <1>0, <2>1 DEF Stamped
  <2> QED
    BY <1>0, <1>2, <2>2
<1> QED
  BY <1>1, <1>2

(* In the middle of an access of set y, when h and m are the counts of the *)
(* accesses before it and acc has every lookup so far.                     *)
Keeps(st, h, m, y, acc) ==
    /\ IsAccess(st) /\ st.miss \in Nat
    /\ st.clock = Len(acc) /\ Good(st.set, st.clock) /\ Linked(st.set, y, acc)
    /\ h + st.hit = Cardinality(Reused(acc))
    /\ h + st.hit + m + st.miss = Len(acc)

LEMMA LookUpKeeps ==
    ASSUME NEW acc \in AccessList, NEW y \in Sets, NEW tag \in Tags, NEW h \in Nat, NEW m \in Nat,
           NEW st, Keeps(st, h, m, y, acc), Matching(st.set, tag) # {} \/ st.hit = 0
    PROVE  /\ Append(acc, AccessTo(y, tag)) \in AccessList
           /\ Keeps(LookUp(st, tag), h, m, y, Append(acc, AccessTo(y, tag)))
           /\ Matching(LookUp(st, tag).set, tag) # {}
<1> DEFINE C == st.set
           D == Filled(C, Slot(C, tag), tag, st.clock)
           once == LookUp(st, tag)
           next == Append(acc, AccessTo(y, tag))
           found == Matching(C, tag) # {}
<1>1. /\ IsAccess(st) /\ st.hit \in Nat /\ st.miss \in Nat
      /\ st.clock = Len(acc) /\ Good(C, st.clock) /\ Linked(C, y, acc)
      /\ h + st.hit = Cardinality(Reused(acc))
      /\ h + st.hit + m + st.miss = Len(acc)
  BY DEF Keeps, IsAccess
<1>2. /\ next \in AccessList /\ Len(acc) \in Nat /\ Len(next) = Len(acc) + 1
      /\ AccessTo(y, tag) \in [set : Sets, tag : Tags]
  BY AppendIs DEF AccessList, AccessTo
<1>3. IsAccess(once) /\ once.set = D /\ once.clock = st.clock + 1
  BY <1>1, LookUpFills DEF HasFilled
<1>4. once.hit = st.hit + (IF found THEN 1 ELSE 0) /\ once.miss = st.miss + (IF found THEN 0 ELSE 1)
  BY <1>1, LookUpCounts
<1>5. Good(D, st.clock + 1) /\ Matching(D, tag) # {}
  <2>1. st.clock \in Nat
    BY <1>1, <1>2
  <2>2. Good(D, st.clock + 1) /\ Matching(D, tag) = {Slot(C, tag)}
    BY <1>1, <2>1, FilledUses
  <2> HIDE DEF D
  <2> QED
    BY <2>2
<1>6. Linked(D, y, next)
  BY <1>1, FilledLinked
<1>7. /\ Cardinality(Reused(acc)) \in Nat
      /\ Cardinality(Reused(next)) = Cardinality(Reused(acc)) + IF found THEN 1 ELSE 0
  <2>1. ReusedInTime(next, Len(acc) + 1) <=> found
    BY <1>1, FoundIfReused
  <2> QED
    BY <1>2, <2>1, ReusedGrows
<1> HIDE DEF C, D, once, next, found
<1>8. /\ h + once.hit = Cardinality(Reused(next))
      /\ h + once.hit + m + once.miss = Len(next)
      /\ once.miss \in Nat
  <2> DEFINE i  == st.hit
             j  == st.miss
             k  == Cardinality(Reused(acc))
             n  == Len(acc)
             i2 == once.hit
             j2 == once.miss
             k2 == Cardinality(Reused(next))
             n2 == Len(next)
  <2>1. i \in Nat /\ j \in Nat /\ h + i = k /\ h + i + m + j = n
    BY <1>1
  <2>2. k \in Nat /\ n \in Nat /\ n2 = n + 1
    BY <1>2, <1>7
  <2>3. \/ i2 = i + 1 /\ j2 = j /\ k2 = k + 1
        \/ i2 = i /\ j2 = j + 1 /\ k2 = k
    BY <1>1, <1>4, <1>7
  <2> HIDE DEF i, j, k, n, i2, j2, k2, n2
  <2>4. h + i2 = k2 /\ h + i2 + m + j2 = n2 /\ j2 \in Nat
    BY <2>1, <2>2, <2>3
  <2> QED
    BY <2>4 DEF i2, j2, k2, n2
<1>9. Keeps(once, h, m, y, next)
  BY <1>1, <1>2, <1>3, <1>5, <1>6, <1>8 DEF Keeps
<1> QED
  BY <1>2, <1>3, <1>5, <1>9 DEF once, next

(* The accesses of one access, and the list with them.                     *)
With(acc, a, times) == IF times = 1 THEN Append(acc, a) ELSE Append(Append(acc, a), a)

LEMMA UpdatedKeeps ==
    ASSUME NEW acc \in AccessList, NEW y \in Sets, NEW tag \in Tags, NEW h \in Nat, NEW m \in Nat,
           NEW C, Good(C, curTimeStamp), Linked(C, y, acc), curTimeStamp = Len(acc),
           h = Cardinality(Reused(acc)), h + m = Len(acc), NEW times \in {1, 2}
    PROVE  /\ With(acc, AccessTo(y, tag), times) \in AccessList
           /\ Keeps(Updated(C, tag, times), h, m, y, With(acc, AccessTo(y, tag), times))
<1> DEFINE once == OnceOf(C, tag)
           next == Append(acc, AccessTo(y, tag))
<1>1. Updated(C, tag, times) = IF times = 1 THEN once ELSE LookUp(once, tag)
  BY FirstLookUp
<1>2. Keeps(StartOf(C), h, m, y, acc) /\ StartOf(C).hit = 0
  <2>1. h + 0 = h /\ h + 0 + m + 0 = h + m /\ 0 \in Nat
    OBVIOUS
  <2>2. /\ IsAccess(StartOf(C)) /\ StartOf(C).set = C /\ StartOf(C).clock = curTimeStamp
        /\ StartOf(C).hit = 0 /\ StartOf(C).miss = 0
    BY DEF StartOf, IsAccess
  <2> QED
    BY <2>1, <2>2 DEF Keeps
<1>3. /\ next \in AccessList /\ Keeps(once, h, m, y, next)
      /\ Matching(once.set, tag) # {}
  BY <1>2, LookUpKeeps DEF OnceOf
<1> HIDE DEF once, next
<1>4. /\ Append(next, AccessTo(y, tag)) \in AccessList
      /\ Keeps(LookUp(once, tag), h, m, y, Append(next, AccessTo(y, tag)))
  BY <1>3, LookUpKeeps
<1> QED
  BY <1>1, <1>3, <1>4 DEF With, next

-----------------------------------------------------------------------------
(* Accesses, of the trace r: the table its recursion fills, line by line.  *)
Piece(line) ==
    LET a == AccessTo(matchSetAddr(line.addr), matchTag(line.addr))
    IN  CASE line.op \in {"L", "S"} -> <<a>>
          [] line.op = "M" -> <<a, a>>
          [] OTHER -> << >>

IsTable(f, r) ==
    f = [n \in 0 .. Len(r) |-> IF n = 0 THEN << >> ELSE f[n - 1] \o Piece(r[n])]

Table(r)      == CHOOSE f : IsTable(f, r)
AccessesOf(r) == Table(r)[Len(r)]

LEMMA AccessesIs == Accesses = AccessesOf(read) /\ Accesses' = AccessesOf(read')
BY Zenon DEF Accesses, AccessesOf, Table, IsTable, Piece, AccessTo

LEMMA TablesAgree ==
    ASSUME NEW r \in Seq(TraceLines), NEW line \in TraceLines,
           NEW f, IsTable(f, r), NEW g, IsTable(g, Append(r, line))
    PROVE  /\ \A n \in 0 .. Len(r) : f[n] = g[n]
           /\ g[Len(r) + 1] = f[Len(r)] \o Piece(line)
<1> DEFINE len == Len(r)
           q == Append(r, line)
           wrong == {n \in 0 .. len : f[n] # g[n]}
<1>1. /\ len \in Nat /\ Len(q) = len + 1 /\ q[len + 1] = line
      /\ \A n \in 1 .. len : q[n] = r[n]
  BY AppendIs
<1>2. f = [n \in 0 .. len |-> IF n = 0 THEN << >> ELSE f[n - 1] \o Piece(r[n])]
  BY DEF IsTable
<1>3. g = [n \in 0 .. len + 1 |-> IF n = 0 THEN << >> ELSE g[n - 1] \o Piece(q[n])]
  BY <1>1 DEF IsTable
<1> HIDE DEF len, q
<1>4. f[0] = << >> /\ \A n \in 1 .. len : f[n] = f[n - 1] \o Piece(r[n])
  <2>1. 0 \in 0 .. len /\ \A n \in 1 .. len : n \in 0 .. len /\ n # 0
    BY <1>1
  <2> QED
    BY <1>2, <2>1, Zenon
<1>5. g[0] = << >> /\ \A n \in 1 .. len + 1 : g[n] = g[n - 1] \o Piece(q[n])
  <2>1. 0 \in 0 .. len + 1 /\ \A n \in 1 .. len + 1 : n \in 0 .. len + 1 /\ n # 0
    BY <1>1
  <2> QED
    BY <1>3, <2>1, Zenon
<1>6. wrong = {}
  <2> SUFFICES ASSUME wrong # {} PROVE FALSE
    OBVIOUS
  <2>1. wrong \in SUBSET Nat
    BY <1>1
  <2> DEFINE n == FirstOf(wrong)
  <2>2. n \in wrong /\ \A j \in wrong : n <= j
    BY <2>1, FirstIs
  <2> HIDE DEF n
  <2>3. n \in 1 .. len /\ n \in 1 .. len + 1 /\ n - 1 \in 0 .. len /\ n - 1 < n
    BY <1>1, <1>4, <1>5, <2>2
  <2>4. f[n - 1] = g[n - 1]
    BY <2>2, <2>3
  <2>5. f[n] = g[n]
    BY <1>1, <1>4, <1>5, <2>3, <2>4
  <2> QED
    BY <2>2, <2>5
<1>7. g[len + 1] = g[len] \o Piece(line)
  <2>1. len + 1 \in 1 .. len + 1 /\ (len + 1) - 1 = len
    BY <1>1
  <2> QED
    BY <1>1, <1>5, <2>1
<1>8. len \in 0 .. len
  BY <1>1
<1> QED
  BY <1>6, <1>7, <1>8 DEF len

(* A line more. *)
LEMMA TableGrows ==
    ASSUME NEW r \in Seq(TraceLines), NEW line \in TraceLines, IsTable(Table(r), r)
    PROVE  /\ IsTable(Table(Append(r, line)), Append(r, line))
           /\ AccessesOf(Append(r, line)) = AccessesOf(r) \o Piece(line)
<1> DEFINE len == Len(r)
           q == Append(r, line)
           f == Table(r)
           g == [n \in 0 .. len + 1 |-> IF n <= len THEN f[n] ELSE f[len] \o Piece(line)]
<1>1. /\ len \in Nat /\ Len(q) = len + 1 /\ q[len + 1] = line
      /\ \A n \in 1 .. len : q[n] = r[n]
  BY AppendIs
<1>2. f = [n \in 0 .. len |-> IF n = 0 THEN << >> ELSE f[n - 1] \o Piece(r[n])]
  BY DEF IsTable
<1> HIDE DEF len, q, f
<1>3. ASSUME NEW n \in 0 .. len + 1
      PROVE  g[n] = IF n = 0 THEN << >> ELSE g[n - 1] \o Piece(q[n])
  <2>1. CASE n = 0
    <3>1. 0 \in 0 .. len /\ 0 <= len
      BY <1>1
    <3> QED
      BY <1>2, <2>1, <3>1
  <2>2. CASE n \in 1 .. len
    <3>1. /\ n \in 0 .. len /\ n # 0 /\ n <= len
          /\ n - 1 \in 0 .. len + 1 /\ n - 1 <= len
      BY <1>1, <2>2
    <3>2. g[n] = f[n] /\ g[n - 1] = f[n - 1]
      BY <3>1
    <3>3. f[n] = f[n - 1] \o Piece(r[n])
      BY <1>2, <3>1, Zenon
    <3> QED
      BY <1>1, <2>2, <3>1, <3>2, <3>3
  <2>3. CASE n = len + 1
    <3>1. n # 0 /\ n - 1 = len /\ len \in 0 .. len + 1 /\ len <= len /\ ~ (n <= len)
      BY <1>1, <2>3
    <3>2. g[n] = f[len] \o Piece(line) /\ g[n - 1] = f[len]
      BY <3>1
    <3> QED
      BY <1>1, <2>3, <3>1, <3>2
  <2> QED
    BY <1>1, <2>1, <2>2, <2>3
<1>4. g = [n \in 0 .. len + 1 |-> g[n]]
  OBVIOUS
<1> HIDE DEF g
<1>5. g = [n \in 0 .. len + 1 |-> IF n = 0 THEN << >> ELSE g[n - 1] \o Piece(q[n])]
  BY <1>3, <1>4, Zenon
<1>6. IsTable(g, q)
  BY <1>1, <1>5 DEF IsTable
<1>7. IsTable(Table(q), q)
  BY <1>6 DEF Table
<1>8. IsTable(f, r)
  BY DEF f
<1>9. Table(q)[len + 1] = f[len] \o Piece(line)
  BY <1>7, <1>8, TablesAgree DEF len, q
<1> QED
  BY <1>1, <1>7, <1>9 DEF AccessesOf, len, q, f

LEMMA TableOfNone ==
    IsTable(Table(<< >>), << >>) /\ AccessesOf(<< >>) = << >>
<1> DEFINE g == [n \in 0 .. 0 |-> << >>]
<1>1. Len(<< >>) = 0
  OBVIOUS
<1>2. \A n \in 0 .. 0 : n = 0
  OBVIOUS
<1>3. IsTable(g, << >>)
  <2>1. g = [n \in 0 .. 0 |-> IF n = 0 THEN << >> ELSE g[n - 1] \o Piece(<< >>[n])]
    BY <1>2
  <2> QED
    BY <1>1, <2>1 DEF IsTable
<1> HIDE DEF g
<1>4. IsTable(Table(<< >>), << >>)
  BY <1>3 DEF Table
<1>5. Table(<< >>)[0] = << >>
  <2>1. Table(<< >>) = [n \in 0 .. 0 |->
            IF n = 0 THEN << >> ELSE Table(<< >>)[n - 1] \o Piece(<< >>[n])]
    BY <1>1, <1>4 DEF IsTable
  <2>2. 0 \in 0 .. 0
    OBVIOUS
  <2> QED
    BY <2>1, <2>2, Zenon
<1> QED
  BY <1>1, <1>4, <1>5 DEF AccessesOf

-----------------------------------------------------------------------------
(* The invariant of the counts: the lines, the clock and the counts are    *)
(* those of the accesses so far.                                           *)
Counts(C, clock, h, m, acc) ==
    /\ acc \in AccessList
    /\ clock = Len(acc)
    /\ \A y \in Sets : Linked(C[y], y, acc)
    /\ h \in Nat /\ h = Cardinality(Reused(acc))
    /\ m \in Nat /\ h + m = Len(acc)

CountInv ==
    size = NoTest =>
        /\ IsTable(Table(read), read)
        /\ Counts(cache, curTimeStamp, hit, miss, AccessesOf(read))

(* Every address is in one of the sets. *)
LEMMA SetOfAddress ==
    ASSUME NEW line \in TraceLines
    PROVE  matchSetAddr(line.addr) \in Sets /\ matchTag(line.addr) \in Tags
<1> DEFINE k == 2 ^ s
           j == 2 ^ b
           a == line.addr
<1>1. k \in Nat /\ k > 0 /\ j \in Nat /\ j > 0 /\ a \in Nat
  BY PowersAssumption, AddressAssumption
<1>2. matchSetAddr(a) = (a \div j) % k /\ Sets = 0 .. k - 1
  BY DEF matchSetAddr, Sets
<1> HIDE DEF k, j, a
<1>3. a \div j \in Nat
  BY <1>1
<1>4. (a \div j) % k \in 0 .. k - 1
  BY <1>1, <1>3
<1> QED
  BY <1>2, <1>4 DEF Tags, a

LEMMA PieceIs ==
    ASSUME NEW acc \in AccessList, NEW line \in TraceLines
    PROVE  acc \o Piece(line) =
               IF line.op \in {"L", "M", "S"}
               THEN With(acc, AccessTo(matchSetAddr(line.addr), matchTag(line.addr)), Times(line.op))
               ELSE acc
<1> DEFINE a == AccessTo(matchSetAddr(line.addr), matchTag(line.addr))
           T == [set : Sets, tag : Tags]
<1>1. a \in T /\ acc \in Seq(T)
  BY SetOfAddress DEF AccessTo, AccessList
<1>2. Piece(line) = CASE line.op \in {"L", "S"} -> <<a>>
                      [] line.op = "M" -> <<a, a>>
                      [] OTHER -> << >>
  BY DEF Piece
<1> HIDE DEF a, T
<1>3. acc \o <<a>> = Append(acc, a)
  BY <1>1
<1>4. acc \o <<a, a>> = Append(Append(acc, a), a)
  BY <1>1
<1>5. acc \o << >> = acc
  BY <1>1
<1>6. CASE line.op \in {"L", "S"}
  BY <1>2, <1>3, <1>6 DEF With, Times, a
<1>7. CASE line.op = "M"
  BY <1>2, <1>4, <1>7 DEF With, Times, a
<1>8. CASE line.op \notin {"L", "M", "S"}
  BY <1>2, <1>5, <1>8
<1> QED
  BY <1>6, <1>7, <1>8

LEMMA WithOthers ==
    ASSUME NEW C, NEW clock, Good(C, clock), NEW y, NEW acc \in AccessList, Linked(C, y, acc),
           NEW a \in [set : Sets, tag : Tags], a.set # y, NEW times
    PROVE  Linked(C, y, With(acc, a, times))
<1>1. Append(acc, a) \in AccessList /\ Linked(C, y, Append(acc, a))
  BY OthersLinked, AppendIs DEF AccessList
<1>2. Linked(C, y, Append(Append(acc, a), a))
  BY <1>1, OthersLinked
<1> QED
  BY <1>1, <1>2 DEF With

LEMMA AccessCounts ==
    ASSUME NEW acc, Counts(cache, curTimeStamp, hit, miss, acc),
           cache \in [Sets -> SetStates],
           \A y \in Sets : Good(cache[y], curTimeStamp),
           NEW line \in TraceLines, accessCache(line.op, line.addr)
    PROVE  Counts(cache', curTimeStamp', hit', miss', acc \o Piece(line))
<1> DEFINE used == matchSetAddr(line.addr)
           tag == matchTag(line.addr)
           times == Times(line.op)
           st == Updated(cache[used], tag, times)
           next == With(acc, AccessTo(used, tag), times)
<1>1. /\ line.op \in {"L", "M", "S"}
      /\ cache' = [cache EXCEPT ![used] = st.set]
      /\ curTimeStamp' = st.clock
      /\ hit' = hit + st.hit /\ miss' = miss + st.miss
  BY DEF accessCache
<1>2. times \in {1, 2} /\ tag \in Tags /\ used \in Sets
  BY SetOfAddress DEF Times
<1>3. /\ acc \in AccessList
      /\ curTimeStamp = Len(acc)
      /\ \A y \in Sets : Linked(cache[y], y, acc)
      /\ hit \in Nat /\ hit = Cardinality(Reused(acc))
      /\ miss \in Nat /\ hit + miss = Len(acc)
  BY DEF Counts
<1>4. acc \o Piece(line) = next
  BY <1>1, <1>3, PieceIs
<1>5. AccessTo(used, tag) \in [set : Sets, tag : Tags] /\ AccessTo(used, tag).set = used
  BY <1>2 DEF AccessTo
<1> HIDE DEF used, tag, times
<1>6. next \in AccessList /\ Keeps(st, hit, miss, used, next)
  BY <1>2, <1>3, UpdatedKeeps
<1>7. \A y \in Sets : y # used => Linked(cache[y], y, next)
  BY <1>3, <1>5, WithOthers
<1> HIDE DEF st, next
<1>8. /\ st.hit \in Nat /\ st.miss \in Nat
      /\ st.clock = Len(next) /\ Linked(st.set, used, next)
      /\ hit + st.hit = Cardinality(Reused(next))
      /\ hit + st.hit + miss + st.miss = Len(next)
  BY <1>6 DEF Keeps, IsAccess
<1>9. \A y \in Sets : Linked(cache'[y], y, next)
  <2> TAKE y \in Sets
  <2>1. CASE y = used
    BY <1>1, <1>8, <2>1
  <2>2. CASE y # used
    <3>1. cache'[y] = cache[y]
      BY <1>1, <2>2
    <3> QED
      BY <1>7, <2>2, <3>1
  <2> QED
    BY <2>1, <2>2
<1>10. /\ hit' \in Nat /\ hit' = Cardinality(Reused(next))
       /\ miss' \in Nat /\ hit' + miss' = Len(next)
  <2> DEFINE i == st.hit
             j == st.miss
             n == Len(next)
             c == Cardinality(Reused(next))
  <2>1. /\ i \in Nat /\ j \in Nat /\ hit + i = c /\ hit + i + miss + j = n
        /\ hit' = hit + i /\ miss' = miss + j
    BY <1>1, <1>8
  <2> HIDE DEF i, j, n, c
  <2>2. hit' \in Nat /\ hit' = c /\ miss' \in Nat /\ hit' + miss' = n
    BY <1>3, <2>1
  <2> QED
    BY <2>2 DEF n, c
<1>11. curTimeStamp' = Len(next)
  BY <1>1, <1>8
<1> QED
  BY <1>4, <1>6, <1>9, <1>10, <1>11 DEF Counts

LEMMA CountInit == TestInit => CountInv
<1> SUFFICES ASSUME TestInit, size = NoTest PROVE CountInv
  BY DEF CountInv
<1>1. size \notin Sizes
  BY TestSizesAssumption DEF NoTest
<1>2. cache = EmptyCache /\ curTimeStamp = 0 /\ read = << >> /\ hit = 0 /\ miss = 0
  BY <1>1 DEF TestInit, Init
<1>3. << >> \in AccessList /\ Len(<< >>) = 0 /\ DOMAIN << >> = {}
  BY DEF AccessList
<1>4. Reused(<< >>) = {}
  BY <1>3 DEF Reused
<1>5. Cardinality({}) = 0
  BY FS_EmptySet
<1>6. ASSUME NEW y \in Sets
      PROVE  Linked(EmptyCache[y], y, << >>)
  <2>1. EmptyCache[y] = [i \in Lines |-> FreeLine] /\ FreeLine.valid = FALSE
    BY DEF EmptyCache, FreeLine
  <2>2. InUse(EmptyCache[y]) = {}
    BY <2>1 DEF InUse
  <2> QED
    BY <1>3, <2>2 DEF Linked
<1>7. Counts(cache, curTimeStamp, hit, miss, << >>)
  <2>1. 0 \in Nat /\ 0 + 0 = 0
    OBVIOUS
  <2> QED
    BY <1>2, <1>3, <1>4, <1>5, <1>6, <2>1 DEF Counts
<1> QED
  BY <1>2, <1>7, TableOfNone DEF CountInv

LEMMA CountStep ==
    SimInv /\ CountInv /\ [TestNext]_<<csimVars, testVars>> => CountInv'
<1> SUFFICES ASSUME SimInv, CountInv, [TestNext]_<<csimVars, testVars>>
             PROVE  CountInv'
  OBVIOUS
<1>1. CASE UNCHANGED <<csimVars, testVars>>
  BY <1>1 DEF CountInv, csimVars, testVars, NoTest
<1>2. CASE size # NoTest /\ TestNext
  <2>1. size' = size
    BY <1>2 DEF TestNext, csim, tracegen, eval_perf, sigalrm_handler
  <2> QED
    BY <1>2, <2>1 DEF CountInv, NoTest
<1>3. CASE size = NoTest /\ TestNext
  <2>1. /\ pc = "csim"
        /\ cache \in [Sets -> SetStates]
        /\ read \in Seq(TraceLines)
        /\ \A y \in Sets : Good(cache[y], curTimeStamp)
        /\ IsTable(Table(read), read)
        /\ Counts(cache, curTimeStamp, hit, miss, AccessesOf(read))
    BY <1>3 DEF SimInv, CountInv
  <2>2. csim
    BY <1>3, <2>1 DEF TestNext, tracegen, eval_perf, sigalrm_handler
  <2>3. PICK line \in TraceLines : ReadLine(line)
    BY <2>2 DEF csim, Next
  <2>4. read' = Append(read, line)
    BY <2>3 DEF ReadLine
  <2>5. /\ IsTable(Table(read'), read')
        /\ AccessesOf(read') = AccessesOf(read) \o Piece(line)
    BY <2>1, <2>4, TableGrows
  <2>6. Counts(cache', curTimeStamp', hit', miss', AccessesOf(read) \o Piece(line))
    <3>1. CASE accessCache(line.op, line.addr)
      BY <2>1, <3>1, AccessCounts
    <3>2. CASE Instruction(line.op) \/ InvalidOp(line.op)
      <4>1. /\ line.op \notin {"L", "M", "S"} /\ cache' = cache /\ curTimeStamp' = curTimeStamp
            /\ hit' = hit /\ miss' = miss
        BY <3>2 DEF Instruction, InvalidOp
      <4>2. AccessesOf(read) \o Piece(line) = AccessesOf(read)
        <5>1. AccessesOf(read) \in AccessList
          BY <2>1 DEF Counts
        <5> QED
          BY <4>1, <5>1, PieceIs
      <4> QED
        BY <2>1, <4>1, <4>2
    <3> QED
      BY <2>3, <3>1, <3>2 DEF ReadLine
  <2> QED
    BY <2>5, <2>6 DEF CountInv
<1> QED
  BY <1>1, <1>2, <1>3

(* printSummary: whatever the geometry and the trace, the hits that csim   *)
(* counts are the accesses whose block was used again before E others of   *)
(* its set were, the misses are all the rest, and a modify counts as two.  *)
THEOREM CountsAlwaysRight == TestSpec => []CountsRight
<1>1. TestInit => SimInv /\ CountInv
  BY SimInit, CountInit
<1>2. SimInv /\ CountInv /\ [TestNext]_<<csimVars, testVars>> => SimInv' /\ CountInv'
  BY SimStep, CountStep
<1>3. CountInv => CountsRight
  <2> SUFFICES ASSUME CountInv, size = NoTest PROVE CountsAreReuseDistances
    BY DEF CountsRight
  <2>1. Counts(cache, curTimeStamp, hit, miss, Accesses)
    BY AccessesIs DEF CountInv
  <2> QED
    BY <2>1 DEF Counts, Reused, CountsAreReuseDistances
<1> QED
  BY <1>1, <1>2, <1>3, PTL DEF TestSpec
=============================================================================
