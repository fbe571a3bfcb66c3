----------------------------- MODULE SbufProofs -----------------------------
(***************************************************************************)
(* Proofs about the proxy's connection buffer, for every number of         *)
(* threads and slots, and as many connections as its indices can count.    *)
(***************************************************************************)
EXTENDS Sbuf, FiniteSetTheorems, SequenceTheorems, TLAPS

-----------------------------------------------------------------------------
(* The array.                                                              *)

(* The remainder of an index that did not wrap is a slot.                  *)
LEMMA IndexIsSlot ==
    ASSUME NEW i \in Nat
    PROVE  IndexOf(i) = i % Size /\ IndexOf(i) \in 0 .. Size - 1
  BY SizeAssumption DEF IndexOf

(* Two indices less than Size apart are different slots.                   *)
LEMMA IndicesApart ==
    ASSUME NEW i \in Nat, NEW j \in Nat, i < j, j - i < Size
    PROVE  IndexOf(i) # IndexOf(j)
<1>0. Size \in Nat /\ Size > 0
  BY SizeAssumption
<1>1. IndexOf(i) = i % Size /\ IndexOf(j) = j % Size
  BY IndexIsSlot
<1> SUFFICES ASSUME i % Size = j % Size
             PROVE  FALSE
  BY <1>1
<1> DEFINE q == i \div Size
           r == j \div Size
           m == i % Size
<1>2. /\ q \in Int /\ r \in Int /\ m \in Int
      /\ i = Size * q + m
      /\ j = Size * r + m
  BY <1>0
<1> HIDE DEF q, r, m
<1>3. j - i = Size * (r - q)
  BY <1>0, <1>2
<1>4. PICK d \in Int : d = r - q /\ j - i = Size * d
  BY <1>2, <1>3
<1>5. CASE d >= 1
  <2>1. Size * d >= Size
    BY <1>0, <1>5
  <2> QED
    BY <2>1, <1>0, <1>4
<1>6. CASE d <= 0
  <2>1. Size * d <= 0
    BY <1>0, <1>6
  <2> QED
    BY <2>1, <1>0, <1>4
<1> QED
  BY <1>4, <1>5, <1>6

-----------------------------------------------------------------------------
(* Threads at a place of the code.                                         *)

Labels == InsertLabels \cup RemoveLabels

LEMMA AtIsFinite ==
    ASSUME NEW L
    PROVE  IsFiniteSet(At(L)) /\ Cardinality(At(L)) \in Nat
<1>1. IsFiniteSet(Threads)
  BY ThreadAssumption, FS_Union DEF Threads
<1>2. At(L) \in SUBSET Threads
  BY DEF At
<1> QED
  BY <1>1, <1>2, FS_Subset, FS_CardinalityType

LEMMA AtSomeone ==
    ASSUME NEW L, NEW t \in At(L)
    PROVE  Cardinality(At(L)) >= 1
  BY AtIsFinite, FS_EmptySet

(* One thread's step counts it out at the place it leaves and in at the    *)
(* place it reaches.                                                       *)
LEMMA StepCounts ==
    ASSUME pc \in [Threads -> Labels], NEW t \in Threads, NEW from, NEW to,
           Step(t, from, to), NEW L
    PROVE  Cardinality(At(L)') = Cardinality(At(L))
               + (IF to \in L THEN 1 ELSE 0) - (IF from \in L THEN 1 ELSE 0)
<1>1. pc[t] = from /\ \A u \in Threads : pc'[u] = IF u = t THEN to ELSE pc[u]
  BY DEF Step
<1>2. IsFiniteSet(At(L)) /\ Cardinality(At(L)) \in Nat
  BY AtIsFinite
<1>3. t \in At(L) <=> from \in L
  BY <1>1 DEF At
<1>4. CASE to \in L /\ from \notin L
  <2>1. At(L)' = At(L) \cup {t}
    BY <1>1, <1>4 DEF At
  <2> QED
    BY <2>1, <1>2, <1>3, <1>4, FS_AddElement
<1>5. CASE to \notin L /\ from \in L
  <2>1. At(L)' = At(L) \ {t}
    BY <1>1, <1>5 DEF At
  <2>2. Cardinality(At(L) \ {t}) = Cardinality(At(L)) - 1
    BY <1>2, <1>3, <1>5, FS_RemoveElement
  <2> QED
    BY <2>1, <2>2, <1>2, <1>5
<1>6. CASE (to \in L) = (from \in L)
  <2>1. At(L)' = At(L)
    BY <1>1, <1>6 DEF At
  <2> QED
    BY <2>1, <1>2, <1>6
<1> QED
  BY <1>4, <1>5, <1>6

-----------------------------------------------------------------------------
(* The inductive invariant.                                                *)

(* The indices do not wrap: fewer connections than an int can count.       *)
IndicesSuffice == IsFiniteSet(Conns) /\ Cardinality(Conns) <= IntMax

Holding == {"P_slots", "insert_P_mutex", "insert", "remove_V_mutex", "V_slots", "doit"}
InMutex == {"insert", "insert_V_mutex", "remove", "remove_V_mutex"}

Claiming   == {"insert_P_mutex", "insert"}         \* took a slot that is not filled yet
Freeing    == {"remove_V_mutex", "V_slots"}       \* emptied a slot that is not given back
Announcing == {"insert_V_mutex", "V_items"}       \* filled a slot that is not announced
Fetching   == {"remove_P_mutex", "remove"}         \* took an item that is still in its slot

TypeInv ==
    /\ buf \in [0 .. Size - 1 -> Conns \cup {None}]
    /\ front \in Nat /\ rear \in Nat
    /\ mutex \in Nat /\ slots \in Nat /\ items \in Nat
    /\ pc \in [Threads -> Labels]
    /\ \A t \in Producers : pc[t] \in InsertLabels
    /\ \A t \in Consumers : pc[t] \in RemoveLabels
    /\ item \in [Threads -> Conns \cup {None}]
    /\ \A t \in Threads : item[t] \in Conns <=> pc[t] \in Holding
    /\ fresh \subseteq Conns /\ served \subseteq Conns

(* What a semaphore does not count is with the threads between a P and the *)
(* V that answers it: a slot is free, claimed, full, or being given back.  *)
Counts ==
    /\ mutex + Cardinality(At(InMutex)) = 1
    /\ slots + Cardinality(At(Claiming)) + (rear - front)
             + Cardinality(At(Freeing)) = Size
    /\ items + Cardinality(At(Announcing))
             + Cardinality(At(Fetching)) = rear - front

Held(c)   == \E t \in Threads : item[t] = c
Queued(c) == \E i \in front + 1 .. rear : buf[IndexOf(i)] = c

(* Nobody holds what another thread holds, no two slots in use hold the    *)
(* same, and a connection is in one of the four places it can be in.       *)
Places ==
    /\ \A t, u \in Threads : item[t] = item[u] /\ item[t] # None => t = u
    /\ \A i \in front + 1 .. rear : buf[IndexOf(i)] \in Conns
    /\ \A i, j \in front + 1 .. rear : buf[IndexOf(i)] = buf[IndexOf(j)] => i = j
    /\ \A c \in Conns :
          \/ c \in fresh /\ ~ Held(c) /\ ~ Queued(c) /\ c \notin served
          \/ c \notin fresh /\ Held(c) /\ ~ Queued(c) /\ c \notin served
          \/ c \notin fresh /\ ~ Held(c) /\ Queued(c) /\ c \notin served
          \/ c \notin fresh /\ ~ Held(c) /\ ~ Queued(c) /\ c \in served

(* rear counts the connections that were ever inserted.                    *)
Inserted == {c \in Conns : c \notin fresh /\ \A t \in Producers : item[t] # c}

RearCounts == rear = Cardinality(Inserted)

SbufInv == TypeInv /\ Counts /\ Places /\ RearCounts

-----------------------------------------------------------------------------
(* What the counts say.                                                    *)

LEMMA CountTypes ==
    ASSUME SbufInv
    PROVE  /\ mutex \in Nat /\ slots \in Nat /\ items \in Nat /\ front \in Nat /\ rear \in Nat
           /\ Size \in Nat
           /\ Cardinality(At(InMutex)) \in Nat
           /\ Cardinality(At(Claiming)) \in Nat /\ Cardinality(At(Freeing)) \in Nat
           /\ Cardinality(At(Announcing)) \in Nat /\ Cardinality(At(Fetching)) \in Nat
  BY AtIsFinite, SizeAssumption DEF SbufInv, TypeInv

LEMMA Bounds ==
    ASSUME SbufInv
    PROVE  /\ mutex \in 0 .. 1 /\ slots \in 0 .. Size /\ items \in 0 .. Size
           /\ rear - front \in 0 .. Size
  BY CountTypes DEF SbufInv, Counts

(* At most as many connections were inserted as the indices can count.     *)
LEMMA InsertedBound ==
    ASSUME IndicesSuffice, SbufInv
    PROVE  /\ IsFiniteSet(Inserted)
           /\ rear <= IntMax
           /\ Inserted # Conns => rear < IntMax
<1>1. Inserted \in SUBSET Conns
  BY DEF Inserted
<1>2. /\ IsFiniteSet(Inserted) /\ Cardinality(Inserted) <= Cardinality(Conns)
      /\ Cardinality(Conns) = Cardinality(Inserted) => Conns = Inserted
  BY <1>1, FS_Subset DEF IndicesSuffice
<1>3. Cardinality(Conns) \in Nat /\ Cardinality(Inserted) \in Nat
  BY <1>2, FS_CardinalityType DEF IndicesSuffice
<1> QED
  BY <1>2, <1>3, IntMaxAssumption DEF IndicesSuffice, SbufInv, RearCounts

(* A producer at the insertion has a slot, and an index that can grow.     *)
LEMMA RoomToInsert ==
    ASSUME IndicesSuffice, SbufInv, NEW t \in Producers, pc[t] = "insert"
    PROVE  /\ item[t] \in Conns /\ item[t] \notin Inserted
           /\ rear - front < Size
           /\ Incr(rear) = rear + 1
<1>1. t \in Threads
  BY DEF Threads
<1>2. item[t] \in Conns /\ item[t] \notin Inserted
  BY <1>1 DEF SbufInv, TypeInv, Holding, Inserted
<1>3. t \in At(Claiming)
  BY <1>1 DEF At, Claiming
<1>4. Cardinality(At(Claiming)) >= 1
  BY <1>3, AtSomeone
<1>6. rear - front < Size
  BY <1>4, CountTypes DEF SbufInv, Counts
<1>7. rear < IntMax
  BY <1>2, InsertedBound
<1> QED
  BY <1>2, <1>6, <1>7, IntMaxAssumption DEF Incr, SbufInv, TypeInv

(* A consumer at the removal has an item to take.                          *)
LEMMA SomethingToRemove ==
    ASSUME IndicesSuffice, SbufInv, NEW t \in Consumers, pc[t] = "remove"
    PROVE  /\ front < rear
           /\ Incr(front) = front + 1
           /\ buf[IndexOf(front + 1)] \in Conns
<1>1. t \in At(Fetching)
  BY DEF At, Threads, Fetching
<1>2. Cardinality(At(Fetching)) >= 1
  BY <1>1, AtSomeone
<1>4. front \in Nat /\ rear \in Nat /\ items \in Nat
  BY DEF SbufInv, TypeInv
<1>5. front < rear
  BY <1>2, CountTypes DEF SbufInv, Counts
<1>6. front < IntMax
  BY <1>4, <1>5, InsertedBound, IntMaxAssumption
<1> QED
  BY <1>4, <1>5, <1>6, IntMaxAssumption DEF Incr, SbufInv, Places

-----------------------------------------------------------------------------
(* The steps.                                                              *)

In(label, L) == IF label \in L THEN 1 ELSE 0

(* A step keeps the counts when it changes a semaphore or an index by what *)
(* its thread's place counts for.                                          *)
LEMMA CountsKept ==
    ASSUME SbufInv, NEW t \in Threads, NEW from, NEW to, Step(t, from, to),
           front' \in Int, rear' \in Int, mutex' \in Int, slots' \in Int, items' \in Int,
           mutex' - mutex = In(from, InMutex) - In(to, InMutex),
           (slots' - slots) + (rear' - rear) - (front' - front)
               = In(from, Claiming) - In(to, Claiming)
                 + In(from, Freeing) - In(to, Freeing),
           (items' - items) - (rear' - rear) + (front' - front)
               = In(from, Announcing) - In(to, Announcing)
                 + In(from, Fetching) - In(to, Fetching)
    PROVE  Counts'
<1>1. ASSUME NEW L
      PROVE  /\ Cardinality(At(L)') = Cardinality(At(L)) + In(to, L) - In(from, L)
             /\ In(to, L) \in Int /\ In(from, L) \in Int
  BY StepCounts DEF SbufInv, TypeInv, In
<1>2. /\ Cardinality(At(InMutex)') = Cardinality(At(InMutex)) + In(to, InMutex) - In(from, InMutex)
      /\ In(to, InMutex) \in Int /\ In(from, InMutex) \in Int
  BY <1>1
<1>3. /\ Cardinality(At(Claiming)') = Cardinality(At(Claiming)) + In(to, Claiming) - In(from, Claiming)
      /\ In(to, Claiming) \in Int /\ In(from, Claiming) \in Int
  BY <1>1
<1>4. /\ Cardinality(At(Freeing)') = Cardinality(At(Freeing)) + In(to, Freeing) - In(from, Freeing)
      /\ In(to, Freeing) \in Int /\ In(from, Freeing) \in Int
  BY <1>1
<1>5. /\ Cardinality(At(Announcing)') = Cardinality(At(Announcing)) + In(to, Announcing) - In(from, Announcing)
      /\ In(to, Announcing) \in Int /\ In(from, Announcing) \in Int
  BY <1>1
<1>6. /\ Cardinality(At(Fetching)') = Cardinality(At(Fetching)) + In(to, Fetching) - In(from, Fetching)
      /\ In(to, Fetching) \in Int /\ In(from, Fetching) \in Int
  BY <1>1
<1>7. Counts
  BY DEF SbufInv
<1> QED
  BY <1>2, <1>3, <1>4, <1>5, <1>6, <1>7, CountTypes DEF Counts

(* A step that goes on in the same function keeps the types of pc.         *)
LEMMA StepTypes ==
    ASSUME SbufInv, NEW t \in Threads, NEW from, NEW to, Step(t, from, to),
           t \in Producers => to \in InsertLabels,
           t \in Consumers => to \in RemoveLabels
    PROVE  /\ pc' \in [Threads -> Labels]
           /\ \A u \in Threads : pc'[u] = IF u = t THEN to ELSE pc[u]
           /\ \A u \in Producers : pc'[u] \in InsertLabels
           /\ \A u \in Consumers : pc'[u] \in RemoveLabels
<1>1. to \in Labels
  BY DEF Threads, Labels
<1>2. pc \in [Threads -> Labels] /\ pc' = [pc EXCEPT ![t] = to]
  BY DEF SbufInv, TypeInv, Step
<1> HIDE DEF Labels
<1>3. \A u \in Threads : pc'[u] = IF u = t THEN to ELSE pc[u]
  BY <1>2
<1>4. /\ \A u \in Producers : u \in Threads /\ pc[u] \in InsertLabels
      /\ \A u \in Consumers : u \in Threads /\ pc[u] \in RemoveLabels
  BY DEF SbufInv, TypeInv, Threads
<1> QED
  BY <1>1, <1>2, <1>3, <1>4

(* A step on a semaphore moves no connection.                              *)
LEMMA NothingMoves ==
    ASSUME SbufInv, UNCHANGED <<array, conns>>
    PROVE  Places' /\ RearCounts'
<1>1. Places'
  BY DEF SbufInv, Places, Held, Queued, array, conns
<1>2. Inserted' = Inserted
  BY DEF Inserted, conns
<1> QED
  BY <1>1, <1>2 DEF SbufInv, RearCounts, array

LEMMA AcceptKeeps ==
    ASSUME SbufInv, NEW t \in Producers, NEW c \in Conns, Accept(t, c)
    PROVE  SbufInv'
<1>1. /\ t \in Threads /\ t \notin Consumers
      /\ pc[t] = "accept" /\ item[t] \notin Conns /\ item[t] = None
  BY ThreadAssumption DEF SbufInv, TypeInv, Accept, Step, Holding, Threads
<1>2. /\ \A u \in Threads : item'[u] = IF u = t THEN c ELSE item[u]
      /\ c \in fresh /\ fresh' = fresh \ {c}
      /\ UNCHANGED <<buf, front, rear, mutex, slots, items, served>>
  BY <1>1 DEF Accept, Hold, SbufInv, TypeInv, sbufVars
<1>3. TypeInv'
  <2>1. Step(t, "accept", "P_slots") /\ "P_slots" \in InsertLabels /\ "P_slots" \in Holding
    BY DEF Accept, InsertLabels, Holding
  <2>2. /\ pc' \in [Threads -> Labels]
        /\ \A u \in Threads : pc'[u] = IF u = t THEN "P_slots" ELSE pc[u]
        /\ \A u \in Producers : pc'[u] \in InsertLabels
        /\ \A u \in Consumers : pc'[u] \in RemoveLabels
    BY <1>1, <2>1, StepTypes
  <2>3. item' \in [Threads -> Conns \cup {None}]
    BY DEF Accept, Hold, SbufInv, TypeInv
  <2> QED
    BY <1>1, <1>2, <2>1, <2>2, <2>3 DEF SbufInv, TypeInv
<1>4. Counts'
  <2>1. Step(t, "accept", "P_slots")
    BY DEF Accept
  <2>2. UNCHANGED <<front, rear, mutex, slots, items>>
    BY <1>2
  <2> QED
    BY <1>1, <2>1, <2>2, CountTypes, CountsKept
    DEF In, InMutex, Claiming, Freeing, Announcing, Fetching
<1>5. Places'
  <2>1. \A u \in Threads : item[u] # c
    BY <1>2 DEF SbufInv, Places, Held
  <2>2. \A d \in Conns : /\ Held(d)' <=> (Held(d) \/ d = c)
                         /\ Queued(d)' <=> Queued(d)
    BY <1>1, <1>2 DEF Held, Queued
  <2> QED
    BY <1>1, <1>2, <2>1, <2>2 DEF SbufInv, Places
<1>6. RearCounts'
  <2>1. Inserted' = Inserted
    BY <1>1, <1>2 DEF Inserted, Threads
  <2> QED
    BY <1>2, <2>1 DEF SbufInv, RearCounts
<1> QED
  BY <1>3, <1>4, <1>5, <1>6 DEF SbufInv

LEMMA SemaphoreKeeps ==
    ASSUME SbufInv, NEW t \in Threads, NEW from, NEW to, Step(t, from, to),
           UNCHANGED <<array, conns>>,
           mutex' \in Nat, slots' \in Nat, items' \in Nat, Counts',
           t \in Producers => to \in InsertLabels,
           t \in Consumers => to \in RemoveLabels,
           from \in Holding <=> to \in Holding
    PROVE  SbufInv'
<1>1. /\ pc' \in [Threads -> Labels]
      /\ \A u \in Threads : pc'[u] = IF u = t THEN to ELSE pc[u]
      /\ \A u \in Producers : pc'[u] \in InsertLabels
      /\ \A u \in Consumers : pc'[u] \in RemoveLabels
  BY StepTypes
<1>2. pc[t] = from
  BY DEF Step
<1>3. TypeInv'
  BY <1>1, <1>2 DEF SbufInv, TypeInv, array, conns
<1> QED
  BY <1>3, NothingMoves DEF SbufInv

(* P and V: the semaphore's count moves to the thread's place or back.     *)
LEMMA SemaphoreSteps ==
    ASSUME SbufInv, NEW t \in Threads,
           \/ /\ t \in Producers
              /\ \/ InsertPSlots(t) \/ InsertPMutex(t)
                 \/ InsertVMutex(t) \/ InsertVItems(t)
           \/ /\ t \in Consumers
              /\ \/ RemovePItems(t) \/ RemovePMutex(t)
                 \/ RemoveVMutex(t) \/ RemoveVSlots(t)
    PROVE  SbufInv'
<1>1. /\ UNCHANGED <<array, conns>>
      /\ t \in Producers <=> t \notin Consumers
  BY ThreadAssumption
  DEF Threads, array, InsertPSlots, InsertPMutex, InsertVMutex, InsertVItems,
      RemovePItems, RemovePMutex, RemoveVMutex, RemoveVSlots
<1>2. ASSUME t \in Producers, InsertPSlots(t)
      PROVE  SbufInv'
  <2>1. /\ Step(t, "P_slots", "insert_P_mutex")
        /\ slots > 0 /\ slots' = slots - 1
        /\ UNCHANGED <<front, rear, mutex, items>>
    BY <1>2 DEF InsertPSlots, array, P
  <2>2. /\ "P_slots" \in InsertLabels /\ "insert_P_mutex" \in InsertLabels
        /\ ("P_slots" \in Holding <=> "insert_P_mutex" \in Holding)
    BY DEF InsertLabels, Holding
  <2>3. Counts'
    BY <2>1, CountTypes, CountsKept DEF In, InMutex, Claiming, Freeing, Announcing, Fetching
  <2> QED
    BY <1>1, <1>2, <2>1, <2>2, <2>3, CountTypes, SemaphoreKeeps
<1>3. ASSUME t \in Producers, InsertPMutex(t)
      PROVE  SbufInv'
  <2>1. /\ Step(t, "insert_P_mutex", "insert")
        /\ mutex > 0 /\ mutex' = mutex - 1
        /\ UNCHANGED <<front, rear, slots, items>>
    BY <1>3 DEF InsertPMutex, array, P
  <2>2. /\ "insert_P_mutex" \in InsertLabels /\ "insert" \in InsertLabels
        /\ ("insert_P_mutex" \in Holding <=> "insert" \in Holding)
    BY DEF InsertLabels, Holding
  <2>3. Counts'
    BY <2>1, CountTypes, CountsKept DEF In, InMutex, Claiming, Freeing, Announcing, Fetching
  <2> QED
    BY <1>1, <1>3, <2>1, <2>2, <2>3, CountTypes, SemaphoreKeeps
<1>4. ASSUME t \in Producers, InsertVMutex(t)
      PROVE  SbufInv'
  <2>1. /\ Step(t, "insert_V_mutex", "V_items")
        /\ mutex' = mutex + 1
        /\ UNCHANGED <<front, rear, slots, items>>
    BY <1>4 DEF InsertVMutex, array, V
  <2>2. /\ "insert_V_mutex" \in InsertLabels /\ "V_items" \in InsertLabels
        /\ ("insert_V_mutex" \in Holding <=> "V_items" \in Holding)
    BY DEF InsertLabels, Holding
  <2>3. Counts'
    BY <2>1, CountTypes, CountsKept DEF In, InMutex, Claiming, Freeing, Announcing, Fetching
  <2> QED
    BY <1>1, <1>4, <2>1, <2>2, <2>3, CountTypes, SemaphoreKeeps
<1>5. ASSUME t \in Producers, InsertVItems(t)
      PROVE  SbufInv'
  <2>1. /\ Step(t, "V_items", "accept")
        /\ items' = items + 1
        /\ UNCHANGED <<front, rear, mutex, slots>>
    BY <1>5 DEF InsertVItems, array, V
  <2>2. /\ "V_items" \in InsertLabels /\ "accept" \in InsertLabels
        /\ ("V_items" \in Holding <=> "accept" \in Holding)
    BY DEF InsertLabels, Holding
  <2>3. Counts'
    BY <2>1, CountTypes, CountsKept DEF In, InMutex, Claiming, Freeing, Announcing, Fetching
  <2> QED
    BY <1>1, <1>5, <2>1, <2>2, <2>3, CountTypes, SemaphoreKeeps
<1>6. ASSUME t \in Consumers, RemovePItems(t)
      PROVE  SbufInv'
  <2>1. /\ Step(t, "P_items", "remove_P_mutex")
        /\ items > 0 /\ items' = items - 1
        /\ UNCHANGED <<front, rear, mutex, slots>>
    BY <1>6 DEF RemovePItems, array, P
  <2>2. /\ "P_items" \in RemoveLabels /\ "remove_P_mutex" \in RemoveLabels
        /\ ("P_items" \in Holding <=> "remove_P_mutex" \in Holding)
    BY DEF RemoveLabels, Holding
  <2>3. Counts'
    BY <2>1, CountTypes, CountsKept DEF In, InMutex, Claiming, Freeing, Announcing, Fetching
  <2> QED
    BY <1>1, <1>6, <2>1, <2>2, <2>3, CountTypes, SemaphoreKeeps
<1>7. ASSUME t \in Consumers, RemovePMutex(t)
      PROVE  SbufInv'
  <2>1. /\ Step(t, "remove_P_mutex", "remove")
        /\ mutex > 0 /\ mutex' = mutex - 1
        /\ UNCHANGED <<front, rear, slots, items>>
    BY <1>7 DEF RemovePMutex, array, P
  <2>2. /\ "remove_P_mutex" \in RemoveLabels /\ "remove" \in RemoveLabels
        /\ ("remove_P_mutex" \in Holding <=> "remove" \in Holding)
    BY DEF RemoveLabels, Holding
  <2>3. Counts'
    BY <2>1, CountTypes, CountsKept DEF In, InMutex, Claiming, Freeing, Announcing, Fetching
  <2> QED
    BY <1>1, <1>7, <2>1, <2>2, <2>3, CountTypes, SemaphoreKeeps
<1>8. ASSUME t \in Consumers, RemoveVMutex(t)
      PROVE  SbufInv'
  <2>1. /\ Step(t, "remove_V_mutex", "V_slots")
        /\ mutex' = mutex + 1
        /\ UNCHANGED <<front, rear, slots, items>>
    BY <1>8 DEF RemoveVMutex, array, V
  <2>2. /\ "remove_V_mutex" \in RemoveLabels /\ "V_slots" \in RemoveLabels
        /\ ("remove_V_mutex" \in Holding <=> "V_slots" \in Holding)
    BY DEF RemoveLabels, Holding
  <2>3. Counts'
    BY <2>1, CountTypes, CountsKept DEF In, InMutex, Claiming, Freeing, Announcing, Fetching
  <2> QED
    BY <1>1, <1>8, <2>1, <2>2, <2>3, CountTypes, SemaphoreKeeps
<1>9. ASSUME t \in Consumers, RemoveVSlots(t)
      PROVE  SbufInv'
  <2>1. /\ Step(t, "V_slots", "doit")
        /\ slots' = slots + 1
        /\ UNCHANGED <<front, rear, mutex, items>>
    BY <1>9 DEF RemoveVSlots, array, V
  <2>2. /\ "V_slots" \in RemoveLabels /\ "doit" \in RemoveLabels
        /\ ("V_slots" \in Holding <=> "doit" \in Holding)
    BY DEF RemoveLabels, Holding
  <2>3. Counts'
    BY <2>1, CountTypes, CountsKept DEF In, InMutex, Claiming, Freeing, Announcing, Fetching
  <2> QED
    BY <1>1, <1>9, <2>1, <2>2, <2>3, CountTypes, SemaphoreKeeps
<1> QED
  BY <1>2, <1>3, <1>4, <1>5, <1>6, <1>7, <1>8, <1>9

LEMMA InsertItemKeeps ==
    ASSUME IndicesSuffice, SbufInv, NEW t \in Producers, InsertItem(t)
    PROVE  SbufInv'
<1> DEFINE c == item[t]
<1>1. t \in Threads /\ t \notin Consumers /\ pc[t] = "insert"
  BY ThreadAssumption DEF InsertItem, Step, Threads
<1>2. /\ c \in Conns /\ c \notin Inserted /\ c # None
      /\ rear - front < Size /\ rear' = rear + 1
  BY <1>1, RoomToInsert, NoneAssumption DEF InsertItem
<1>3. /\ \A u \in Threads : item'[u] = IF u = t THEN None ELSE item[u]
      /\ UNCHANGED <<front, mutex, slots, items, fresh, served>>
  BY <1>1 DEF InsertItem, Hold, SbufInv, TypeInv
<1>4. \A i \in front + 1 .. rear + 1 : buf'[IndexOf(i)] = IF i = rear + 1 THEN c ELSE buf[IndexOf(i)]
  <2>1. front \in Nat /\ rear \in Nat /\ buf \in [0 .. Size - 1 -> Conns \cup {None}]
    BY DEF SbufInv, TypeInv
  <2>2. buf' = [buf EXCEPT ![IndexOf(rear + 1)] = c]
    BY <1>2 DEF InsertItem
  <2> SUFFICES ASSUME NEW i \in front + 1 .. rear + 1
               PROVE  buf'[IndexOf(i)] = IF i = rear + 1 THEN c ELSE buf[IndexOf(i)]
    OBVIOUS
  <2>3. IndexOf(i) \in 0 .. Size - 1 /\ IndexOf(rear + 1) \in 0 .. Size - 1
    BY <2>1, IndexIsSlot
  <2>4. i # rear + 1 => IndexOf(i) # IndexOf(rear + 1)
    BY <1>2, <2>1, IndicesApart, SizeAssumption
  <2> QED
    BY <2>1, <2>2, <2>3, <2>4
<1>5. TypeInv'
  <2>1. buf' \in [0 .. Size - 1 -> Conns \cup {None}] /\ rear' \in Nat
    <3>1. rear' \in Nat
      BY <1>2, CountTypes
    <3> QED
      BY <1>2, <3>1 DEF InsertItem, SbufInv, TypeInv
  <2>2. Step(t, "insert", "insert_V_mutex") /\ "insert_V_mutex" \in InsertLabels /\ "insert_V_mutex" \notin Holding
    BY DEF InsertItem, InsertLabels, Holding
  <2>3. /\ pc' \in [Threads -> Labels]
        /\ \A u \in Threads : pc'[u] = IF u = t THEN "insert_V_mutex" ELSE pc[u]
        /\ \A u \in Producers : pc'[u] \in InsertLabels
        /\ \A u \in Consumers : pc'[u] \in RemoveLabels
    BY <1>1, <2>2, StepTypes
  <2>4. item' \in [Threads -> Conns \cup {None}]
    BY DEF InsertItem, Hold, SbufInv, TypeInv
  <2> QED
    BY <1>1, <1>3, <2>1, <2>2, <2>3, <2>4, NoneAssumption DEF SbufInv, TypeInv
<1>6. Counts'
  <2>1. Step(t, "insert", "insert_V_mutex")
    BY DEF InsertItem
  <2> QED
    BY <1>1, <1>2, <1>3, <2>1, CountTypes, CountsKept
    DEF In, InMutex, Claiming, Freeing, Announcing, Fetching
<1>7. Places'
  <2>1. front \in Nat /\ rear \in Nat
    BY DEF SbufInv, TypeInv
  <2>2. \A d \in Conns : Held(d)' <=> Held(d) /\ d # c
    BY <1>1, <1>2, <1>3, NoneAssumption DEF SbufInv, Places, Held
  <2>3. \A d \in Conns : Queued(d)' <=> Queued(d) \/ d = c
    <3>1. rear' = rear + 1 /\ front' = front
      BY <1>2, <1>3
    <3> HIDE DEF c
    <3>2. \A d : Queued(d)' <=> \E i \in front + 1 .. rear + 1 : buf'[IndexOf(i)] = d
      BY <3>1 DEF Queued, IndexOf
    <3>3. rear + 1 \in front + 1 .. rear + 1
      BY <2>1, CountTypes, Bounds
    <3> QED
      BY <1>4, <2>1, <3>2, <3>3 DEF Queued
  <2>4. Held(c) /\ ~ Queued(c) /\ c \notin fresh /\ c \notin served
    BY <1>1, <1>2 DEF SbufInv, Places, Held
  <2>5. \A u, v \in Threads : (item[u] = item[v] /\ item[u] # None => u = v)'
    BY <1>3 DEF SbufInv, Places
  <2>6. \A i \in front + 1 .. rear + 1 : buf'[IndexOf(i)] \in Conns
    BY <1>2, <1>4, <2>1 DEF SbufInv, Places
  <2>7. \A i, j \in front + 1 .. rear + 1 : buf'[IndexOf(i)] = buf'[IndexOf(j)] => i = j
    BY <1>4, <2>1, <2>4 DEF SbufInv, Places, Queued
  <2> HIDE DEF c
  <2> QED
    BY <1>2, <1>3, <2>2, <2>3, <2>4, <2>5, <2>6, <2>7 DEF SbufInv, Places
<1>8. RearCounts'
  <2>1. Inserted' = Inserted \cup {c}
    BY <1>1, <1>2, <1>3, NoneAssumption DEF Inserted, SbufInv, Places, Held, Threads
  <2>2. IsFiniteSet(Inserted)
    BY InsertedBound
  <2> QED
    BY <1>2, <2>1, <2>2, FS_AddElement DEF SbufInv, RearCounts
<1> QED
  BY <1>5, <1>6, <1>7, <1>8 DEF SbufInv

LEMMA RemoveItemKeeps ==
    ASSUME IndicesSuffice, SbufInv, NEW t \in Consumers, RemoveItem(t)
    PROVE  SbufInv'
<1> DEFINE c == buf[IndexOf(front + 1)]
<1>1. t \in Threads /\ t \notin Producers /\ pc[t] = "remove" /\ item[t] \notin Conns
  BY ThreadAssumption DEF RemoveItem, Step, Threads, SbufInv, TypeInv, Holding
<1>2. /\ c \in Conns /\ c # None /\ item[t] = None
      /\ front < rear /\ front' = front + 1
  BY <1>1, SomethingToRemove, NoneAssumption DEF RemoveItem, SbufInv, TypeInv
<1>3. /\ \A u \in Threads : item'[u] = IF u = t THEN c ELSE item[u]
      /\ UNCHANGED <<buf, rear, mutex, slots, items, fresh, served>>
  BY <1>1, <1>2 DEF RemoveItem, Hold, SbufInv, TypeInv
<1>4. front \in Nat /\ rear \in Nat
  BY DEF SbufInv, TypeInv
<1>5. TypeInv'
  <2>1. /\ Step(t, "remove", "remove_V_mutex")
        /\ "remove_V_mutex" \in RemoveLabels /\ "remove_V_mutex" \in Holding
    BY DEF RemoveItem, RemoveLabels, Holding
  <2>2. /\ pc' \in [Threads -> Labels]
        /\ \A u \in Threads : pc'[u] = IF u = t THEN "remove_V_mutex" ELSE pc[u]
        /\ \A u \in Producers : pc'[u] \in InsertLabels
        /\ \A u \in Consumers : pc'[u] \in RemoveLabels
    BY <1>1, <2>1, StepTypes
  <2>3. item' \in [Threads -> Conns \cup {None}]
    BY <1>2 DEF RemoveItem, Hold, SbufInv, TypeInv
  <2> HIDE DEF c
  <2> QED
    BY <1>1, <1>2, <1>3, <1>4, <2>1, <2>2, <2>3 DEF SbufInv, TypeInv
<1>6. Counts'
  <2>1. Step(t, "remove", "remove_V_mutex")
    BY DEF RemoveItem
  <2> QED
    BY <1>1, <1>2, <1>3, <2>1, CountTypes, CountsKept
    DEF In, InMutex, Claiming, Freeing, Announcing, Fetching
<1>7. Places'
  <2>1. Queued(c)
    BY <1>2, <1>4 DEF Queued
  <2>2. \A d \in Conns : Queued(d)' <=> Queued(d) /\ d # c
    <3>1. \A d : Queued(d)' <=> \E i \in front + 2 .. rear : buf[IndexOf(i)] = d
      BY <1>2, <1>3, <1>4 DEF Queued, IndexOf
    <3>2. \A i \in front + 2 .. rear : i \in front + 1 .. rear /\ buf[IndexOf(i)] # c
      BY <1>2, <1>4 DEF SbufInv, Places
    <3>3. \A i \in front + 1 .. rear : i = front + 1 \/ i \in front + 2 .. rear
      BY <1>4
    <3> QED
      BY <3>1, <3>2, <3>3 DEF Queued
  <2>3. \A u \in Threads : item[u] # c
    BY <1>2, <2>1 DEF SbufInv, Places, Held
  <2>4. c \notin fresh /\ c \notin served
    BY <1>2, <2>1 DEF SbufInv, Places
  <2> HIDE DEF c
  <2>5. \A d \in Conns : Held(d)' <=> Held(d) \/ d = c
    BY <1>1, <1>2, <1>3, NoneAssumption DEF Held
  <2>6. \A u, v \in Threads : (item[u] = item[v] /\ item[u] # None => u = v)'
    BY <1>3, <2>3 DEF SbufInv, Places
  <2>7. /\ \A i \in front' + 1 .. rear : buf[IndexOf(i)] \in Conns
        /\ \A i, j \in front' + 1 .. rear : buf[IndexOf(i)] = buf[IndexOf(j)] => i = j
    BY <1>2, <1>4 DEF SbufInv, Places
  <2>8. /\ \A i \in front' + 1 .. rear' : buf'[IndexOf(i)'] \in Conns
        /\ \A i, j \in front' + 1 .. rear' : buf'[IndexOf(i)'] = buf'[IndexOf(j)'] => i = j
    BY <1>3, <2>7 DEF IndexOf
  <2> QED
    BY <1>3, <2>2, <2>4, <2>5, <2>6, <2>8 DEF SbufInv, Places, IndexOf
<1>8. RearCounts'
  <2>1. Inserted' = Inserted
    BY <1>1, <1>3 DEF Inserted, Threads
  <2> QED
    BY <1>3, <2>1 DEF SbufInv, RearCounts
<1> QED
  BY <1>5, <1>6, <1>7, <1>8 DEF SbufInv

LEMMA DoitKeeps ==
    ASSUME SbufInv, NEW t \in Consumers, Doit(t)
    PROVE  SbufInv'
<1> DEFINE c == item[t]
<1>1. t \in Threads /\ t \notin Producers /\ pc[t] = "doit" /\ c \in Conns /\ c # None
  BY ThreadAssumption, NoneAssumption DEF Doit, Step, Threads, SbufInv, TypeInv, Holding
<1>2. /\ \A u \in Threads : item'[u] = IF u = t THEN None ELSE item[u]
      /\ served' = served \cup {c}
      /\ UNCHANGED <<buf, front, rear, mutex, slots, items, fresh>>
  BY <1>1 DEF Doit, Hold, SbufInv, TypeInv, sbufVars
<1>3. TypeInv'
  <2>1. Step(t, "doit", "P_items") /\ "P_items" \in RemoveLabels /\ "P_items" \notin Holding
    BY DEF Doit, RemoveLabels, Holding
  <2>2. /\ pc' \in [Threads -> Labels]
        /\ \A u \in Threads : pc'[u] = IF u = t THEN "P_items" ELSE pc[u]
        /\ \A u \in Producers : pc'[u] \in InsertLabels
        /\ \A u \in Consumers : pc'[u] \in RemoveLabels
    BY <1>1, <2>1, StepTypes
  <2>3. item' \in [Threads -> Conns \cup {None}]
    BY DEF Doit, Hold, SbufInv, TypeInv
  <2> HIDE DEF c
  <2> QED
    BY <1>1, <1>2, <2>1, <2>2, <2>3, NoneAssumption DEF SbufInv, TypeInv
<1>4. Counts'
  <2>1. Step(t, "doit", "P_items")
    BY DEF Doit
  <2> QED
    BY <1>1, <1>2, <2>1, CountTypes, CountsKept
    DEF In, InMutex, Claiming, Freeing, Announcing, Fetching
<1>5. Places'
  <2>1. Held(c)
    BY <1>1 DEF Held
  <2> HIDE DEF c
  <2>2. \A d \in Conns : /\ Held(d)' <=> Held(d) /\ d # c
                         /\ Queued(d)' <=> Queued(d)
    <3>1. \A u \in Threads : item[u] = c => u = t
      BY <1>1 DEF SbufInv, Places, c
    <3> QED
      BY <1>1, <1>2, <3>1, NoneAssumption DEF Held, Queued, IndexOf, c
  <2>3. \A u, v \in Threads : (item[u] = item[v] /\ item[u] # None => u = v)'
    BY <1>2 DEF SbufInv, Places
  <2> QED
    BY <1>1, <1>2, <2>1, <2>2, <2>3 DEF SbufInv, Places, IndexOf
<1>6. RearCounts'
  <2>1. Inserted' = Inserted
    BY <1>1, <1>2 DEF Inserted, Threads
  <2> QED
    BY <1>2, <2>1 DEF SbufInv, RearCounts
<1> QED
  BY <1>3, <1>4, <1>5, <1>6 DEF SbufInv

LEMMA SbufInit == Init => SbufInv
<1> SUFFICES ASSUME Init
             PROVE  SbufInv
  OBVIOUS
<1>1. TypeInv
  <2>1. 0 \in Nat /\ 1 \in Nat /\ Size \in Nat
    BY SizeAssumption
  <2>2. pc \in [Threads -> Labels]
    BY DEF Init, Labels, InsertLabels, RemoveLabels
  <2>3. /\ \A t \in Producers : t \in Threads /\ pc[t] = "accept"
        /\ \A t \in Consumers : t \in Threads /\ pc[t] = "P_items"
    BY ThreadAssumption DEF Init, Threads
  <2>4. \A t \in Threads : item[t] \notin Conns /\ pc[t] \notin Holding
    BY <2>3, NoneAssumption DEF Init, Threads, Holding
  <2> QED
    BY <2>1, <2>2, <2>3, <2>4 DEF Init, TypeInv, InsertLabels, RemoveLabels
<1>2. Counts
  <2>1. /\ At(InMutex) = {} /\ At(Claiming) = {} /\ At(Freeing) = {}
        /\ At(Announcing) = {} /\ At(Fetching) = {}
    BY DEF Init, At, InMutex, Claiming, Freeing, Announcing, Fetching
  <2>2. Cardinality({}) = 0
    BY FS_EmptySet
  <2> QED
    BY <2>1, <2>2, SizeAssumption DEF Init, Counts
<1>3. Places
  BY NoneAssumption DEF Init, Places, Held, Queued
<1>4. RearCounts
  <2>1. Inserted = {}
    BY DEF Init, Inserted
  <2> QED
    BY <2>1, FS_EmptySet DEF Init, RearCounts
<1> QED
  BY <1>1, <1>2, <1>3, <1>4 DEF SbufInv

LEMMA SbufStep ==
    ASSUME IndicesSuffice, SbufInv, [Next]_vars
    PROVE  SbufInv'
<1>1. ASSUME NEW t \in Producers, NEW c \in Conns, Accept(t, c)
      PROVE  SbufInv'
  BY <1>1, AcceptKeeps
<1>2. ASSUME NEW t \in Producers, Insert(t)
      PROVE  SbufInv'
  <2>1. t \in Threads
    BY DEF Threads
  <2> QED
    BY <1>2, <2>1, SemaphoreSteps, InsertItemKeeps DEF Insert
<1>3. ASSUME NEW t \in Consumers, Remove(t)
      PROVE  SbufInv'
  <2>1. t \in Threads
    BY DEF Threads
  <2> QED
    BY <1>3, <2>1, SemaphoreSteps, RemoveItemKeeps DEF Remove
<1>4. ASSUME NEW t \in Consumers, Doit(t)
      PROVE  SbufInv'
  BY <1>4, DoitKeeps
<1>5. CASE UNCHANGED vars
  <2>1. Places' /\ RearCounts'
    BY <1>5, NothingMoves DEF vars, array, conns
  <2>2. Counts'
    BY <1>5 DEF vars, SbufInv, Counts, At
  <2> QED
    BY <1>5, <2>1, <2>2 DEF vars, SbufInv, TypeInv
<1> QED
  BY <1>1, <1>2, <1>3, <1>4, <1>5 DEF Next, Quiet

LEMMA SbufInvariant ==
    ASSUME IndicesSuffice
    PROVE  Spec => []SbufInv
<1>1. SbufInv /\ [Next]_vars => SbufInv'
  BY SbufStep
<1> QED
  BY SbufInit, <1>1, PTL DEF Spec

-----------------------------------------------------------------------------
(* Theorems.                                                               *)

(* The semaphores and indices of sbuf_t stay in their ranges, and a thread *)
(* that comes back from sbuf_remove holds a connection.                    *)
THEOREM BufferTypeCorrect ==
    ASSUME IndicesSuffice
    PROVE  Spec => []SbufTypeOK
<1>1. SbufInv => SbufTypeOK
  <2> SUFFICES ASSUME SbufInv
               PROVE  SbufTypeOK
    OBVIOUS
  <2>1. front \in 0 .. IntMax /\ rear \in 0 .. IntMax
    BY CountTypes, Bounds, InsertedBound, IntMaxAssumption
  <2> QED
    BY <2>1, Bounds DEF SbufInv, TypeInv, SbufTypeOK, Labels, Holding
<1> QED
  BY <1>1, SbufInvariant, PTL

(* An accepted connection is always in exactly one place.                  *)
THEOREM ConnectionsInOnePlace ==
    ASSUME IndicesSuffice
    PROVE  Spec => []InOnePlace
<1>1. ASSUME SbufInv, NEW c \in Conns
      PROVE  LET holders == {t \in Threads : item[t] = c}
                 places == {i \in 1 .. rear - front : Queue[i] = c}
             IN  Cardinality(holders) + Cardinality(places)
                   + (IF c \in fresh THEN 1 ELSE 0) + (IF c \in served THEN 1 ELSE 0) = 1
  <2> DEFINE holders == {t \in Threads : item[t] = c}
             places == {i \in 1 .. rear - front : Queue[i] = c}
  <2>1. front \in Nat /\ rear \in Nat /\ c # None
    BY <1>1, NoneAssumption DEF SbufInv, TypeInv
  <2>2. Cardinality({}) = 0 /\ \A x : Cardinality({x}) = 1
    BY FS_EmptySet, FS_Singleton
  <2>3. Held(c) => \E t : holders = {t}
    <3> SUFFICES ASSUME NEW t \in Threads, item[t] = c
                 PROVE  holders = {t}
      BY DEF Held
    <3>1. \A u \in Threads : item[u] = c => u = t
      BY <1>1, <2>1 DEF SbufInv, Places
    <3> QED
      BY <3>1
  <2>4. ~ Held(c) => holders = {}
    BY DEF Held
  <2>5. \A i \in 1 .. rear - front : Queue[i] = buf[IndexOf(front + i)]
    BY DEF Queue
  <2>6. Queued(c) => \E i : places = {i}
    <3> SUFFICES ASSUME Queued(c)
                 PROVE  \E i : places = {i}
      OBVIOUS
    <3>1. PICK k \in front + 1 .. rear : buf[IndexOf(k)] = c
      BY DEF Queued
    <3>2. k - front \in 1 .. rear - front /\ front + (k - front) = k
      BY <2>1
    <3>3. k - front \in places
      BY <2>5, <3>1, <3>2
    <3>4. ASSUME NEW i \in places
          PROVE  i = k - front
      <4>1. front + i \in front + 1 .. rear /\ buf[IndexOf(front + i)] = c
        BY <2>1, <2>5
      <4>2. front + i = k
        BY <1>1, <3>1, <4>1 DEF SbufInv, Places
      <4> QED
        BY <2>1, <4>2
    <3> HIDE DEF places
    <3> QED
      BY <3>3, <3>4
  <2>7. ~ Queued(c) => places = {}
    <3> SUFFICES ASSUME NEW i \in places
                 PROVE  Queued(c)
      OBVIOUS
    <3>1. front + i \in front + 1 .. rear /\ buf[IndexOf(front + i)] = c
      BY <2>1, <2>5
    <3> QED
      BY <3>1 DEF Queued
  <2> HIDE DEF holders, places
  <2>a. /\ Cardinality(holders) = IF Held(c) THEN 1 ELSE 0
        /\ Cardinality(places) = IF Queued(c) THEN 1 ELSE 0
    BY <2>2, <2>3, <2>4, <2>6, <2>7
  <2>b. \/ c \in fresh /\ ~ Held(c) /\ ~ Queued(c) /\ c \notin served
        \/ c \notin fresh /\ Held(c) /\ ~ Queued(c) /\ c \notin served
        \/ c \notin fresh /\ ~ Held(c) /\ Queued(c) /\ c \notin served
        \/ c \notin fresh /\ ~ Held(c) /\ ~ Queued(c) /\ c \in served
    BY <1>1 DEF SbufInv, Places
  <2>8. Cardinality(holders) + Cardinality(places)
          + (IF c \in fresh THEN 1 ELSE 0) + (IF c \in served THEN 1 ELSE 0) = 1
    BY <2>a, <2>b
  <2> QED
    BY <2>8 DEF holders, places
<1>2. SbufInv => InOnePlace
  BY <1>1 DEF InOnePlace
<1> QED
  BY <1>2, SbufInvariant, PTL

-----------------------------------------------------------------------------
(* The buffer is a bounded FIFO queue.                                     *)

(* The items of an array b between two indices f and r.                    *)
Window(b, f, r) == [i \in 1 .. r - f |-> b[IndexOf(f + i)]]

LEMMA QueueIsWindow ==
    Queue = Window(buf, front, rear) /\ Queue' = Window(buf', front', rear')
  BY DEF Queue, Window, IndexOf

LEMMA WindowIsSeq ==
    ASSUME NEW b, NEW f \in Nat, NEW r \in Nat, r - f \in Nat,
           \A i \in f + 1 .. r : b[IndexOf(i)] \in Conns
    PROVE  /\ Window(b, f, r) \in Seq(Conns) /\ Len(Window(b, f, r)) = r - f
           /\ \A i \in 1 .. r - f : Window(b, f, r)[i] = b[IndexOf(f + i)]
<1>1. \A i \in 1 .. r - f : b[IndexOf(f + i)] \in Conns
  <2> SUFFICES ASSUME NEW i \in 1 .. r - f
               PROVE  b[IndexOf(f + i)] \in Conns
    OBVIOUS
  <2>1. f + i \in f + 1 .. r
    OBVIOUS
  <2> QED
    BY <2>1
<1>2. Window(b, f, r) \in [1 .. r - f -> Conns]
  BY <1>1 DEF Window
<1> QED
  BY <1>2, SeqDef DEF Window

(* An item written behind the last one is appended.                        *)
LEMMA WindowGrows ==
    ASSUME NEW b, NEW b2, NEW f \in Nat, NEW r \in Nat, NEW q \in Nat,
           r - f \in Nat, q = r + 1, NEW c \in Conns,
           \A i \in f + 1 .. r : b[IndexOf(i)] \in Conns /\ b2[IndexOf(i)] = b[IndexOf(i)],
           b2[IndexOf(q)] = c
    PROVE  Window(b2, f, q) = Append(Window(b, f, r), c)
<1> DEFINE n == r - f
<1>1. q - f \in Nat /\ q - f = n + 1 /\ f + (n + 1) = q
  OBVIOUS
<1>2. /\ Window(b, f, r) \in Seq(Conns) /\ Len(Window(b, f, r)) = n
      /\ \A i \in 1 .. n : Window(b, f, r)[i] = b[IndexOf(f + i)]
  BY WindowIsSeq
<1>3. \A i \in f + 1 .. q : b2[IndexOf(i)] \in Conns
  <2> SUFFICES ASSUME NEW i \in f + 1 .. q
               PROVE  b2[IndexOf(i)] \in Conns
    OBVIOUS
  <2>1. i = q \/ i \in f + 1 .. r
    OBVIOUS
  <2> QED
    BY <2>1
<1>4. /\ Window(b2, f, q) \in Seq(Conns) /\ Len(Window(b2, f, q)) = n + 1
      /\ \A i \in 1 .. n + 1 : Window(b2, f, q)[i] = b2[IndexOf(f + i)]
  <2>1. /\ Len(Window(b2, f, q)) = q - f
        /\ \A i \in 1 .. q - f : Window(b2, f, q)[i] = b2[IndexOf(f + i)]
        /\ Window(b2, f, q) \in Seq(Conns)
    BY <1>1, <1>3, WindowIsSeq
  <2> QED
    BY <1>1, <2>1
<1>5. /\ Append(Window(b, f, r), c) \in Seq(Conns)
      /\ Len(Append(Window(b, f, r), c)) = n + 1
      /\ \A i \in 1 .. n : Append(Window(b, f, r), c)[i] = Window(b, f, r)[i]
      /\ Append(Window(b, f, r), c)[n + 1] = c
  BY <1>2, AppendProperties
<1>6. ASSUME NEW i \in 1 .. n + 1
      PROVE  Window(b2, f, q)[i] = Append(Window(b, f, r), c)[i]
  <2>1. CASE i = n + 1
    BY <1>1, <1>4, <1>5, <2>1
  <2>2. CASE i # n + 1
    <3>1. i \in 1 .. n /\ f + i \in f + 1 .. r
      BY <1>1, <2>2
    <3>2. b2[IndexOf(f + i)] = b[IndexOf(f + i)]
      BY <3>1
    <3> QED
      BY <1>2, <1>4, <1>5, <3>1, <3>2
  <2> QED
    BY <2>1, <2>2
<1> HIDE DEF n
<1> QED
  BY <1>1, <1>4, <1>5, <1>6, SeqEqual

(* The window that begins one later is the tail.                           *)
LEMMA WindowShrinks ==
    ASSUME NEW b, NEW f \in Nat, NEW r \in Nat, f < r,
           \A i \in f + 1 .. r : b[IndexOf(i)] \in Conns
    PROVE  /\ Window(b, f, r) # << >>
           /\ Head(Window(b, f, r)) = b[IndexOf(f + 1)]
           /\ Window(b, f + 1, r) = Tail(Window(b, f, r))
<1> DEFINE n == r - f
<1>1. n \in Nat \ {0} /\ f + 1 \in Nat /\ r - (f + 1) \in Nat /\ r - (f + 1) = n - 1
  OBVIOUS
<1>2. /\ Window(b, f, r) \in Seq(Conns) /\ Len(Window(b, f, r)) = n
      /\ \A i \in 1 .. n : Window(b, f, r)[i] = b[IndexOf(f + i)]
  BY <1>1, WindowIsSeq
<1>3. /\ Window(b, f + 1, r) \in Seq(Conns) /\ Len(Window(b, f + 1, r)) = r - (f + 1)
      /\ \A i \in 1 .. r - (f + 1) : Window(b, f + 1, r)[i] = b[IndexOf((f + 1) + i)]
  <2> DEFINE g == f + 1
  <2>1. g \in Nat /\ r - g \in Nat /\ \A i \in g + 1 .. r : b[IndexOf(i)] \in Conns
    BY <1>1
  <2> HIDE DEF g
  <2>2. /\ Window(b, g, r) \in Seq(Conns) /\ Len(Window(b, g, r)) = r - g
        /\ \A i \in 1 .. r - g : Window(b, g, r)[i] = b[IndexOf(g + i)]
    BY <2>1, WindowIsSeq
  <2> QED
    BY <2>2 DEF g
<1>4. Window(b, f, r) # << >> /\ Head(Window(b, f, r)) = b[IndexOf(f + 1)]
  <2>1. 1 \in 1 .. n /\ Len(Window(b, f, r)) # 0
    BY <1>1, <1>2
  <2> HIDE DEF n
  <2> QED
    BY <1>2, <2>1, HeadTailProperties, EmptySeq
<1>5. /\ Tail(Window(b, f, r)) \in Seq(Conns) /\ Len(Tail(Window(b, f, r))) = n - 1
      /\ \A i \in 1 .. n - 1 : Tail(Window(b, f, r))[i] = Window(b, f, r)[i + 1]
  BY <1>2, <1>4, HeadTailProperties
<1>6. ASSUME NEW i \in 1 .. n - 1
      PROVE  Window(b, f + 1, r)[i] = Tail(Window(b, f, r))[i]
  <2>1. i + 1 \in 1 .. n /\ (f + 1) + i = f + (i + 1) /\ i \in 1 .. r - (f + 1)
    BY <1>1
  <2> HIDE DEF n
  <2>2. Window(b, f, r)[i + 1] = b[IndexOf(f + (i + 1))]
    BY <1>2, <2>1
  <2>3. Window(b, f + 1, r)[i] = b[IndexOf((f + 1) + i)]
    BY <1>3, <2>1
  <2> QED
    BY <1>5, <2>1, <2>2, <2>3
<1> HIDE DEF n
<1> QED
  BY <1>1, <1>3, <1>4, <1>5, <1>6, SeqEqual

(* The places of a worker that sbuf_remove has handed a connection.        *)
Handed == {"remove_V_mutex", "V_slots", "doit"}

LEMMA TakenIs ==
    /\ Taken = {item[t] : t \in At(Handed)} \cup served
    /\ Taken' = {item'[t] : t \in At(Handed)'} \cup served'
  BY DEF Taken, Handed, At

(* A step of a thread that holds on to what it has, or to nothing, and is  *)
(* handed no connection and lets none go.                                  *)
LEMMA TakenSame ==
    ASSUME SbufInv, NEW t \in Threads, NEW from, NEW to, Step(t, from, to),
           from \in Handed <=> to \in Handed, served' = served,
           \A u \in Threads : item'[u] = item[u] \/ (u = t /\ from \notin Handed)
    PROVE  Taken' = Taken
<1>1. /\ pc[t] = from
      /\ \A u \in Threads : pc'[u] = IF u = t THEN to ELSE pc[u]
  BY DEF Step, SbufInv, TypeInv
<1>2. At(Handed)' = At(Handed)
  BY <1>1 DEF At
<1>3. \A u \in At(Handed) : item'[u] = item[u]
  BY <1>1 DEF At
<1> HIDE DEF Handed
<1> QED
  BY <1>2, <1>3, TakenIs

LEMMA InsertIsInsert ==
    ASSUME IndicesSuffice, SbufInv, NEW t \in Producers, InsertItem(t)
    PROVE  \E c \in Conns : CQ!sbuf_insert(c)
<1> DEFINE c == item[t]
<1>1. t \in Threads /\ pc[t] = "insert"
  BY DEF InsertItem, Step, Threads
<1>2. c \in Conns /\ rear - front < Size /\ rear' = rear + 1 /\ front' = front
  BY <1>1, RoomToInsert DEF InsertItem
<1>3. front \in Nat /\ rear \in Nat /\ rear - front \in Nat /\ rear + 1 \in Nat
  BY CountTypes, Bounds
<1>4. buf' = [buf EXCEPT ![IndexOf(rear + 1)] = c]
  BY <1>2 DEF InsertItem
<1>5. buf \in [0 .. Size - 1 -> Conns \cup {None}] /\ IndexOf(rear + 1) \in 0 .. Size - 1
  BY <1>3, IndexIsSlot DEF SbufInv, TypeInv
<1>6. buf'[IndexOf(rear + 1)] = c
  BY <1>4, <1>5
<1>7. ASSUME NEW i \in front + 1 .. rear
      PROVE  buf[IndexOf(i)] \in Conns /\ buf'[IndexOf(i)] = buf[IndexOf(i)]
  <2>1. i \in Nat /\ i < rear + 1 /\ (rear + 1) - i < Size
    BY <1>2, <1>3, SizeAssumption
  <2>2. IndexOf(i) \in 0 .. Size - 1 /\ IndexOf(i) # IndexOf(rear + 1)
    BY <1>3, <2>1, IndexIsSlot, IndicesApart
  <2> QED
    BY <1>4, <1>5, <2>2 DEF SbufInv, Places
<1> HIDE DEF c
<1>8. Queue' = Append(Queue, c)
  <2>1. \A i \in front + 1 .. rear :
          buf[IndexOf(i)] \in Conns /\ buf'[IndexOf(i)] = buf[IndexOf(i)]
    BY <1>7
  <2>2. Window(buf', front, rear + 1) = Append(Window(buf, front, rear), c)
    BY <1>2, <1>3, <1>6, <2>1, WindowGrows
  <2> QED
    BY <1>2, <2>2, QueueIsWindow
<1>9. Len(Queue) < Size
  <2>1. \A i \in front + 1 .. rear : buf[IndexOf(i)] \in Conns
    BY <1>7
  <2> QED
    BY <1>2, <1>3, <2>1, WindowIsSeq, QueueIsWindow
<1>10. Taken' = Taken
  <2>1. Step(t, "insert", "insert_V_mutex") /\ served' = served
    BY DEF InsertItem
  <2>2. "insert" \notin Handed /\ "insert_V_mutex" \notin Handed
    BY DEF Handed
  <2>3. \A u \in Threads : item'[u] = item[u] \/ u = t
    BY DEF InsertItem, Hold, SbufInv, TypeInv
  <2> QED
    BY <1>1, <2>1, <2>2, <2>3, TakenSame
<1> QED
  BY <1>2, <1>8, <1>9, <1>10 DEF CQ!sbuf_insert

LEMMA RemoveIsRemove ==
    ASSUME IndicesSuffice, SbufInv, NEW t \in Consumers, RemoveItem(t)
    PROVE  \E c \in Conns : CQ!sbuf_remove(c)
<1> DEFINE c == buf[IndexOf(front + 1)]
<1>1. t \in Threads /\ pc[t] = "remove"
  BY DEF RemoveItem, Step, Threads
<1>2. /\ c \in Conns /\ front < rear
      /\ front' = front + 1 /\ rear' = rear /\ buf' = buf /\ served' = served
  BY <1>1, SomethingToRemove DEF RemoveItem
<1>3. front \in Nat /\ rear \in Nat
  BY CountTypes
<1>4. \A i \in front + 1 .. rear : buf[IndexOf(i)] \in Conns
  BY DEF SbufInv, Places
<1>5. Queue # << >> /\ c = Head(Queue) /\ Queue' = Tail(Queue)
  BY <1>2, <1>3, <1>4, WindowShrinks, QueueIsWindow
<1>6. Taken' = Taken \cup {c}
  <2>1. pc' = [pc EXCEPT ![t] = "remove_V_mutex"] /\ item' = [item EXCEPT ![t] = c]
    BY <1>2 DEF RemoveItem, Step, Hold
  <2>2. \A u \in Threads : u # t => pc'[u] = pc[u] /\ item'[u] = item[u]
    BY <2>1 DEF SbufInv, TypeInv
  <2>3. pc'[t] = "remove_V_mutex" /\ item'[t] = c
    BY <1>1, <2>1 DEF SbufInv, TypeInv
  <2> HIDE DEF c
  <2>4. At(Handed)' = At(Handed) \cup {t} /\ t \notin At(Handed)
    BY <1>1, <2>2, <2>3 DEF At, Handed
  <2>5. \A u \in At(Handed) : item'[u] = item[u]
    BY <2>2, <2>4 DEF At
  <2> HIDE DEF Handed
  <2>6. {item'[u] : u \in At(Handed)'} = {item[u] : u \in At(Handed)} \cup {c}
    BY <2>3, <2>4, <2>5
  <2> QED
    BY <1>2, <2>6, TakenIs
<1> QED
  BY <1>2, <1>5, <1>6 DEF CQ!sbuf_remove

LEMMA DoitIsInvisible ==
    ASSUME SbufInv, NEW t \in Consumers, Doit(t)
    PROVE  UNCHANGED <<Queue, Taken>>
<1>1. t \in Threads /\ pc[t] = "doit"
  BY DEF Doit, Step, Threads
<1>2. Queue' = Queue
  BY QueueIsWindow DEF Doit, sbufVars
<1>3. Taken' = Taken
  <2>1. \A u \in Threads : u # t => pc'[u] = pc[u] /\ item'[u] = item[u]
    BY DEF Doit, Step, Hold, SbufInv, TypeInv
  <2>2. pc'[t] = "P_items"
    BY <1>1 DEF Doit, Step, SbufInv, TypeInv
  <2>3. At(Handed)' = At(Handed) \ {t} /\ t \in At(Handed)
    BY <1>1, <2>1, <2>2 DEF At, Handed
  <2>4. \A u \in At(Handed) \ {t} : item'[u] = item[u]
    BY <2>1 DEF At
  <2>5. served' = served \cup {item[t]}
    BY DEF Doit
  <2> HIDE DEF Handed
  <2> QED
    BY <2>3, <2>4, <2>5, TakenIs
<1> QED
  BY <1>2, <1>3

LEMMA AcceptIsInvisible ==
    ASSUME SbufInv, NEW t \in Producers, NEW c \in Conns, Accept(t, c)
    PROVE  UNCHANGED <<Queue, Taken>>
<1>1. Queue' = Queue
  BY QueueIsWindow DEF Accept, sbufVars
<1>2. t \in Threads /\ Step(t, "accept", "P_slots") /\ served' = served
  BY DEF Accept, Threads
<1>3. "accept" \notin Handed /\ "P_slots" \notin Handed
  BY DEF Handed
<1>4. \A u \in Threads : item'[u] = item[u] \/ u = t
  BY DEF Accept, Hold, SbufInv, TypeInv
<1> QED
  BY <1>1, <1>2, <1>3, <1>4, TakenSame

(* P and V are the same step whatever they protect.                        *)
LEMMA SemaphoreIsInvisible ==
    ASSUME SbufInv, NEW t \in Threads,
           \/ InsertPSlots(t) \/ InsertPMutex(t) \/ InsertVMutex(t) \/ InsertVItems(t)
           \/ RemovePItems(t) \/ RemovePMutex(t) \/ RemoveVMutex(t) \/ RemoveVSlots(t)
    PROVE  UNCHANGED <<Queue, Taken>>
<1>1. UNCHANGED <<array, conns>>
  BY DEF array, InsertPSlots, InsertPMutex, InsertVMutex, InsertVItems,
         RemovePItems, RemovePMutex, RemoveVMutex, RemoveVSlots
<1>2. Queue' = Queue
  BY <1>1, QueueIsWindow DEF array
<1>3. PICK from, to : Step(t, from, to) /\ (from \in Handed <=> to \in Handed)
  BY DEF Handed, InsertPSlots, InsertPMutex, InsertVMutex, InsertVItems,
         RemovePItems, RemovePMutex, RemoveVMutex, RemoveVSlots
<1>4. Taken' = Taken
  BY <1>1, <1>3, TakenSame DEF conns
<1> QED
  BY <1>2, <1>4

LEMMA QueueInit == Init => CQ!InitQueue
<1> SUFFICES ASSUME Init
             PROVE  Queue = << >> /\ Taken = {}
  BY DEF CQ!InitQueue
<1>1. Queue = << >>
  <2>1. front = 0 /\ rear = 0
    BY DEF Init
  <2>2. /\ front \in Nat /\ rear \in Nat /\ rear - front \in Nat /\ rear - front = 0
        /\ \A i \in front + 1 .. rear : buf[IndexOf(i)] \in Conns
    BY <2>1
  <2>3. Queue \in Seq(Conns) /\ Len(Queue) = 0
    BY <2>2, WindowIsSeq, QueueIsWindow
  <2> QED
    BY <2>3, EmptySeq
<1>2. At(Handed) = {}
  BY DEF Init, At, Handed
<1> QED
  BY <1>1, <1>2, TakenIs DEF Init

LEMMA QueueStep ==
    ASSUME IndicesSuffice, SbufInv, [Next]_vars
    PROVE  [CQ!NextQueue]_(CQ!queueVars)
<1>1. UNCHANGED <<Queue, Taken>> => UNCHANGED CQ!queueVars
  BY DEF CQ!queueVars
<1>2. ASSUME NEW t \in Producers, NEW c \in Conns, Accept(t, c)
      PROVE  UNCHANGED <<Queue, Taken>>
  BY <1>2, AcceptIsInvisible
<1>3. ASSUME NEW t \in Producers, Insert(t)
      PROVE  CQ!NextQueue \/ UNCHANGED <<Queue, Taken>>
  <2>1. t \in Threads
    BY DEF Threads
  <2>2. CASE InsertItem(t)
    BY <2>2, InsertIsInsert DEF CQ!NextQueue
  <2>3. CASE InsertPSlots(t) \/ InsertPMutex(t) \/ InsertVMutex(t) \/ InsertVItems(t)
    BY <2>1, <2>3, SemaphoreIsInvisible
  <2> QED
    BY <1>3, <2>2, <2>3 DEF Insert
<1>4. ASSUME NEW t \in Consumers, Remove(t)
      PROVE  CQ!NextQueue \/ UNCHANGED <<Queue, Taken>>
  <2>1. t \in Threads
    BY DEF Threads
  <2>2. CASE RemoveItem(t)
    BY <2>2, RemoveIsRemove DEF CQ!NextQueue
  <2>3. CASE RemovePItems(t) \/ RemovePMutex(t) \/ RemoveVMutex(t) \/ RemoveVSlots(t)
    BY <2>1, <2>3, SemaphoreIsInvisible
  <2> QED
    BY <1>4, <2>2, <2>3 DEF Remove
<1>5. ASSUME NEW t \in Consumers, Doit(t)
      PROVE  UNCHANGED <<Queue, Taken>>
  BY <1>5, DoitIsInvisible
<1>6. UNCHANGED vars => UNCHANGED <<Queue, Taken>>
  BY QueueIsWindow, TakenIs DEF vars, At
<1>7. CQ!NextQueue \/ UNCHANGED <<Queue, Taken>>
  <2>1. CASE \E t \in Producers : (\E c \in Conns : Accept(t, c)) \/ Insert(t)
    BY <1>2, <1>3, <2>1
  <2>2. CASE \E t \in Consumers : Remove(t) \/ Doit(t)
    BY <1>4, <1>5, <2>2
  <2>3. CASE UNCHANGED vars
    BY <1>6, <2>3
  <2> QED
    BY <2>1, <2>2, <2>3 DEF Next, Quiet
<1> QED
  BY <1>1, <1>7

(* sbuf_insert and sbuf_remove: a dozen interleaved steps on two indices   *)
(* and three semaphores are a bounded first-in first-out queue.            *)
THEOREM BufferIsQueue ==
    ASSUME IndicesSuffice
    PROVE  Spec => ImplementsQueue
<1>1. SbufInv /\ [Next]_vars => [CQ!NextQueue]_(CQ!queueVars)
  BY QueueStep
<1> QED
  BY QueueInit, SbufInvariant, <1>1, PTL DEF Spec, ImplementsQueue, CQ!SpecQueue

=============================================================================
