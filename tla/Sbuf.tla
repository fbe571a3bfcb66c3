-------------------------------- MODULE Sbuf --------------------------------
(***************************************************************************)
(* The connection buffer of the proxy (sbuf_t in Proxy/proxy.c): a         *)
(* circular array, two indices that only grow, and three semaphores.  The  *)
(* accepting thread inserts, the worker threads remove.                    *)
(*                                                                         *)
(* Every P, every V and the critical section between them is a step of its *)
(* own.  A semaphore is a natural number: P waits until it is positive.    *)
(***************************************************************************)
EXTENDS Integers, Sequences, FiniteSets

CONSTANTS
    Producers,      \* threads that call sbuf_insert (the code has one)
    Consumers,      \* threads that call sbuf_remove (THREAD_NUM workers)
    Conns,          \* connected descriptors, each accepted once
    Size,           \* sp->n (SBUFSIZE)
    IntMax,         \* the largest int
    None            \* what a slot of Calloc'ed memory holds: no connection

ASSUME SizeAssumption == Size \in Nat \ {0}
ASSUME IntMaxAssumption == IntMax \in Nat \ {0}
ASSUME NoneAssumption == None \notin Conns
ASSUME ThreadAssumption ==
    Producers \cap Consumers = {} /\ IsFiniteSet(Producers) /\ IsFiniteSet(Consumers)

VARIABLES
    buf,            \* the array
    front, rear,    \* buf[(front + 1) % n] is the first item, buf[rear % n] the last
    mutex, slots, items,
    pc,             \* where each thread is
    item,           \* the descriptor each thread holds
    fresh,          \* connections not accepted yet
    served          \* connections a worker is done with

vars == <<buf, front, rear, mutex, slots, items, pc, item, fresh, served>>
sbufVars == <<buf, front, rear, mutex, slots, items>>

Threads == Producers \cup Consumers

(* front and rear are ints that ++ increments without a bound; C's % keeps *)
(* the sign of its left operand.                                           *)
Incr(x) == IF x = IntMax THEN -IntMax - 1 ELSE x + 1
IndexOf(x) == IF x >= 0 THEN x % Size ELSE -((-x) % Size)

-----------------------------------------------------------------------------
Step(t, from, to) == pc[t] = from /\ pc' = [pc EXCEPT ![t] = to]
Hold(t, x) == item' = [item EXCEPT ![t] = x]

P(s) == s > 0 /\ s' = s - 1
V(s) == s' = s + 1

array == <<buf, front, rear>>
conns == <<item, fresh, served>>

(* sbuf_insert, called by main with the descriptor Accept returned.        *)

Accept(t, c) ==
    /\ Step(t, "accept", "P_slots")
    /\ c \in fresh
    /\ fresh' = fresh \ {c}
    /\ Hold(t, c)
    /\ UNCHANGED <<sbufVars, served>>

(* Mutant: the insertion does not wait for a slot. *)
InsertPSlots_nowait(t) ==
    Step(t, "P_slots", "insert_P_mutex") /\ UNCHANGED <<sbufVars, conns>>

InsertPSlots(t) ==
    /\ Step(t, "P_slots", "insert_P_mutex")
    /\ P(slots)
    /\ UNCHANGED <<array, mutex, items, conns>>

InsertPMutex(t) ==
    /\ Step(t, "insert_P_mutex", "insert")
    /\ P(mutex)
    /\ UNCHANGED <<array, slots, items, conns>>

InsertItem(t) ==
    /\ Step(t, "insert", "insert_V_mutex")
    /\ rear' = Incr(rear)
    /\ buf' = [buf EXCEPT ![IndexOf(rear')] = item[t]]
    /\ Hold(t, None)
    /\ UNCHANGED <<front, mutex, slots, items, fresh, served>>

InsertVMutex(t) ==
    /\ Step(t, "insert_V_mutex", "V_items")
    /\ V(mutex)
    /\ UNCHANGED <<array, slots, items, conns>>

(* Mutant: the item is announced twice. *)
InsertVItems_twice(t) ==
    /\ Step(t, "V_items", "accept")
    /\ items' = items + 2
    /\ UNCHANGED <<array, mutex, slots, conns>>

InsertVItems(t) ==
    /\ Step(t, "V_items", "accept")
    /\ V(items)
    /\ UNCHANGED <<array, mutex, slots, conns>>

(* sbuf_remove, called by the workers.                                     *)

(* Mutant: a worker leaves the last item waiting. *)
RemovePItems_offByOne(t) ==
    /\ Step(t, "P_items", "remove_P_mutex")
    /\ items > 1 /\ P(items)
    /\ UNCHANGED <<array, mutex, slots, conns>>

RemovePItems(t) ==
    /\ Step(t, "P_items", "remove_P_mutex")
    /\ P(items)
    /\ UNCHANGED <<array, mutex, slots, conns>>

RemovePMutex(t) ==
    /\ Step(t, "remove_P_mutex", "remove")
    /\ P(mutex)
    /\ UNCHANGED <<array, slots, items, conns>>

(* Mutant: front++ instead of ++front. *)
RemoveItem_postIncrement(t) ==
    /\ Step(t, "remove", "remove_V_mutex")
    /\ front' = Incr(front)
    /\ Hold(t, buf[IndexOf(front)])
    /\ UNCHANGED <<buf, rear, mutex, slots, items, fresh, served>>

RemoveItem(t) ==
    /\ Step(t, "remove", "remove_V_mutex")
    /\ front' = Incr(front)
    /\ Hold(t, buf[IndexOf(front')])
    /\ UNCHANGED <<buf, rear, mutex, slots, items, fresh, served>>

RemoveVMutex(t) ==
    /\ Step(t, "remove_V_mutex", "V_slots")
    /\ V(mutex)
    /\ UNCHANGED <<array, slots, items, conns>>

RemoveVSlots(t) ==
    /\ Step(t, "V_slots", "doit")
    /\ V(slots)
    /\ UNCHANGED <<array, mutex, items, conns>>

(* doit and Close, then the worker asks for the next connection.           *)
Doit(t) ==
    /\ Step(t, "doit", "P_items")
    /\ served' = served \cup {item[t]}
    /\ Hold(t, None)
    /\ UNCHANGED <<sbufVars, fresh>>

-----------------------------------------------------------------------------
(* sbuf_init, and the threads main creates.                                *)
Init ==
    /\ buf = [i \in 0 .. Size - 1 |-> None]
    /\ front = 0
    /\ rear = 0
    /\ mutex = 1
    /\ slots = Size
    /\ items = 0
    /\ pc = [t \in Threads |-> IF t \in Producers THEN "accept" ELSE "P_items"]
    /\ item = [t \in Threads |-> None]
    /\ fresh = Conns
    /\ served = {}

Insert(t) ==
    \/ InsertPSlots(t)
    \/ InsertPMutex(t)
    \/ InsertItem(t)
    \/ InsertVMutex(t)
    \/ InsertVItems(t)

Remove(t) ==
    \/ RemovePItems(t)
    \/ RemovePMutex(t)
    \/ RemoveItem(t)
    \/ RemoveVMutex(t)
    \/ RemoveVSlots(t)

(* No more clients: the workers wait for ever, as they should.             *)
Quiet ==
    /\ fresh = {}
    /\ \A t \in Producers : pc[t] = "accept"
    /\ \A t \in Consumers : pc[t] = "P_items"
    /\ UNCHANGED vars

Next ==
    \/ \E t \in Producers : (\E c \in Conns : Accept(t, c)) \/ Insert(t)
    \/ \E t \in Consumers : Remove(t) \/ Doit(t)
    \/ Quiet

Spec == Init /\ [][Next]_vars

(* Every thread keeps running unless a semaphore blocks it.  With finitely *)
(* many connections weak fairness is enough: a semaphore that stays        *)
(* positive is finally taken.                                              *)
Fairness ==
    /\ \A t \in Producers : WF_vars(Insert(t))
    /\ \A t \in Consumers : WF_vars(Remove(t) \/ Doit(t))

FairSpec == Spec /\ Fairness

-----------------------------------------------------------------------------
(* Properties.                                                             *)

(* The items in the buffer, oldest first, as the comments of sbuf_t's      *)
(* front and rear define them.                                             *)
Queue == [i \in 1 .. rear - front |-> buf[IndexOf(front + i)]]

At(labels) == {t \in Threads : pc[t] \in labels}

InsertLabels == {"accept", "P_slots", "insert_P_mutex", "insert", "insert_V_mutex", "V_items"}
RemoveLabels == {"P_items", "remove_P_mutex", "remove", "remove_V_mutex", "V_slots", "doit"}

(* Every variable holds a value of its type: the indices and the           *)
(* semaphores never leave their ranges, and no thread ever holds what an   *)
(* unused slot contains when it should hold a connection.                  *)
SbufTypeOK ==
    /\ buf \in [0 .. Size - 1 -> Conns \cup {None}]
    /\ front \in 0 .. IntMax /\ rear \in 0 .. IntMax
    /\ mutex \in 0 .. 1 /\ slots \in 0 .. Size /\ items \in 0 .. Size
    /\ pc \in [Threads -> InsertLabels \cup RemoveLabels]
    /\ item \in [Threads -> Conns \cup {None}]
    /\ \A t \in Threads : item[t] \in Conns <=>
           pc[t] \in {"P_slots", "insert_P_mutex", "insert",
                      "remove_V_mutex", "V_slots", "doit"}
    /\ fresh \subseteq Conns /\ served \subseteq Conns

(* sbuf_t: an accepted connection is in one place only: a thread's hands,  *)
(* one slot between front and rear, or done.  So an insertion never        *)
(* overwrites an item that nobody removed, and no two workers are handed   *)
(* the same descriptor (each would Close it).                              *)
InOnePlace ==
    \A c \in Conns :
        LET holders == {t \in Threads : item[t] = c}
            places == {i \in 1 .. rear - front : Queue[i] = c}
        IN  Cardinality(holders) + Cardinality(places)
              + (IF c \in fresh THEN 1 ELSE 0) + (IF c \in served THEN 1 ELSE 0) = 1

(* sbuf_insert and sbuf_remove, a dozen interleaved steps, are together a  *)
(* bounded FIFO queue: every step is an insertion at the rear, the removal *)
(* of the first item by the worker that is handed it, or invisible.        *)
Taken == {item[t] : t \in At({"remove_V_mutex", "V_slots", "doit"})} \cup served

CQ == INSTANCE ConnQueue WITH queue <- Queue, taken <- Taken
ImplementsQueue == CQ!SpecQueue

(* main and thread: while threads are scheduled, every connection that     *)
(* main accepts is finally served by some worker, provided doit returns.   *)
AcceptedIsServed == \A c \in Conns : c \notin fresh ~> c \in served
=============================================================================
