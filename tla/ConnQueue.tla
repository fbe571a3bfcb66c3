----------------------------- MODULE ConnQueue -----------------------------
(***************************************************************************)
(* What the proxy's connection buffer promises (the comments of sbuf_init, *)
(* sbuf_insert and sbuf_remove in Proxy/proxy.c): a bounded FIFO queue.    *)
(* Inserting waits while it is full, removing waits while it is empty and  *)
(* hands out the oldest item, and both take effect at once.  Sbuf.tla      *)
(* implements it with semaphores; Proxy.tla uses it.                       *)
(***************************************************************************)
EXTENDS Naturals, Sequences

CONSTANTS
    Conns,      \* connected descriptors
    Size        \* slots of the buffer (SBUFSIZE)

ASSUME SizeAssumption == Size \in Nat \ {0}

VARIABLES
    queue,      \* the connections in the buffer, oldest first
    taken       \* the connections that sbuf_remove has returned

queueVars == <<queue, taken>>

InitQueue == queue = << >> /\ taken = {}

sbuf_insert(c) ==
    /\ Len(queue) < Size
    /\ queue' = Append(queue, c)
    /\ UNCHANGED taken

sbuf_remove(c) ==
    /\ queue # << >>
    /\ c = Head(queue)
    /\ queue' = Tail(queue)
    /\ taken' = taken \cup {c}

NextQueue == \E c \in Conns : sbuf_insert(c) \/ sbuf_remove(c)

SpecQueue == InitQueue /\ [][NextQueue]_queueVars
=============================================================================
