------------------------------- MODULE Proxy -------------------------------
(***************************************************************************)
(* The caching proxy (Proxy/proxy.c with the Rio wrappers of               *)
(* Proxy/csapp.c): one thread accepts connections and queues them, worker  *)
(* threads take them, answer from the shared cache or fetch the object     *)
(* from its origin server, forward it line by line and cache it.           *)
(*                                                                         *)
(* The connection queue is the one ConnQueue describes and Sbuf            *)
(* implements.  Clients and origin servers are the environment; what they  *)
(* may do besides what is expected of them is the constant Faults.         *)
(*                                                                         *)
(* A request is its cache tag, one of Keys.  An object is a sequence of    *)
(* text lines, and a char array is a sequence of cells of a line each, so  *)
(* MAX_OBJECT_SIZE is ObjSize cells.  strcpy and the terminator it leaves  *)
(* are modelled, behind the end of an array too: a sequence longer than    *)
(* its array shows what has been written, or is read, beyond it.  What     *)
(* lies there depends on the build.  For gcc with the flags of the         *)
(* Makefile it is padding or, without a stack protector, forward_response's*)
(* buf for content, and for response the time stamp and the next pair.     *)
(* A line is longer than one character, so that the -1 response_bytes gains*)
(* by a reset never makes an object fit that was too large.                *)
(***************************************************************************)
EXTENDS ConnQueue, Integers, FiniteSets, SequencesExt

CONSTANTS
    Workers,        \* the THREAD_NUM threads
    Keys,           \* requests, as cache tags
    Length,         \* number of lines of each object
    Binary,         \* requests whose object has a null character in it
    Pairs,          \* cache_pair_num
    ObjSize,        \* MAX_OBJECT_SIZE
    Faults,         \* what the environment may do to the proxy
    MaxStalls,      \* bound of the model on peers that stall
    None

AllFaults == {"bad request", "client closes", "client resets", "client stalls",
              "origin refuses", "origin resets", "origin sends nothing",
              "origin closes early", "origin stalls"}

ASSUME FaultsAssumption == Faults \subseteq AllFaults
ASSUME BinaryAssumption == Binary \subseteq Keys
ASSUME LengthAssumption == Length \in [Keys -> Nat \ {0}]
ASSUME SizesAssumption == Pairs \in Nat \ {0} /\ ObjSize \in Nat \ {0}
ASSUME NoneAssumption == None \notin Conns \cup Workers \cup Keys

VARIABLES
    fresh,          \* connections not accepted yet
    wants,          \* what the client of each connection asks for
    client,         \* what the client of each connection does
    sent,           \* the cells written to each connection
    process,        \* whether the proxy is still up
    pc, conn,       \* where each worker is, and its connfd
    slot,           \* the pair cache_find or cache_insert has chosen
    nread,          \* lines read from the origin; response_bytes counts them
    content,        \* forward_response's array, as far as it is in use, and
                    \* what has been written or will be read behind its end
    cache,          \* cache_set
    lock,           \* the worker that holds the cache's mutex
    cur_time_stamp

fetchVars == <<nread, content>>
workerVars == <<pc, conn, slot, fetchVars>>
cacheVars == <<cache, lock, cur_time_stamp>>
peerVars == <<wants, client>>
outsideVars == <<queueVars, fresh, peerVars, process>>
vars == <<outsideVars, sent, workerVars, cacheVars>>

NUL  == <<"NUL", 0>>
Junk == <<"Junk", 0>>                       \* uninitialised memory
Line(k, i) == <<k, i>>
Object(k) == [i \in 1 .. Length[k] |-> Line(k, i)]

(* Memory that nobody has initialised holds any text, or one that does not *)
(* end within the array.                                                   *)
Uninitialised == {<< >>, <<Junk>>, [i \in 1 .. ObjSize + 1 |-> Junk]}

(* The array that strcpy(content + response_bytes, buf) leaves.  Of a line *)
(* with a null character in it, a null character is what is left.          *)
Append_strcpy(array, bytes, line) ==
    SubSeq(array, 1, bytes) \o (IF line[1] \in Binary THEN <<NUL>> ELSE <<line, NUL>>)

(* What strcmp, strcpy and a reader of text see of an array.               *)
Text(cells) ==
    LET ends == {i \in DOMAIN cells : cells[i] = NUL} IN
    IF ends = {} THEN cells ELSE SubSeq(cells, 1, Min(ends) - 1)

(* strcpy leaves what lies behind the terminator.  Of a text that does not *)
(* fit, the array holds the first part.                                    *)
strcpy(cells, text) ==
    [i \in DOMAIN cells |->
        IF i <= Len(text) THEN text[i] ELSE IF i = Len(text) + 1 THEN NUL ELSE cells[i]]

Up == process = "up"
Key(w) == wants[conn[w]]
At(w, label) == Up /\ pc[w] = label
Goto(w, label) == pc' = [pc EXCEPT ![w] = label]
Step(w, from, to) == At(w, from) /\ Goto(w, to)

-----------------------------------------------------------------------------
(* Rio_writen to the client: a stalled client makes it wait, a closed      *)
(* connection (EPIPE) is tolerated, every other error ends the process.    *)
Write(c, cells) ==
    \/ client[c] = "open" /\ sent' = [sent EXCEPT ![c] = @ \o cells]
    \/ client[c] = "closed" /\ UNCHANGED sent

Exit == process' = "down" /\ UNCHANGED <<queueVars, fresh, peerVars, sent, workerVars, cacheVars>>

(* unix_error and exit: whatever the other threads are doing.              *)
Writing == {"reply", "forward"}

unix_error(w) ==
    \/ At(w, "read") /\ "bad request" \in Faults /\ Exit
    \/ At(w, "connect") /\ "origin refuses" \in Faults /\ Exit
    \/ Up /\ pc[w] \in Writing /\ client[conn[w]] = "reset" /\ Exit

(* What else may end the process: strcpy of an uninitialised buf that does *)
(* not end (SIGSEGV); a line written behind content, when forward_response *)
(* returns (the stack protector); a text copied out of the last pair.      *)
overrun(w) ==
    \/ At(w, "forward") /\ nread[w] = 0 /\ "origin resets" \in Faults /\ Exit
    \/ At(w, "close") /\ Len(content[w]) > ObjSize + 1 /\ Exit
    \/ At(w, "store") /\ slot[w] = Pairs /\ Len(Text(content[w])) > ObjSize /\ Exit

-----------------------------------------------------------------------------
(* main: Accept, then sbuf_insert, which waits for a slot.                 *)
Accept(c) ==
    /\ Up
    /\ c \in fresh
    /\ sbuf_insert(c)
    /\ fresh' = fresh \ {c}
    /\ UNCHANGED <<wants, client, sent, process, workerVars, cacheVars>>

(* thread: sbuf_remove.                                                    *)
Take(w) ==
    /\ Step(w, "idle", "read")
    /\ \E c \in Conns : sbuf_remove(c) /\ conn' = [conn EXCEPT ![w] = c]
    /\ UNCHANGED <<fresh, peerVars, process, sent, slot, fetchVars, cacheVars>>

read_request(w) ==
    /\ Step(w, "read", "find")
    /\ UNCHANGED <<outsideVars, sent, conn, slot, fetchVars, cacheVars>>

-----------------------------------------------------------------------------
(* cache_find, with the mutex held from P to V.                            *)

Valid == {i \in 1 .. Pairs : cache[i].valid}
Matching(k) == {i \in Valid : cache[i].request = k}

(* Mutant: the cache is searched without the mutex. *)
cache_find_PNoLock(w) ==
    /\ Step(w, "find", "search")
    /\ UNCHANGED <<outsideVars, sent, conn, slot, fetchVars, cacheVars>>

cache_find_P(w) ==
    /\ Step(w, "find", "search")
    /\ lock = None
    /\ lock' = w
    /\ UNCHANGED <<outsideVars, sent, conn, slot, fetchVars, cache, cur_time_stamp>>

cache_find_hit(w) ==
    /\ Step(w, "search", "reply")
    /\ Matching(Key(w)) # {}
    /\ slot' = [slot EXCEPT ![w] = Min(Matching(Key(w)))]
    /\ UNCHANGED <<outsideVars, sent, conn, fetchVars, cacheVars>>

(* Mutant: the mutex is released after a hit only. *)
cache_find_missNoV(w) ==
    /\ Step(w, "search", "connect")
    /\ Matching(Key(w)) = {}
    /\ UNCHANGED <<outsideVars, sent, conn, slot, fetchVars, cacheVars>>

cache_find_miss(w) ==
    /\ Step(w, "search", "connect")
    /\ Matching(Key(w)) = {}
    /\ lock' = None
    /\ UNCHANGED <<outsideVars, sent, conn, slot, fetchVars, cache, cur_time_stamp>>

(* The whole array is written, MAX_OBJECT_SIZE bytes of it, with what      *)
(* earlier objects left behind the text.                                   *)
cache_find_reply(w) ==
    /\ Step(w, "reply", "close")
    /\ Write(conn[w], cache[slot[w]].response)
    /\ cache' = [cache EXCEPT ![slot[w]].time_stamp = cur_time_stamp]
    /\ cur_time_stamp' = cur_time_stamp + 1
    /\ lock' = None
    /\ UNCHANGED <<outsideVars, conn, slot, fetchVars>>

-----------------------------------------------------------------------------
(* send_request and forward_response.                                      *)

send_request(w) ==
    /\ Step(w, "connect", "forward")
    /\ nread' = [nread EXCEPT ![w] = 0]
    /\ \E text \in Uninitialised : content' = [content EXCEPT ![w] = text]
    /\ UNCHANGED <<outsideVars, sent, conn, slot, cacheVars>>

(* Mutant: every line is appended. *)
forward_lineUnchecked(w) ==
    LET line == Line(Key(w), nread[w] + 1) IN
    /\ At(w, "forward")
    /\ nread[w] < Length[Key(w)]
    /\ Write(conn[w], <<line>>)
    /\ content' = [content EXCEPT ![w] = Append_strcpy(@, nread[w], line)]
    /\ nread' = [nread EXCEPT ![w] = @ + 1]
    /\ UNCHANGED <<outsideVars, pc, conn, slot, cacheVars>>

(* One turn of the loop.  A line that no longer fits is only forwarded.    *)
(* With one that just fits, the terminator goes to content[MAX_OBJECT_SIZE]*)
(* and harms nothing there.                                                *)
forward_line(w) ==
    LET line == Line(Key(w), nread[w] + 1) IN
    /\ At(w, "forward")
    /\ nread[w] < Length[Key(w)]
    /\ Write(conn[w], <<line>>)
    /\ content' = IF nread[w] + 1 <= ObjSize
                  THEN [content EXCEPT ![w] = Append_strcpy(@, nread[w], line)]
                  ELSE content
    /\ nread' = [nread EXCEPT ![w] = @ + 1]
    /\ UNCHANGED <<outsideVars, pc, conn, slot, cacheVars>>

Ends(w) == Goto(w, IF nread[w] <= ObjSize THEN "insert" ELSE "close")

OriginEnds(w) ==
    \/ nread[w] = Length[Key(w)]
    \/ nread[w] = 0 /\ "origin sends nothing" \in Faults
    \/ nread[w] > 0 /\ "origin closes early" \in Faults

(* Mutant: an object that does not fit is cached all the same. *)
forward_eofAny(w) ==
    /\ Step(w, "forward", "insert")
    /\ OriginEnds(w)
    /\ UNCHANGED <<outsideVars, sent, conn, slot, fetchVars, cacheVars>>

forward_eof(w) ==
    /\ At(w, "forward")
    /\ OriginEnds(w)
    /\ Ends(w)
    /\ UNCHANGED <<outsideVars, sent, conn, slot, fetchVars, cacheVars>>

(* Rio_readlineb returns -1, and buf holds the last line, or the beginning *)
(* of the next one over it.  Rio_writen takes the -1 for a size that write *)
(* refuses and for the result it expects, so nothing is sent; buf is       *)
(* appended to content once more.  The next read finds the end of the      *)
(* stream.  With the array full the test still passes (-1 is added), and   *)
(* buf goes behind it; where buf itself lies there, nothing changes.       *)
forward_reset(w) ==
    /\ "origin resets" \in Faults
    /\ At(w, "forward")
    /\ \/ /\ nread[w] <= ObjSize
          /\ \E buf \in {Junk} \cup (IF nread[w] = 0 THEN {NUL} ELSE {Line(Key(w), nread[w])}) :
                content' = [content EXCEPT ![w] = Append_strcpy(@, nread[w], buf)]
       \/ nread[w] >= ObjSize /\ UNCHANGED content
    /\ Ends(w)
    /\ UNCHANGED <<outsideVars, sent, conn, slot, nread, cacheVars>>

-----------------------------------------------------------------------------
(* cache_insert, with the mutex held from P to V.                          *)

cache_insert_P(w) ==
    /\ Step(w, "insert", "choose")
    /\ lock = None
    /\ lock' = w
    /\ UNCHANGED <<outsideVars, sent, conn, slot, fetchVars, cache, cur_time_stamp>>

(* The first pair in the array with the smallest time stamp.               *)
Oldest == Min({i \in 1 .. Pairs : \A j \in 1 .. Pairs :
                   cache[i].time_stamp <= cache[j].time_stamp})

(* Mutant: the newest pair is replaced (the comparison is turned round). *)
cache_insert_chooseNewest(w) ==
    /\ Step(w, "choose", "store")
    /\ slot' = [slot EXCEPT ![w] =
                   IF Valid # 1 .. Pairs THEN Min((1 .. Pairs) \ Valid)
                   ELSE CHOOSE i \in 1 .. Pairs :
                            \A j \in 1 .. Pairs : cache[j].time_stamp <= cache[i].time_stamp]
    /\ UNCHANGED <<outsideVars, sent, conn, fetchVars, cacheVars>>

cache_insert_choose(w) ==
    /\ Step(w, "choose", "store")
    /\ slot' = [slot EXCEPT ![w] =
                   IF Valid # 1 .. Pairs THEN Min((1 .. Pairs) \ Valid) ELSE Oldest]
    /\ UNCHANGED <<outsideVars, sent, conn, fetchVars, cacheVars>>

(* A text that runs out of response goes over the time stamp, which is     *)
(* written afterwards, and over the next pair's valid and request, which   *)
(* then matches nothing.                                                   *)
cache_insert_store(w) ==
    LET text == Text(content[w])
        stored == [cache EXCEPT ![slot[w]] =
                      [valid |-> TRUE, request |-> Key(w),
                       response |-> strcpy(@.response, text), time_stamp |-> cur_time_stamp]]
    IN  /\ Step(w, "store", "close")
        /\ cache' = IF Len(text) > ObjSize /\ slot[w] < Pairs
                    THEN [stored EXCEPT ![slot[w] + 1].valid = TRUE,
                                        ![slot[w] + 1].request = None]
                    ELSE stored
        /\ cur_time_stamp' = cur_time_stamp + 1
        /\ lock' = None
        /\ UNCHANGED <<outsideVars, sent, conn, slot, fetchVars>>

(* Close of both descriptors, the end of the turn of thread's loop, where  *)
(* content is gone.                                                        *)
Close(w) ==
    /\ Step(w, "close", "idle")
    /\ conn' = [conn EXCEPT ![w] = None]
    /\ content' = [content EXCEPT ![w] = << >>]
    /\ UNCHANGED <<outsideVars, sent, slot, nread, cacheVars>>

-----------------------------------------------------------------------------
(* The environment.                                                        *)

Stalls == Cardinality({c \in Conns : client[c] = "stalled"} \cup {w \in Workers : pc[w] = "stuck"})

ClientFault(c) ==
    /\ Up
    /\ client[c] = "open"
    /\ \E f \in {<<"client closes", "closed">>, <<"client resets", "reset">>} :
           f[1] \in Faults /\ client' = [client EXCEPT ![c] = f[2]]
    /\ UNCHANGED <<queueVars, fresh, wants, sent, process, workerVars, cacheVars>>

ClientStalls(c) ==
    /\ Up
    /\ "client stalls" \in Faults
    /\ Stalls < MaxStalls
    /\ client[c] = "open"
    /\ client' = [client EXCEPT ![c] = "stalled"]
    /\ UNCHANGED <<queueVars, fresh, wants, sent, process, workerVars, cacheVars>>

(* The origin accepts and never answers, as nop-server.py.                 *)
OriginStalls(w) ==
    /\ "origin stalls" \in Faults
    /\ Stalls < MaxStalls
    /\ Step(w, "forward", "stuck")
    /\ UNCHANGED <<outsideVars, sent, conn, slot, fetchVars, cacheVars>>

-----------------------------------------------------------------------------
Init ==
    /\ InitQueue
    /\ fresh = Conns
    /\ wants \in [Conns -> Keys]
    /\ client = [c \in Conns |-> "open"]
    /\ sent = [c \in Conns |-> << >>]
    /\ process = "up"
    /\ pc = [w \in Workers |-> "idle"]
    /\ conn = [w \in Workers |-> None]
    /\ slot = [w \in Workers |-> 1]
    /\ nread = [w \in Workers |-> 0]
    /\ content = [w \in Workers |-> << >>]
    /\ cache = [i \in 1 .. Pairs |-> [valid |-> FALSE, request |-> None,
                                      response |-> [n \in 1 .. ObjSize |-> NUL],
                                      time_stamp |-> 0]]
    /\ lock = None
    /\ cur_time_stamp = 0

cache_find(w) ==
    cache_find_P(w) \/ cache_find_hit(w) \/ cache_find_miss(w) \/ cache_find_reply(w)

forward_response(w) == forward_line(w) \/ forward_eof(w) \/ forward_reset(w)

cache_insert(w) == cache_insert_P(w) \/ cache_insert_choose(w) \/ cache_insert_store(w)

thread(w) ==
    \/ Take(w)
    \/ read_request(w)
    \/ cache_find(w)
    \/ send_request(w)
    \/ forward_response(w)
    \/ cache_insert(w)
    \/ Close(w)
    \/ unix_error(w)
    \/ overrun(w)

Served == Conns \ (fresh \cup Range(queue) \cup {conn[w] : w \in Workers})

(* Nothing more happens: the process ended, everyone is served, or the     *)
(* peers that stall keep all the rest waiting.                             *)
Quiet ==
    /\ ~Up \/ Served = Conns \/ Stalls > 0
    /\ UNCHANGED vars

Next ==
    \/ \E c \in Conns : Accept(c) \/ ClientFault(c) \/ ClientStalls(c)
    \/ \E w \in Workers : thread(w) \/ OriginStalls(w)
    \/ Quiet

Spec == Init /\ [][Next]_vars

(* Threads keep running.  The mutex is a semaphore without an order, but   *)
(* each of the finitely many connections takes it at most twice.           *)
Fairness ==
    /\ WF_vars(\E c \in Conns : Accept(c))
    /\ \A w \in Workers : WF_vars(thread(w))

FairSpec == Spec /\ Fairness

-----------------------------------------------------------------------------
(* Properties.                                                             *)

Cells == {NUL, Junk} \cup UNION {Range(Object(k)) : k \in Keys}

(* How far the two arrays are exceeded.  As long as lines come in, content *)
(* is exceeded by the terminator only (but what it held before it was      *)
(* written may run on behind it); by a line only after a reset.  A pair    *)
(* loses its tag only to the text of an origin that was reset or sent      *)
(* nothing, and never the first pair.                                      *)
ArraysExceeded ==
    /\ \A w \in Workers :
        /\ Len(content[w]) <= ObjSize + 2
        /\ Len(content[w]) = ObjSize + 2 =>
              "origin resets" \in Faults /\ pc[w] \in {"insert", "choose", "store", "close"}
        /\ pc[w] = "forward" /\ nread[w] > 0 /\ Len(content[w]) > ObjSize =>
              content[w][ObjSize + 1] = NUL
    /\ \A i \in Valid : cache[i].request = None =>
        i > 1 /\ Faults \cap {"origin resets", "origin sends nothing"} # {}

ProxyTypeOK ==
    /\ queue \in Seq(Conns) /\ Len(queue) <= Size
    /\ taken \in SUBSET Conns /\ fresh \in SUBSET Conns
    /\ wants \in [Conns -> Keys]
    /\ client \in [Conns -> {"open", "closed", "reset", "stalled"}]
    /\ sent \in [Conns -> Seq(Cells)]
    /\ process \in {"up", "down"}
    /\ pc \in [Workers -> {"idle", "read", "find", "search", "reply", "connect",
                           "forward", "stuck", "insert", "choose", "store", "close"}]
    /\ conn \in [Workers -> Conns \cup {None}]
    /\ slot \in [Workers -> 1 .. Pairs]
    /\ nread \in [Workers -> Nat]
    /\ content \in [Workers -> Seq(Cells)]
    /\ cache \in [1 .. Pairs -> [valid : BOOLEAN, request : Keys \cup {None},
                                 response : [1 .. ObjSize -> Cells], time_stamp : Nat]]
    /\ lock \in Workers \cup {None}
    /\ cur_time_stamp \in Nat
    /\ ArraysExceeded

(* "The proxy caches objects returned by the end servers" (readme.md): the *)
(* text under a tag is the whole object that tag names, whatever the pair  *)
(* held before and whoever fetched it.                                     *)
CacheFaithful == \A i \in Valid : Text(cache[i].response) = Object(cache[i].request)

(* doit: the text a client that stayed was sent is the object it asked     *)
(* for, from the cache or from the origin, however the other workers       *)
(* replaced pairs between the search and the reply.  (Behind that text a   *)
(* hit sends the rest of the array, proxy.c:165-166, whatever is there.)   *)
RepliesRight ==
    \A c \in Served : Up /\ client[c] = "open" => Text(sent[c]) = Object(wants[c])

(* The pairs in use, most recently used first.                             *)
Recent ==
    [n \in 1 .. Cardinality(Valid) |->
        LET i == CHOOSE i \in Valid :
                     Cardinality({j \in Valid : cache[j].time_stamp > cache[i].time_stamp}) = n - 1
        IN  <<cache[i].request, Text(cache[i].response)>>]

(* Time stamps, first free pair, smallest stamp: under every interleaving  *)
(* of the workers the cache is a list in order of use, of which only the   *)
(* least recently used object is dropped, and only when it is full.        *)
LRU == INSTANCE RecencyList WITH
           recent <- Recent, Capacity <- Pairs,
           Entries <- Keys \X BoundedSeq(Cells \ {NUL}, ObjSize)
ImplementsLRU == LRU!SpecRecent

(* Origins that never answer hold up their own clients only: everyone else *)
(* is served while a worker is left (driver.sh's concurrency test).  Not   *)
(* so with a client that stops reading: during a hit it is written to with *)
(* the cache's mutex held, and then nobody may ever be served.             *)
Stalled(c) == \E w \in Workers : conn[w] = c /\ pc[w] = "stuck"

OthersServed ==
    \A c \in Conns : <>(\/ c \in Served \/ Stalled(c) \/ ~Up
                       \/ \E d \in Conns : client[d] = "stalled")
=============================================================================
