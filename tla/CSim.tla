-------------------------------- MODULE CSim --------------------------------
(***************************************************************************)
(* The cache simulator of the cache lab (Cache/csim.c): for every line of  *)
(* a memory trace it looks the address up in a set-associative cache with  *)
(* least-recently-used replacement and counts hits, misses and evictions.  *)
(* Recency is kept as a time stamp in each line, drawn from one counter    *)
(* for the whole cache; a modify is a load and a store, looked up twice.   *)
(***************************************************************************)
EXTENDS Integers, Sequences, FiniteSets

CONSTANTS
    s,              \* number of set index bits
    E,              \* lines in each set
    b,              \* number of block offset bits
    IntWidth,       \* bits of an int, which holds a tag (32 in the code)
    TraceLines,     \* lines a trace may have: [op |-> , addr |-> ]
    MaxLines        \* bound of the model on the length of the trace

ASSUME GeometryAssumption == s \in Nat \ {0} /\ E \in Nat \ {0} /\ b \in Nat \ {0}
ASSUME IntWidthAssumption == IntWidth \in Nat \ {0}
ASSUME PowersAssumption == 2 ^ s \in Nat \ {0} /\ 2 ^ b \in Nat \ {0}
ASSUME AddressAssumption == \A line \in TraceLines : line.addr \in Nat

VARIABLES
    cache,          \* for each set, its lines
    curTimeStamp,   \* the next time stamp
    hit, miss, eviction,
    read,           \* the lines read so far
    exited          \* the program ended at a line it refuses

csimVars == <<cache, curTimeStamp, hit, miss, eviction, read, exited>>

Sets  == 0 .. 2 ^ s - 1
Lines == 1 .. E

FreeLine == [valid |-> FALSE, tag |-> 0, timeStamp |-> 0]

matchSetAddr(addr) == (addr \div 2 ^ b) % 2 ^ s
matchTag(addr)     == (addr \div 2 ^ (b + s)) % 2 ^ IntWidth

FirstOf(S) == CHOOSE i \in S : \A j \in S : i <= j

(* Mutant: valid bits are not looked at, so a free line can match.         *)
MatchingFree(set, tag) == {i \in Lines : set[i].tag = tag}

Matching(set, tag) == {i \in Lines : set[i].valid /\ set[i].tag = tag}
Unused(set)        == {i \in Lines : ~ set[i].valid}

(* The first line with the smallest time stamp.                            *)
Oldest(set) ==
    FirstOf({i \in Lines : \A j \in Lines : set[i].timeStamp <= set[j].timeStamp})

(* Mutant: a lookup that hits leaves the time stamp alone.                 *)
StampedOnFillOnly(st, i, tag) ==
    IF st.set[i].valid /\ st.set[i].tag = tag THEN st
    ELSE [st EXCEPT !.set[i] = [valid |-> TRUE, tag |-> tag, timeStamp |-> st.clock],
                    !.clock = @ + 1]

(* The set after a use of line i, and the clock.  st is the set, the       *)
(* clock and the counts of this access.                                    *)
Stamped(st, i, tag) ==
    [st EXCEPT !.set[i] = [valid |-> TRUE, tag |-> tag, timeStamp |-> st.clock],
               !.clock = @ + 1]

(* One lookup.  A hit of a modify's first lookup also ends its second.     *)
LookUp(st, tag) ==
    LET hits == Matching(st.set, tag)
        free == Unused(st.set)
        missed == [st EXCEPT !.miss = @ + 1]
    IN  CASE hits # {} -> [Stamped(st, FirstOf(hits), tag) EXCEPT !.hit = @ + 1]
          [] hits = {} /\ st.hit > 0 -> st
          [] hits = {} /\ st.hit = 0 /\ free # {} ->
                 Stamped(missed, FirstOf(free), tag)
          [] OTHER ->
                 [Stamped(missed, Oldest(st.set), tag) EXCEPT !.evict = @ + 1]

(* lruUpdateSet *)
Updated(set, tag, times) ==
    LET start == [set |-> set, clock |-> curTimeStamp,
                  hit |-> 0, miss |-> 0, evict |-> 0]
        once == LookUp(start, tag)
    IN  IF times = 1 THEN once ELSE LookUp(once, tag)

EmptyCache == [x \in Sets |-> [i \in Lines |-> FreeLine]]

Init ==
    /\ cache = EmptyCache
    /\ curTimeStamp = 0
    /\ hit = 0 /\ miss = 0 /\ eviction = 0
    /\ read = << >>
    /\ exited = FALSE

Times(op) == IF op = "M" THEN 2 ELSE 1

accessCache(op, addr) ==
    LET x  == matchSetAddr(addr)
        st == Updated(cache[x], matchTag(addr), Times(op))
    IN  /\ op \in {"L", "M", "S"}
        /\ cache'        = [cache EXCEPT ![x] = st.set]
        /\ curTimeStamp' = st.clock
        /\ hit'      = hit + st.hit
        /\ miss'     = miss + st.miss
        /\ eviction' = eviction + st.evict
        /\ UNCHANGED exited

(* Any other operation ends the program.                                   *)
InvalidOp(op) ==
    /\ op \notin {"I", "L", "M", "S"}
    /\ exited' = TRUE
    /\ UNCHANGED <<cache, curTimeStamp, hit, miss, eviction>>

(* Instruction fetches are not looked up.                                  *)
Instruction(op) ==
    /\ op = "I"
    /\ UNCHANGED <<cache, curTimeStamp, hit, miss, eviction, exited>>

(* processFile reads the next line. *)
ReadLine(line) ==
    /\ ~ exited
    /\ Len(read) < MaxLines
    /\ read' = Append(read, line)
    /\ \/ accessCache(line.op, line.addr)
       \/ Instruction(line.op)
       \/ InvalidOp(line.op)

Next == \E line \in TraceLines : ReadLine(line)

Spec == Init /\ [][Next]_csimVars

-----------------------------------------------------------------------------
ValidLines(x) == {i \in Lines : cache[x][i].valid}

(* The tags of a set, most recently used first.                            *)
Recent(x) ==
    LET rank(i) == Cardinality({j \in ValidLines(x) :
                       cache[x][j].timeStamp >= cache[x][i].timeStamp})
    IN  [k \in 1 .. Cardinality(ValidLines(x)) |->
            cache[x][CHOOSE i \in ValidLines(x) : rank(i) = k].tag]

Tags == {matchTag(line.addr) : line \in TraceLines}

LRU == INSTANCE RecencyStore

(* A line that accesses set x uses its block there and moves it to the     *)
(* front; every other line leaves the set as it is.                        *)
StoreStep(x, line) ==
    IF line.op \in {"L", "M", "S"} /\ matchSetAddr(line.addr) = x
    THEN /\ LRU!Used(Recent(x), Recent(x)', Tags, E) \/ UNCHANGED Recent(x)
         /\ Recent(x)'[1] = matchTag(line.addr)
    ELSE UNCHANGED Recent(x)

(* Each set is a store of its own.                                         *)
StoresEmpty == \A x \in Sets : Recent(x) = << >>
StoresUsed  == \A x \in Sets : StoreStep(x, read'[Len(read')])

(* The accesses of the trace in order, a modify being two of them.         *)
Accesses ==
    LET acc[n \in 0 .. Len(read)] ==
            IF n = 0 THEN << >>
            ELSE LET line == read[n]
                     a == [set |-> matchSetAddr(line.addr), tag |-> matchTag(line.addr)]
                 IN  acc[n - 1] \o CASE line.op \in {"L", "S"} -> <<a>>
                                     [] line.op = "M" -> <<a, a>>
                                     [] OTHER -> << >>
    IN  acc[Len(read)]

(* An access finds its block in a cache of E lines exactly when fewer than *)
(* E other blocks of the set were used since the block's last use.         *)
ReusedInTime(acc, n) ==
    \E m \in 1 .. n - 1 :
        /\ acc[m] = acc[n]
        /\ Cardinality({acc[k] : k \in {j \in m .. n - 1 :
               acc[j].set = acc[n].set}} \ {acc[n]}) < E

(* Hits and misses are those that the trace's reuse distances say,         *)
(* whatever lines the blocks were kept in.                                 *)
CountsAreReuseDistances ==
    LET acc == Accesses
    IN  /\ hit = Cardinality({n \in DOMAIN acc : ReusedInTime(acc, n)})
        /\ hit + miss = Len(acc)
=============================================================================
