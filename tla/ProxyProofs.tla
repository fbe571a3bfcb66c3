----------------------------- MODULE ProxyProofs -----------------------------
(***************************************************************************)
(* Proofs about the proxy's workers and their object cache, for every      *)
(* number of workers, pairs, connections and objects.                      *)
(***************************************************************************)
EXTENDS Proxy, RecencyProofs

Labels == {"idle", "read", "find", "search", "reply", "connect",
           "forward", "stuck", "insert", "choose", "store", "close"}
Asking  == {"read", "find", "search", "reply", "connect"}
Fetched == {"insert", "choose", "store"}
InMutex == {"search", "reply", "choose", "store"}
ClientStates == {"open", "closed", "reset", "stalled"}
Pair == [valid : BOOLEAN, request : Keys \cup {None},
         response : [1 .. ObjSize -> Cells], time_stamp : Nat]

(* Only these make content hold a text that is longer than its array.      *)
Spilling == Faults \cap {"origin resets", "origin sends nothing"} # {}

Ending == Fetched \cup {"close"}
Fits(array) == Len(array) > ObjSize => array[ObjSize + 1] = NUL

(* The two halves of ArraysExceeded.                                       *)
ContentExceeded ==
    \A w \in Workers :
        /\ Len(content[w]) <= ObjSize + 2
        /\ Len(content[w]) = ObjSize + 2 =>
              "origin resets" \in Faults /\ pc[w] \in Ending
        /\ pc[w] = "forward" /\ nread[w] > 0 => Fits(content[w])

TagsLost == \A i \in Valid : cache[i].request = None => i > 1 /\ Spilling

(* A worker that is not idle has a connection, and while it forwards, what *)
(* it counts is in content or no longer fits.  What it is about to store   *)
(* fits, unless the faults at hand make it spill.                          *)
Busy ==
    \A w \in Workers :
        /\ pc[w] # "idle" => conn[w] \in Conns
        /\ pc[w] = "forward" =>
             /\ nread[w] <= Length[Key(w)]
             /\ nread[w] <= Len(content[w]) \/ nread[w] > ObjSize
        /\ pc[w] \in Fetched => Fits(content[w]) \/ Spilling

TypeInv == ProxyTypeOK /\ Busy

-----------------------------------------------------------------------------
(* Cells and texts.                                                        *)

LEMMA SmallestIs ==
    ASSUME NEW S \in SUBSET Nat, S # {}
    PROVE  Min(S) \in S /\ \A j \in S : Min(S) <= j
<1>1. PICK m \in S : \A y \in S : ~ (<<y, m>> \in OpToRel(<, Nat))
  BY NatLessThanWellFounded, WFMin
<1>2. \A y \in S : ~ (y < m)
  BY <1>1 DEF OpToRel
<1>3. \A y \in S : m <= y
  BY <1>2
<1> QED
  BY <1>3 DEF Min

TextCells == Cells \ {NUL}

LEMMA ObjectIsText ==
    ASSUME NEW k \in Keys
    PROVE  /\ Object(k) \in Seq(TextCells)
           /\ Len(Object(k)) = Length[k] /\ Length[k] \in Nat \ {0}
           /\ \A i \in 1 .. Length[k] : Object(k)[i] = Line(k, i)
<1>1. Length[k] \in Nat \ {0}
  BY LengthAssumption
<1>2. ASSUME NEW i \in 1 .. Length[k]
      PROVE  Line(k, i) \in TextCells
  <2>1. Line(k, i) # NUL
    BY DEF Line, NUL
  <2>2. Line(k, i) \in Range(Object(k))
    BY DEF Range, Object
  <2> QED
    BY <2>1, <2>2 DEF TextCells, Cells
<1>3. Object(k) \in [1 .. Length[k] -> TextCells]
  BY <1>2 DEF Object
<1> QED
  BY <1>1, <1>3, SeqDef DEF Object

LEMMA CellFacts ==
    /\ NUL \in Cells /\ Junk \in Cells
    /\ \A k \in Keys : \A i \in 1 .. Length[k] : Line(k, i) \in Cells
<1>1. ASSUME NEW k \in Keys, NEW i \in 1 .. Length[k]
      PROVE  Line(k, i) \in Range(Object(k))
  BY DEF Range, Object
<1> QED
  BY <1>1 DEF Cells

(* An array of cells is a sequence.                                        *)
LEMMA ArrayIsSeq ==
    ASSUME NEW a \in [1 .. ObjSize -> Cells]
    PROVE  a \in Seq(Cells) /\ Len(a) = ObjSize
  BY SizesAssumption, SeqDef

(* The text in an array is what lies before its first null character.      *)
LEMMA TextIsPrefix ==
    ASSUME NEW a \in Seq(Cells), NEW n \in 0 .. Len(a),
           \A i \in 1 .. n : a[i] # NUL,
           n = Len(a) \/ a[n + 1] = NUL
    PROVE  Text(a) = SubSeq(a, 1, n)
<1> DEFINE ends == {i \in DOMAIN a : a[i] = NUL}
<1>1. Len(a) \in Nat /\ DOMAIN a = 1 .. Len(a)
  BY LenProperties
<1>2. CASE n = Len(a)
  <2>1. ends = {}
    BY <1>1, <1>2
  <2> QED
    BY <1>2, <2>1, SubSeqFull DEF Text
<1>3. CASE n # Len(a)
  <2>a. ends = {i \in 1 .. Len(a) : a[i] = NUL}
    BY <1>1
  <2>b. n \in Nat /\ n + 1 \in 1 .. Len(a)
    <3>1. Len(a) \in Nat /\ n \in 0 .. Len(a)
      BY <1>1
    <3> QED
      BY <1>3, <3>1
  <2>1. n + 1 \in ends /\ \A i \in ends : n + 1 <= i
    BY <1>3, <2>a, <2>b
  <2>2. ends \in SUBSET Nat
    BY <2>a
  <2> HIDE DEF ends
  <2>3. Min(ends) \in ends /\ Min(ends) <= n + 1 /\ Min(ends) \in Nat
    BY <2>1, <2>2, SmallestIs
  <2>4. Min(ends) = n + 1 /\ Min(ends) - 1 = n
    BY <2>1, <2>3
  <2> QED
    BY <2>1, <2>4 DEF Text, ends
<1> QED
  BY <1>2, <1>3

LEMMA TextType ==
    ASSUME NEW a \in Seq(Cells)
    PROVE  /\ Text(a) \in Seq(Cells) /\ Len(Text(a)) <= Len(a)
           /\ \A i \in 1 .. Len(Text(a)) : Text(a)[i] = a[i] /\ a[i] # NUL
<1> DEFINE ends == {i \in DOMAIN a : a[i] = NUL}
<1>1. Len(a) \in Nat /\ DOMAIN a = 1 .. Len(a) /\ \A i \in 1 .. Len(a) : a[i] \in Cells
  BY LenProperties, ElementOfSeq
<1>2. CASE ends = {}
  BY <1>1, <1>2 DEF Text
<1>3. CASE ends # {}
  <2>1. ends \in SUBSET Nat
    BY <1>1
  <2>2. Text(a) = SubSeq(a, 1, Min(ends) - 1)
    BY <1>3 DEF Text
  <2>3. Min(ends) \in 1 .. Len(a)
    BY <1>1, <1>3, <2>1, SmallestIs
  <2>a. \A i \in 1 .. Len(a) : a[i] = NUL => Min(ends) <= i
    BY <1>1, <1>3, <2>1, SmallestIs
  <2> HIDE DEF ends
  <2>4. PICK m \in 0 .. Len(a) - 1 : m = Min(ends) - 1
    BY <1>1, <2>3
  <2>5. \A i \in 1 .. m : a[i] \in Cells
    BY <1>1, <2>4
  <2>6. /\ SubSeq(a, 1, m) \in Seq(Cells)
        /\ Len(SubSeq(a, 1, m)) = IF 1 <= m THEN m - 1 + 1 ELSE 0
        /\ \A i \in 1 .. m - 1 + 1 : SubSeq(a, 1, m)[i] = a[1 + i - 1]
    BY <2>4, <2>5, SubSeqProperties
  <2>7. Len(SubSeq(a, 1, m)) = m /\ \A i \in 1 .. m : SubSeq(a, 1, m)[i] = a[i]
    BY <1>1, <2>4, <2>6
  <2>8. \A i \in 1 .. m : a[i] # NUL
    BY <1>1, <2>3, <2>a, <2>4
  <2> QED
    BY <1>1, <2>2, <2>4, <2>6, <2>7, <2>8
<1> QED
  BY <1>2, <1>3

LEMMA TextHasNoNull ==
    ASSUME NEW a \in Seq(Cells)
    PROVE  Text(a) \in Seq(TextCells)
<1>1. /\ Text(a) \in Seq(Cells)
      /\ \A i \in 1 .. Len(Text(a)) : Text(a)[i] # NUL
  BY TextType
<1>2. Len(Text(a)) \in Nat /\ Text(a) \in [1 .. Len(Text(a)) -> Cells]
  BY <1>1, LenProperties
<1>3. Text(a) \in [1 .. Len(Text(a)) -> TextCells]
  BY <1>1, <1>2 DEF TextCells
<1> QED
  BY <1>2, <1>3, SeqDef

(* What was copied is what is read, whatever the array held before.        *)
LEMMA CopiedText ==
    ASSUME NEW a \in [1 .. ObjSize -> Cells], NEW text \in Seq(Cells)
    PROVE  /\ strcpy(a, text) \in [1 .. ObjSize -> Cells]
           /\ text \in Seq(TextCells) /\ Len(text) <= ObjSize => Text(strcpy(a, text)) = text
<1>1. Len(text) \in Nat /\ \A i \in 1 .. Len(text) : text[i] \in Cells
  BY LenProperties, ElementOfSeq
<1>2. strcpy(a, text) \in [1 .. ObjSize -> Cells]
  BY <1>1, CellFacts, SizesAssumption DEF strcpy
<1>3. ASSUME text \in Seq(TextCells), Len(text) <= ObjSize
      PROVE  Text(strcpy(a, text)) = text
  <2> DEFINE b == strcpy(a, text)
             n == Len(text)
  <2>1. b \in Seq(Cells) /\ Len(b) = ObjSize /\ n \in 0 .. ObjSize
    BY <1>1, <1>2, <1>3, ArrayIsSeq, SizesAssumption
  <2>2. \A i \in 1 .. n : b[i] = text[i] /\ text[i] # NUL
    BY <1>1, <1>3, ElementOfSeq, SizesAssumption DEF strcpy, TextCells
  <2>3. n = ObjSize \/ b[n + 1] = NUL
    BY <1>1, <1>3, SizesAssumption DEF strcpy
  <2> HIDE DEF b, n
  <2>4. Text(b) = SubSeq(b, 1, n)
    BY <2>1, <2>2, <2>3, TextIsPrefix
  <2>5. /\ SubSeq(b, 1, n) \in Seq(Cells)
        /\ Len(SubSeq(b, 1, n)) = IF 1 <= n THEN n - 1 + 1 ELSE 0
        /\ \A i \in 1 .. n - 1 + 1 : SubSeq(b, 1, n)[i] = b[1 + i - 1]
    <3>1. \A i \in 1 .. n : b[i] \in Cells
      BY <2>1, ElementOfSeq, SizesAssumption
    <3> QED
      BY <2>1, <3>1, SubSeqProperties, SizesAssumption
  <2>6. Len(SubSeq(b, 1, n)) = n /\ \A i \in 1 .. n : SubSeq(b, 1, n)[i] = b[i]
    BY <2>1, <2>5, SizesAssumption
  <2>7. SubSeq(b, 1, n) = text
    BY <2>2, <2>5, <2>6, SeqEqual DEF n
  <2> QED
    BY <2>4, <2>7 DEF b
<1> QED
  BY <1>2, <1>3

LEMMA TextOfText ==
    ASSUME NEW a \in Seq(TextCells)
    PROVE  Text(a) = a
<1>1. Len(a) \in Nat /\ DOMAIN a = 1 .. Len(a) /\ \A i \in 1 .. Len(a) : a[i] # NUL
  BY LenProperties, ElementOfSeq DEF TextCells
<1> QED
  BY <1>1 DEF Text

(* A text that fits its array.                                             *)
LEMMA FittingText ==
    ASSUME NEW a \in Seq(Cells), Fits(a)
    PROVE  Len(Text(a)) <= ObjSize
<1>1. /\ Len(a) \in Nat /\ Len(Text(a)) \in Nat /\ Len(Text(a)) <= Len(a)
      /\ \A i \in 1 .. Len(Text(a)) : a[i] # NUL
  BY TextType, LenProperties
<1>2. ASSUME Len(Text(a)) > ObjSize
      PROVE  FALSE
  <2>1. ObjSize + 1 \in 1 .. Len(Text(a)) /\ Len(a) > ObjSize
    BY <1>1, <1>2, SizesAssumption
  <2>2. a[ObjSize + 1] = NUL
    BY <1>1, <2>1, SizesAssumption DEF Fits
  <2> QED
    BY <1>1, <2>1, <2>2
<1> QED
  BY <1>1, <1>2, SizesAssumption

(* What lies before the last cell, and the text it ends.                   *)
LEMMA BeforeLast ==
    ASSUME NEW a \in Seq(Cells), NEW cell \in Cells
    PROVE  /\ Append(a, cell) \in Seq(Cells) /\ SubSeq(Append(a, cell), 1, Len(a)) = a
           /\ a \in Seq(TextCells) /\ cell = NUL => Text(Append(a, cell)) = a
<1> DEFINE b == Append(a, cell)
           n == Len(a)
<1>1. /\ b \in Seq(Cells) /\ Len(b) = n + 1 /\ n \in Nat
      /\ b[n + 1] = cell /\ \A i \in 1 .. n : b[i] = a[i] /\ a[i] \in Cells
  BY AppendProperties, LenProperties, ElementOfSeq
<1> HIDE DEF b
<1>2. SubSeq(b, 1, n) = a
  <2>1. /\ SubSeq(b, 1, n) \in Seq(Cells)
        /\ Len(SubSeq(b, 1, n)) = IF 1 <= n THEN n - 1 + 1 ELSE 0
        /\ \A i \in 1 .. n - 1 + 1 : SubSeq(b, 1, n)[i] = b[1 + i - 1]
    BY <1>1, SubSeqProperties
  <2>2. Len(SubSeq(b, 1, n)) = n /\ \A i \in 1 .. n : SubSeq(b, 1, n)[i] = a[i]
    BY <1>1, <2>1
  <2> QED
    BY <2>1, <2>2, SeqEqual
<1>3. ASSUME a \in Seq(TextCells), cell = NUL
      PROVE  Text(b) = a
  <2>1. \A i \in 1 .. n : b[i] # NUL
    BY <1>1, <1>3, ElementOfSeq DEF TextCells
  <2>2. n \in 0 .. Len(b)
    BY <1>1
  <2> QED
    BY <1>1, <1>2, <1>3, <2>1, <2>2, TextIsPrefix
<1> QED
  BY <1>1, <1>2, <1>3 DEF b

(* A line and its terminator appended behind the first n.                  *)
LEMMA AppendedLine ==
    ASSUME NEW a \in Seq(Cells), NEW n \in 0 .. Len(a), NEW line \in Cells
    PROVE  /\ Append_strcpy(a, n, line) \in Seq(Cells)
           /\ \/ Len(Append_strcpy(a, n, line)) = n + 1
              \/ /\ Len(Append_strcpy(a, n, line)) = n + 2
                 /\ Append_strcpy(a, n, line)[n + 2] = NUL
<1>1. Len(a) \in Nat /\ \A i \in 1 .. n : a[i] \in Cells
  BY LenProperties, ElementOfSeq
<1>2. /\ SubSeq(a, 1, n) \in Seq(Cells)
      /\ Len(SubSeq(a, 1, n)) = n
  BY <1>1, SubSeqProperties
<1> DEFINE s == SubSeq(a, 1, n)
<1> HIDE DEF s
<1>3. CASE line[1] \in Binary
  <2>1. Append_strcpy(a, n, line) = s \o <<NUL>>
    BY <1>3 DEF Append_strcpy, s
  <2>2. <<NUL>> \in Seq(Cells) /\ Len(<<NUL>>) = 1
    <3>1. NUL \in Cells
      BY CellFacts
    <3> HIDE DEF NUL
    <3> QED
      BY <3>1
  <2> QED
    BY <1>1, <1>2, <2>1, <2>2, ConcatProperties DEF s
<1>4. CASE line[1] \notin Binary
  <2>1. Append_strcpy(a, n, line) = s \o <<line, NUL>>
    BY <1>4 DEF Append_strcpy, s
  <2>2. <<line, NUL>> \in Seq(Cells) /\ Len(<<line, NUL>>) = 2 /\ <<line, NUL>>[2] = NUL
    <3>1. NUL \in Cells
      BY CellFacts
    <3> HIDE DEF NUL
    <3> QED
      BY <3>1
  <2> HIDE DEF NUL
  <2>3. /\ s \in Seq(Cells) /\ Len(s) = n /\ n \in Nat
        /\ n + 2 \in 1 .. Len(s) + Len(<<line, NUL>>) /\ n + 2 > Len(s) /\ (n + 2) - Len(s) = 2
    BY <1>1, <1>2, <2>2 DEF s
  <2> QED
    BY <2>1, <2>2, <2>3, ConcatProperties
<1> QED
  BY <1>3, <1>4

-----------------------------------------------------------------------------
(* Type correctness.                                                       *)

LEMMA Moves ==
    ASSUME TypeInv, NEW w \in Workers, NEW from, NEW to \in Labels, Step(w, from, to)
    PROVE  /\ pc[w] = from /\ Up
           /\ pc' \in [Workers -> Labels]
           /\ pc'[w] = to
           /\ \A u \in Workers \ {w} : pc'[u] = pc[u]
  BY DEF TypeInv, ProxyTypeOK, Labels, Step, At, Goto

(* A step of worker w that keeps to the control flow.                      *)
LEMMA BusyKept ==
    ASSUME TypeInv, NEW w \in Workers, NEW to \in Labels \ {"idle", "forward"},
           pc'[w] = to, \A u \in Workers \ {w} : pc'[u] = pc[u],
           conn[w] \in Conns, conn' = conn, wants' = wants,
           UNCHANGED fetchVars,
           to \in Fetched => Fits(content[w]) \/ Spilling
    PROVE  Busy'
  BY DEF TypeInv, Busy, Key, fetchVars

LEMMA Halves ==
    /\ ArraysExceeded <=> ContentExceeded /\ TagsLost
    /\ ArraysExceeded' <=> ContentExceeded' /\ TagsLost'
<1>1. ArraysExceeded <=> ContentExceeded /\ TagsLost
  BY DEF ArraysExceeded, ContentExceeded, TagsLost, Ending, Fetched, Fits, Spilling
<1>2. ArraysExceeded' <=> ContentExceeded' /\ TagsLost'
  BY DEF ArraysExceeded, ContentExceeded, TagsLost, Ending, Fetched, Fits, Spilling
<1> QED
  BY <1>1, <1>2

LEMMA TagsKept ==
    ASSUME TypeInv,
           \A i \in 1 .. Pairs : /\ cache'[i].valid = cache[i].valid
                                 /\ cache'[i].request = cache[i].request
    PROVE  TagsLost'
  BY Halves DEF TypeInv, ProxyTypeOK, TagsLost, Valid

LEMMA ContentKept ==
    ASSUME TypeInv, NEW w \in Workers, NEW from, NEW to,
           pc[w] = from, pc'[w] = to, \A u \in Workers \ {w} : pc'[u] = pc[u],
           to # "forward", from \in Ending => to \in Ending, UNCHANGED fetchVars
    PROVE  ContentExceeded'
  BY Halves DEF TypeInv, ProxyTypeOK, ContentExceeded, fetchVars

LEMMA AcceptTypes ==
    ASSUME TypeInv, NEW c \in Conns, Accept(c)
    PROVE  TypeInv'
<1>1. queue' \in Seq(Conns) /\ Len(queue') <= Size
  <2>1. queue' = Append(queue, c) /\ Len(queue) < Size /\ queue \in Seq(Conns)
    BY DEF Accept, sbuf_insert, TypeInv, ProxyTypeOK
  <2>2. Len(queue) \in Nat /\ Size \in Nat /\ Len(queue') = Len(queue) + 1 /\ queue' \in Seq(Conns)
    BY <2>1, LenProperties, AppendProperties, SizeAssumption
  <2> QED
    BY <2>1, <2>2
<1>a. ArraysExceeded'
  BY DEF Accept, TypeInv, ProxyTypeOK, ArraysExceeded, Valid, workerVars, fetchVars, cacheVars
<1>2. ProxyTypeOK'
  BY <1>1, <1>a DEF Accept, sbuf_insert, TypeInv, ProxyTypeOK, Labels, workerVars, fetchVars, cacheVars
<1>3. Busy'
  BY DEF Accept, TypeInv, Busy, Key, workerVars, fetchVars
<1> QED
  BY <1>2, <1>3 DEF TypeInv

LEMMA TakeTypes ==
    ASSUME TypeInv, NEW w \in Workers, Take(w)
    PROVE  TypeInv'
<1>1. Step(w, "idle", "read") /\ "read" \in Labels
  BY DEF Take, Labels
<1>2. PICK c \in Conns : sbuf_remove(c) /\ conn' = [conn EXCEPT ![w] = c]
  BY DEF Take
<1>3. queue' \in Seq(Conns) /\ Len(queue') <= Size
  <2>1. queue' = Tail(queue) /\ Len(queue) <= Size /\ queue \in Seq(Conns) /\ queue # << >>
    BY <1>2 DEF sbuf_remove, TypeInv, ProxyTypeOK
  <2>2. /\ Len(queue) \in Nat /\ Size \in Nat
        /\ Len(queue') = Len(queue) - 1 /\ queue' \in Seq(Conns)
    BY <2>1, LenProperties, HeadTailProperties, SizeAssumption
  <2> QED
    BY <2>1, <2>2
<1>4. taken' \in SUBSET Conns
  BY <1>2 DEF sbuf_remove, TypeInv, ProxyTypeOK
<1>5. conn' \in [Workers -> Conns \cup {None}]
  BY <1>2 DEF TypeInv, ProxyTypeOK
<1>6. pc' \in [Workers -> Labels]
  BY <1>1, Moves
<1>a. ArraysExceeded'
  <2>1. pc[w] = "idle" /\ pc'[w] = "read" /\ \A u \in Workers \ {w} : pc'[u] = pc[u]
    BY <1>1, Moves DEF Labels
  <2>2. UNCHANGED fetchVars /\ cache' = cache
    BY DEF Take, cacheVars
  <2> QED
    BY <2>1, <2>2, ContentKept, TagsKept, Halves DEF Ending, Fetched
<1>7. ProxyTypeOK'
  BY <1>3, <1>4, <1>5, <1>6, <1>a
  DEF Take, TypeInv, ProxyTypeOK, Labels, peerVars, fetchVars, cacheVars
<1>8. Busy'
  <2>1. pc'[w] = "read" /\ \A u \in Workers \ {w} : pc'[u] = pc[u]
    BY <1>1, Moves
  <2>2. conn'[w] \in Conns /\ \A u \in Workers \ {w} : conn'[u] = conn[u]
    BY <1>2 DEF TypeInv, ProxyTypeOK
  <2>3. nread' = nread /\ content' = content
    BY DEF Take, fetchVars
  <2>4. wants' = wants
    BY DEF Take, peerVars
  <2> QED
    BY <2>1, <2>2, <2>3, <2>4 DEF TypeInv, Busy, Key, Fetched
<1> QED
  BY <1>7, <1>8 DEF TypeInv

(* read_request, and the steps of cache_find and cache_insert that only    *)
(* move the worker and take or release the mutex.                          *)
LEMMA MutexTypes ==
    ASSUME TypeInv, NEW w \in Workers,
           \/ read_request(w) \/ cache_find_P(w) \/ cache_find_miss(w)
           \/ cache_insert_P(w) \/ forward_eof(w) \/ OriginStalls(w)
    PROVE  TypeInv'
<1>1. PICK from \in Labels \ {"idle"}, to \in Labels \ {"idle", "forward"} :
          /\ Step(w, from, to)
          /\ from \in Ending => to \in Ending
          /\ to \in Fetched => from \in Fetched \/ forward_eof(w)
  <2>1. CASE read_request(w)
    BY <2>1 DEF read_request, Labels, Ending, Fetched
  <2>2. CASE cache_find_P(w)
    BY <2>2 DEF cache_find_P, Labels, Ending, Fetched
  <2>3. CASE cache_find_miss(w)
    BY <2>3 DEF cache_find_miss, Labels, Ending, Fetched
  <2>4. CASE cache_insert_P(w)
    BY <2>4 DEF cache_insert_P, Labels, Ending, Fetched
  <2>5. CASE forward_eof(w)
    <3>1. Step(w, "forward", "insert") \/ Step(w, "forward", "close")
      BY <2>5 DEF forward_eof, Ends, Step
    <3> QED
      BY <2>5, <3>1 DEF Labels, Ending, Fetched
  <2>6. CASE OriginStalls(w)
    <3>1. Step(w, "forward", "stuck")
      BY <2>6 DEF OriginStalls
    <3> QED
      BY <3>1 DEF Labels, Ending, Fetched
  <2> QED
    BY <2>1, <2>2, <2>3, <2>4, <2>5, <2>6
<1>2. /\ pc[w] = from /\ pc' \in [Workers -> Labels] /\ pc'[w] = to
      /\ \A u \in Workers \ {w} : pc'[u] = pc[u]
  BY <1>1, Moves
<1>3. /\ UNCHANGED <<outsideVars, sent, conn, slot, fetchVars, cache, cur_time_stamp>>
      /\ lock' \in {lock, w, None}
  BY DEF read_request, cache_find_P, cache_find_miss, cache_insert_P, forward_eof,
         OriginStalls, cacheVars
<1>a. ArraysExceeded'
  BY <1>1, <1>2, <1>3, ContentKept, TagsKept, Halves
<1>4. ProxyTypeOK'
  BY <1>2, <1>3, <1>a
  DEF TypeInv, ProxyTypeOK, Labels, outsideVars, queueVars, peerVars, fetchVars
<1>5. Busy'
  <2>1. conn[w] \in Conns
    BY <1>2 DEF TypeInv, Busy
  <2>2. to \in Fetched => Fits(content[w]) \/ Spilling
    <3>1. CASE from \in Fetched
      BY <1>2, <3>1 DEF TypeInv, Busy
    <3>2. CASE forward_eof(w)
      <4>1. pc[w] = "forward" /\ (nread[w] > 0 \/ "origin sends nothing" \in Faults)
        <5>1. Key(w) \in Keys /\ Length[Key(w)] \in Nat \ {0}
          BY <2>1, LengthAssumption DEF TypeInv, ProxyTypeOK, Key
        <5>2. pc[w] = "forward" /\ OriginEnds(w) /\ nread[w] \in Nat
          BY <3>2 DEF forward_eof, At, TypeInv, ProxyTypeOK
        <5>3. CASE nread[w] = Length[Key(w)]
          <6>1. PICK n \in Nat \ {0} : n = nread[w]
            BY <5>1, <5>3
          <6>2. n > 0
            OBVIOUS
          <6> QED
            BY <5>2, <6>1, <6>2
        <5>4. CASE nread[w] > 0 \/ "origin sends nothing" \in Faults
          BY <5>2, <5>4
        <5>5. \/ nread[w] = Length[Key(w)]
              \/ nread[w] > 0 \/ "origin sends nothing" \in Faults
          BY <5>2 DEF OriginEnds
        <5> QED
          BY <5>3, <5>4, <5>5
      <4>2. nread[w] > 0 => Fits(content[w])
        BY <4>1, Halves DEF TypeInv, ProxyTypeOK, ContentExceeded
      <4> QED
        BY <4>1, <4>2 DEF Spilling
    <3> QED
      BY <1>1, <3>1, <3>2
  <2> QED
    BY <1>1, <1>2, <1>3, <2>1, <2>2, BusyKept DEF outsideVars, peerVars
<1> QED
  BY <1>4, <1>5 DEF TypeInv

LEMMA ChosenPair ==
    ASSUME TypeInv
    PROVE  /\ Valid \in SUBSET (1 .. Pairs)
           /\ Valid # 1 .. Pairs => Min((1 .. Pairs) \ Valid) \in (1 .. Pairs) \ Valid
           /\ Oldest \in 1 .. Pairs
           /\ \A j \in 1 .. Pairs : cache[Oldest].time_stamp <= cache[j].time_stamp
           /\ \A k : Matching(k) # {} => Min(Matching(k)) \in Matching(k)
<1>1. Valid \in SUBSET (1 .. Pairs) /\ Pairs \in Nat \ {0}
  BY SizesAssumption DEF Valid
<1>2. Valid # 1 .. Pairs => Min((1 .. Pairs) \ Valid) \in (1 .. Pairs) \ Valid
  <2>1. Valid # 1 .. Pairs => (1 .. Pairs) \ Valid # {}
    BY <1>1
  <2>2. (1 .. Pairs) \ Valid \in SUBSET Nat
    BY <1>1
  <2> QED
    BY <2>1, <2>2, SmallestIs
<1>3. \A k : Matching(k) # {} => Min(Matching(k)) \in Matching(k)
  <2>1. \A k : Matching(k) \in SUBSET Nat
    <3>1. \A k : Matching(k) \in SUBSET Valid
      BY DEF Matching
    <3>2. Valid \in SUBSET Nat
      BY <1>1
    <3> QED
      BY <3>1, <3>2
  <2> QED
    BY <2>1, SmallestIs
<1>4. /\ Oldest \in 1 .. Pairs
      /\ \A j \in 1 .. Pairs : cache[Oldest].time_stamp <= cache[j].time_stamp
  <2> DEFINE stamps == {cache[i].time_stamp : i \in 1 .. Pairs}
             oldest == {i \in 1 .. Pairs :
                          \A j \in 1 .. Pairs : cache[i].time_stamp <= cache[j].time_stamp}
  <2>1. stamps \in SUBSET Nat /\ cache[1].time_stamp \in stamps
    BY <1>1 DEF TypeInv, ProxyTypeOK
  <2>2. PICK s \in stamps : \A x \in stamps : s <= x
    BY <2>1, SmallestIs
  <2>3. oldest # {} /\ oldest \in SUBSET Nat /\ oldest \in SUBSET (1 .. Pairs)
    BY <1>1, <2>2
  <2>4. Min(oldest) \in oldest
    BY <2>3, SmallestIs
  <2> QED
    BY <2>3, <2>4 DEF Oldest
<1> QED
  BY <1>1, <1>2, <1>3, <1>4

LEMMA ChooseTypes ==
    ASSUME TypeInv, NEW w \in Workers, cache_find_hit(w) \/ cache_insert_choose(w)
    PROVE  TypeInv'
<1>1. PICK from \in Labels \ {"idle"}, to \in Labels \ {"idle", "forward"} :
          /\ Step(w, from, to)
          /\ from \in Ending => to \in Ending
          /\ to \in Fetched => from \in Fetched
  BY DEF Ending, Fetched, Labels, cache_find_hit, cache_insert_choose
<1>2. /\ pc[w] = from /\ pc' \in [Workers -> Labels] /\ pc'[w] = to
      /\ \A u \in Workers \ {w} : pc'[u] = pc[u]
  BY <1>1, Moves
<1>3. UNCHANGED <<outsideVars, sent, conn, fetchVars, cacheVars>>
  BY DEF cache_find_hit, cache_insert_choose
<1>4. slot' \in [Workers -> 1 .. Pairs]
  <2>1. Matching(Key(w)) \in SUBSET Valid
    BY DEF Matching
  <2>2. CASE cache_find_hit(w)
    <3>1. Min(Matching(Key(w))) \in 1 .. Pairs
      BY <2>1, <2>2, ChosenPair DEF cache_find_hit
    <3> QED
      BY <2>2, <3>1 DEF cache_find_hit, TypeInv, ProxyTypeOK
  <2>3. CASE cache_insert_choose(w)
    <3>1. (IF Valid # 1 .. Pairs THEN Min((1 .. Pairs) \ Valid) ELSE Oldest) \in 1 .. Pairs
      BY ChosenPair
    <3> QED
      BY <2>3, <3>1 DEF cache_insert_choose, TypeInv, ProxyTypeOK
  <2> QED
    BY <2>2, <2>3
<1>a. ArraysExceeded'
  BY <1>1, <1>2, <1>3, ContentKept, TagsKept, Halves DEF cacheVars
<1>5. ProxyTypeOK'
  BY <1>2, <1>3, <1>4, <1>a
  DEF TypeInv, ProxyTypeOK, Labels, outsideVars, queueVars, peerVars, fetchVars, cacheVars
<1>6. Busy'
  <2>1. conn[w] \in Conns
    BY <1>2 DEF TypeInv, Busy
  <2>2. to \in Fetched => Fits(content[w]) \/ Spilling
    BY <1>1, <1>2 DEF TypeInv, Busy
  <2> QED
    BY <1>1, <1>2, <1>3, <2>1, <2>2, BusyKept DEF outsideVars, peerVars
<1> QED
  BY <1>5, <1>6 DEF TypeInv

LEMMA WriteTypes ==
    ASSUME TypeInv, NEW c \in Conns, NEW cells \in Seq(Cells), Write(c, cells)
    PROVE  /\ sent' \in [Conns -> Seq(Cells)]
           /\ client[c] = "open" => sent'[c] = sent[c] \o cells
           /\ \A d \in Conns \ {c} : sent'[d] = sent[d]
           /\ client[c] \in {"open", "closed"}
<1>1. sent \in [Conns -> Seq(Cells)]
  BY DEF TypeInv, ProxyTypeOK
<1>2. sent[c] \o cells \in Seq(Cells)
  BY <1>1, ConcatProperties
<1> QED
  BY <1>1, <1>2 DEF Write

LEMMA ReplyTypes ==
    ASSUME TypeInv, NEW w \in Workers, cache_find_reply(w)
    PROVE  TypeInv'
<1>1. Step(w, "reply", "close") /\ {"reply", "close"} \subseteq Labels
  BY DEF Labels, cache_find_reply
<1>2. /\ pc[w] = "reply" /\ pc' \in [Workers -> Labels] /\ pc'[w] = "close"
      /\ \A u \in Workers \ {w} : pc'[u] = pc[u]
  BY <1>1, Moves
<1>3. conn[w] \in Conns /\ slot[w] \in 1 .. Pairs
  BY <1>2 DEF TypeInv, ProxyTypeOK, Busy
<1>4. sent' \in [Conns -> Seq(Cells)]
  <2>1. cache[slot[w]].response \in Seq(Cells)
    BY <1>3, ArrayIsSeq DEF TypeInv, ProxyTypeOK
  <2> QED
    BY <1>3, <2>1, WriteTypes DEF cache_find_reply
<1>5. cur_time_stamp' \in Nat /\ lock' = None
  BY DEF cache_find_reply, TypeInv, ProxyTypeOK
<1>6. cache' \in [1 .. Pairs -> Pair]
  <2>1. cache \in [1 .. Pairs -> Pair] /\ cur_time_stamp \in Nat
    BY DEF TypeInv, ProxyTypeOK, Pair
  <2>2. [cache[slot[w]] EXCEPT !.time_stamp = cur_time_stamp] \in Pair
    BY <1>3, <2>1 DEF Pair
  <2> QED
    BY <1>3, <2>1, <2>2 DEF cache_find_reply
<1>7. UNCHANGED <<outsideVars, conn, slot, fetchVars>>
  BY DEF cache_find_reply
<1>a. ArraysExceeded'
  <2>1. ContentExceeded'
    BY <1>2, <1>7, ContentKept DEF Ending, Fetched
  <2>2. \A i \in 1 .. Pairs : /\ cache'[i].valid = cache[i].valid
                              /\ cache'[i].request = cache[i].request
    BY <1>3 DEF cache_find_reply, TypeInv, ProxyTypeOK
  <2> QED
    BY <2>1, <2>2, TagsKept, Halves
<1>8. ProxyTypeOK'
  BY <1>2, <1>4, <1>5, <1>6, <1>7, <1>a
  DEF TypeInv, ProxyTypeOK, Labels, Pair, outsideVars, queueVars, peerVars, fetchVars
<1>9. Busy'
  BY <1>2, <1>3, <1>7, BusyKept DEF Labels, Fetched, outsideVars, peerVars
<1> QED
  BY <1>8, <1>9 DEF TypeInv

(* What cache_insert_store writes to its pair, and to the next one when    *)
(* the text does not fit.                                                  *)
Copied(w) ==
    [valid |-> TRUE, request |-> Key(w),
     response |-> strcpy(cache[slot[w]].response, Text(content[w])),
     time_stamp |-> cur_time_stamp]
Stored(w) == [cache EXCEPT ![slot[w]] = Copied(w)]

LEMMA StoredPairs ==
    ASSUME cache \in [1 .. Pairs -> Pair], NEW w \in Workers, slot[w] \in 1 .. Pairs,
           cache_insert_store(w)
    PROVE  /\ cache'[slot[w]] = Copied(w)
           /\ cache' = IF Len(Text(content[w])) > ObjSize /\ slot[w] < Pairs
                       THEN [Stored(w) EXCEPT ![slot[w] + 1] =
                                [Stored(w)[slot[w] + 1] EXCEPT !.valid = TRUE, !.request = None]]
                       ELSE Stored(w)
           /\ \A i \in 1 .. Pairs :
                 i # slot[w] /\ ~ (i = slot[w] + 1 /\ Len(Text(content[w])) > ObjSize)
                    => cache'[i] = cache[i]
<1>1. slot[w] # slot[w] + 1
  BY SizesAssumption
<1>2. cache' = IF Len(Text(content[w])) > ObjSize /\ slot[w] < Pairs
               THEN [Stored(w) EXCEPT ![slot[w] + 1].valid = TRUE, ![slot[w] + 1].request = None]
               ELSE [cache EXCEPT ![slot[w]] =
                        [valid |-> TRUE, request |-> Key(w),
                         response |-> strcpy(@.response, Text(content[w])),
                         time_stamp |-> cur_time_stamp]]
  BY DEF cache_insert_store, Stored, Copied
<1> QED
  BY <1>1, <1>2 DEF Stored, Copied

LEMMA StoreTypes ==
    ASSUME TypeInv, NEW w \in Workers, cache_insert_store(w)
    PROVE  TypeInv'
<1>1. Step(w, "store", "close") /\ {"store", "close"} \subseteq Labels
  BY DEF Labels, cache_insert_store
<1>2. /\ pc[w] = "store" /\ pc' \in [Workers -> Labels] /\ pc'[w] = "close"
      /\ \A u \in Workers \ {w} : pc'[u] = pc[u]
  BY <1>1, Moves
<1>3. conn[w] \in Conns /\ slot[w] \in 1 .. Pairs
  BY <1>2 DEF TypeInv, ProxyTypeOK, Busy
<1>4. cur_time_stamp' \in Nat /\ lock' = None
  BY DEF cache_insert_store, TypeInv, ProxyTypeOK
<1>5. cache' \in [1 .. Pairs -> Pair]
  <2>1. cache \in [1 .. Pairs -> Pair] /\ cur_time_stamp \in Nat
    BY DEF TypeInv, ProxyTypeOK, Pair
  <2>2. Key(w) \in Keys
    BY <1>3 DEF TypeInv, ProxyTypeOK, Key
  <2>3. strcpy(cache[slot[w]].response, Text(content[w])) \in [1 .. ObjSize -> Cells]
    <3>1. content[w] \in Seq(Cells) /\ cache[slot[w]].response \in [1 .. ObjSize -> Cells]
      BY <1>3 DEF TypeInv, ProxyTypeOK
    <3> QED
      BY <3>1, TextType, CopiedText
  <2>4. Copied(w) \in Pair
    BY <2>1, <2>2, <2>3 DEF Pair, Copied
  <2>5. Stored(w) \in [1 .. Pairs -> Pair]
    BY <1>3, <2>1, <2>4 DEF Stored
  <2>6. Len(Text(content[w])) > ObjSize /\ slot[w] < Pairs =>
            [Stored(w)[slot[w] + 1] EXCEPT !.valid = TRUE, !.request = None] \in Pair
    <3>1. slot[w] < Pairs => slot[w] + 1 \in 1 .. Pairs
      BY <1>3, SizesAssumption
    <3> QED
      BY <2>5, <3>1 DEF Pair
  <2>7. slot[w] < Pairs => slot[w] + 1 \in 1 .. Pairs
    BY <1>3, SizesAssumption
  <2> QED
    BY <1>3, <2>1, <2>5, <2>6, <2>7, StoredPairs
<1>6. UNCHANGED <<outsideVars, sent, conn, slot, fetchVars>>
  BY DEF cache_insert_store
<1>a. ArraysExceeded'
  <2>1. ContentExceeded'
    BY <1>2, <1>6, ContentKept DEF Ending, Fetched
  <2>2. TagsLost'
    <3> SUFFICES ASSUME NEW i \in 1 .. Pairs, cache'[i].valid, cache'[i].request = None
                 PROVE  i > 1 /\ Spilling
      BY DEF TagsLost, Valid
    <3>a. cache \in [1 .. Pairs -> Pair]
      BY DEF TypeInv, ProxyTypeOK, Pair
    <3>b. cache'[slot[w]].request = Key(w)
      <4>1. cache'[slot[w]] = Copied(w)
        BY <1>3, <3>a, StoredPairs
      <4> QED
        BY <4>1 DEF Copied
    <3>c. Key(w) \in Keys
      BY <1>3 DEF TypeInv, ProxyTypeOK, Key
    <3>1. cache'[slot[w]].request = Key(w) /\ Key(w) \in Keys /\ None \notin Keys
      BY <3>b, <3>c, NoneAssumption
    <3>2. CASE i = slot[w] + 1 /\ Len(Text(content[w])) > ObjSize
      <4>1. Spilling
        <5>1. content[w] \in Seq(Cells)
          BY DEF TypeInv, ProxyTypeOK
        <5>2. Len(Text(content[w])) \in Nat
          BY <5>1, TextType, LenProperties
        <5>3. ~ Fits(content[w])
          BY <3>2, <5>1, <5>2, FittingText, SizesAssumption
        <5> QED
          BY <1>2, <5>3 DEF TypeInv, Busy, Fetched
      <4> QED
        BY <1>3, <3>2, <4>1
    <3>3. CASE i # slot[w] /\ ~ (i = slot[w] + 1 /\ Len(Text(content[w])) > ObjSize)
      <4>1. cache'[i] = cache[i]
        BY <1>3, <3>a, <3>3, StoredPairs
      <4> QED
        BY <4>1, Halves DEF TypeInv, ProxyTypeOK, TagsLost, Valid
    <3> QED
      BY <3>1, <3>2, <3>3
  <2> QED
    BY <2>1, <2>2, Halves
<1>7. ProxyTypeOK'
  BY <1>2, <1>4, <1>5, <1>6, <1>a
  DEF TypeInv, ProxyTypeOK, Labels, Pair, outsideVars, queueVars, peerVars, fetchVars
<1>8. Busy'
  BY <1>2, <1>3, <1>6, BusyKept DEF Labels, Fetched, outsideVars, peerVars
<1> QED
  BY <1>7, <1>8 DEF TypeInv

LEMMA SendTypes ==
    ASSUME TypeInv, NEW w \in Workers, send_request(w)
    PROVE  TypeInv'
<1>1. Step(w, "connect", "forward") /\ {"connect", "forward"} \subseteq Labels
  BY DEF Labels, send_request
<1>2. /\ pc[w] = "connect" /\ pc' \in [Workers -> Labels] /\ pc'[w] = "forward"
      /\ \A u \in Workers \ {w} : pc'[u] = pc[u]
  BY <1>1, Moves
<1>3. PICK text \in Uninitialised : content' = [content EXCEPT ![w] = text]
  BY DEF send_request
<1>4. text \in Seq(Cells) /\ Len(text) \in 0 .. ObjSize + 1
  <2>1. << >> \in Seq(Cells) /\ Len(<< >>) = 0
    BY EmptySeq
  <2>2. Junk \in Cells
    BY CellFacts
  <2> HIDE DEF Junk
  <2>3. <<Junk>> \in Seq(Cells) /\ Len(<<Junk>>) = 1
    BY <2>2
  <2> DEFINE endless == [i \in 1 .. ObjSize + 1 |-> Junk]
  <2>4. endless \in Seq(Cells) /\ Len(endless) = ObjSize + 1
    <3>1. ObjSize + 1 \in Nat /\ endless \in [1 .. ObjSize + 1 -> Cells]
      BY <2>2, SizesAssumption
    <3> QED
      BY <3>1, SeqDef
  <2>5. text = << >> \/ text = <<Junk>> \/ text = endless
    BY <1>3 DEF Uninitialised
  <2> HIDE DEF endless
  <2>6. CASE text = << >>
    BY <2>1, <2>6, SizesAssumption
  <2>7. CASE text = <<Junk>>
    BY <2>3, <2>7, SizesAssumption
  <2>8. CASE text = endless
    BY <2>4, <2>8, SizesAssumption
  <2> QED
    BY <2>5, <2>6, <2>7, <2>8
<1>5. nread' = [nread EXCEPT ![w] = 0]
  BY DEF send_request
<1>6. /\ content' \in [Workers -> Seq(Cells)] /\ nread' \in [Workers -> Nat]
      /\ content'[w] = text /\ nread'[w] = 0
      /\ \A u \in Workers \ {w} : content'[u] = content[u] /\ nread'[u] = nread[u]
  BY <1>3, <1>4, <1>5 DEF TypeInv, ProxyTypeOK
<1>7. UNCHANGED <<outsideVars, sent, conn, slot, cacheVars>>
  BY DEF send_request
<1>a. ArraysExceeded'
  <2>1. ContentExceeded'
    <3>1. ContentExceeded
      BY Halves DEF TypeInv, ProxyTypeOK
    <3>2. Len(text) <= ObjSize + 2 /\ Len(text) # ObjSize + 2
      BY <1>4, SizesAssumption
    <3>3. ~ (nread'[w] > 0)
      BY <1>6
    <3> QED
      BY <1>2, <1>6, <3>1, <3>2, <3>3 DEF ContentExceeded
  <2> QED
    BY <1>7, <2>1, TagsKept, Halves DEF cacheVars
<1>8. ProxyTypeOK'
  BY <1>2, <1>6, <1>7, <1>a
  DEF TypeInv, ProxyTypeOK, Labels, outsideVars, queueVars, peerVars, cacheVars
<1>9. Busy'
  <2>1. /\ nread'[w] = 0 /\ Len(content'[w]) \in Nat
        /\ \A u \in Workers \ {w} : nread'[u] = nread[u] /\ content'[u] = content[u]
    BY <1>3, <1>4, <1>5 DEF TypeInv, ProxyTypeOK
  <2> QED
    <3>1. conn[w] \in Conns /\ Length[Key(w)] \in Nat /\ conn' = conn /\ wants' = wants
      BY <1>2, <1>7, LengthAssumption
      DEF TypeInv, ProxyTypeOK, Busy, Key, outsideVars, peerVars
    <3> QED
      BY <1>2, <2>1, <3>1 DEF TypeInv, Busy, Key, Fetched
<1> QED
  BY <1>8, <1>9 DEF TypeInv

LEMMA LineTypes ==
    ASSUME TypeInv, NEW w \in Workers, forward_line(w)
    PROVE  TypeInv'
<1> DEFINE n == nread[w]
           line == Line(Key(w), n + 1)
<1>1. pc[w] = "forward" /\ n \in Nat /\ conn[w] \in Conns /\ Key(w) \in Keys
  BY DEF forward_line, At, TypeInv, ProxyTypeOK, Busy, Key
<1>2. line \in Cells
  <2>1. n + 1 \in 1 .. Length[Key(w)]
    BY <1>1, LengthAssumption DEF forward_line
  <2> QED
    BY <1>1, <2>1, CellFacts
<1> HIDE DEF line
<1>3. sent' \in [Conns -> Seq(Cells)]
  <2>1. <<line>> \in Seq(Cells)
    BY <1>2
  <2>2. Write(conn[w], <<line>>)
    BY DEF forward_line, line
  <2> QED
    BY <1>1, <2>1, <2>2, WriteTypes
<1>a. content[w] \in Seq(Cells) /\ Len(content[w]) \in Nat /\ ObjSize \in Nat
  BY LenProperties, SizesAssumption DEF TypeInv, ProxyTypeOK
<1>b. ASSUME n + 1 <= ObjSize
      PROVE  /\ content'[w] \in Seq(Cells) /\ n + 1 <= Len(content'[w])
             /\ Len(content'[w]) <= ObjSize + 1 /\ Fits(content'[w])
             /\ content' = [content EXCEPT ![w] = content'[w]]
  <2>1. content' = [content EXCEPT ![w] = Append_strcpy(content[w], n, line)]
    BY <1>b DEF forward_line, line
  <2>2. content'[w] = Append_strcpy(content[w], n, line)
    BY <2>1 DEF TypeInv, ProxyTypeOK
  <2>3. n \in 0 .. Len(content[w])
    BY <1>1, <1>a, <1>b DEF TypeInv, Busy
  <2>4. /\ content'[w] \in Seq(Cells)
        /\ \/ Len(content'[w]) = n + 1
           \/ Len(content'[w]) = n + 2 /\ content'[w][n + 2] = NUL
    BY <1>2, <1>a, <2>2, <2>3, AppendedLine
  <2>5. Fits(content'[w])
    <3>1. CASE Len(content'[w]) > ObjSize
      <4>1. n + 2 = ObjSize + 1 /\ content'[w][n + 2] = NUL
        BY <1>1, <1>a, <1>b, <2>4, <3>1
      <4> QED
        BY <4>1 DEF Fits
    <3> QED
      BY <3>1 DEF Fits
  <2>6. n + 1 <= Len(content'[w]) /\ Len(content'[w]) <= ObjSize + 1
    BY <1>1, <1>a, <1>b, <2>4
  <2> QED
    BY <2>1, <2>2, <2>4, <2>5, <2>6
<1>c. ~ (n + 1 <= ObjSize) => content' = content
  BY DEF forward_line
<1>4. /\ content'[w] \in Seq(Cells) /\ Len(content'[w]) <= ObjSize + 1
      /\ Fits(content'[w])
      /\ content' = [content EXCEPT ![w] = content'[w]]
      /\ n + 1 <= Len(content'[w]) \/ n + 1 > ObjSize
  <2>1. content \in [Workers -> Seq(Cells)]
    BY DEF TypeInv, ProxyTypeOK
  <2>2. /\ Len(content[w]) <= ObjSize + 2 /\ Len(content[w]) # ObjSize + 2
        /\ n > 0 => Fits(content[w])
    BY <1>1, Halves DEF TypeInv, ProxyTypeOK, ContentExceeded, Ending, Fetched
  <2>3. CASE n + 1 <= ObjSize
    BY <1>1, <1>b, <2>3
  <2>4. CASE ~ (n + 1 <= ObjSize)
    <3>1. content' = content /\ n > 0 /\ Len(content[w]) <= ObjSize + 1
      BY <1>1, <1>a, <1>c, <2>2, <2>4, SizesAssumption
    <3> QED
      BY <1>1, <1>a, <2>1, <2>2, <2>4, <3>1
  <2> QED
    BY <2>3, <2>4
<1>5. /\ \A u \in Workers \ {w} : content'[u] = content[u] /\ nread'[u] = nread[u]
      /\ nread' \in [Workers -> Nat] /\ nread'[w] = n + 1
  BY <1>1, <1>4 DEF forward_line, TypeInv, ProxyTypeOK
<1>6. UNCHANGED <<outsideVars, pc, conn, slot, cacheVars>>
  BY DEF forward_line
<1>7. content' \in [Workers -> Seq(Cells)]
  BY <1>4 DEF TypeInv, ProxyTypeOK
<1>d. ArraysExceeded'
  <2>1. Len(content'[w]) <= ObjSize + 2 /\ Len(content'[w]) # ObjSize + 2
    BY <1>4, LenProperties, SizesAssumption
  <2>2. ContentExceeded
    BY Halves DEF TypeInv, ProxyTypeOK
  <2>3. ContentExceeded'
    BY <1>4, <1>5, <1>6, <2>1, <2>2 DEF ContentExceeded
  <2> QED
    BY <1>6, <2>3, TagsKept, Halves DEF cacheVars
<1>8. ProxyTypeOK'
  BY <1>3, <1>5, <1>6, <1>7, <1>d
  DEF TypeInv, ProxyTypeOK, outsideVars, queueVars, peerVars, cacheVars
<1>9. Busy'
  <2>1. n + 1 <= Length[Key(w)]
    BY <1>1, LengthAssumption DEF forward_line
  <2> QED
    BY <1>1, <1>4, <1>5, <1>6, <2>1 DEF TypeInv, Busy, Key, Fetched, outsideVars, peerVars
<1> QED
  BY <1>8, <1>9 DEF TypeInv

LEMMA ResetTypes ==
    ASSUME TypeInv, NEW w \in Workers, forward_reset(w)
    PROVE  TypeInv'
<1> DEFINE n == nread[w]
           bufs == {Junk} \cup (IF n = 0 THEN {NUL} ELSE {Line(Key(w), n)})
<1>1. PICK to \in {"insert", "close"} : Step(w, "forward", to) /\ to \in Labels
  BY DEF forward_reset, Ends, Step, Labels
<1>2. /\ pc[w] = "forward" /\ pc' \in [Workers -> Labels] /\ pc'[w] = to
      /\ \A u \in Workers \ {w} : pc'[u] = pc[u]
  BY <1>1, Moves
<1>3. n \in Nat /\ conn[w] \in Conns /\ content[w] \in Seq(Cells)
  BY <1>2 DEF TypeInv, ProxyTypeOK, Busy
<1>4. UNCHANGED <<outsideVars, sent, conn, slot, nread, cacheVars>>
  BY DEF forward_reset
<1>5. bufs \subseteq Cells
  <2>1. Key(w) \in Keys /\ n <= Length[Key(w)]
    BY <1>2, <1>3 DEF TypeInv, ProxyTypeOK, Busy, Key
  <2>2. n # 0 => n \in 1 .. Length[Key(w)]
    BY <1>3, <2>1, LengthAssumption
  <2> QED
    BY <2>1, <2>2, CellFacts
<1> HIDE DEF bufs
<1>6. /\ content'[w] \in Seq(Cells) /\ Len(content'[w]) <= ObjSize + 2
      /\ content' = [content EXCEPT ![w] = content'[w]]
  <2>1. content \in [Workers -> Seq(Cells)] /\ Len(content[w]) \in Nat /\ ObjSize \in Nat
    BY <1>3, LenProperties, SizesAssumption DEF TypeInv, ProxyTypeOK
  <2>2. CASE n <= ObjSize /\ \E buf \in bufs :
                 content' = [content EXCEPT ![w] = Append_strcpy(content[w], n, buf)]
    <3>1. PICK buf \in bufs :
              content' = [content EXCEPT ![w] = Append_strcpy(content[w], n, buf)]
      BY <2>2
    <3>2. n \in 0 .. Len(content[w])
      BY <1>2, <1>3, <2>1, <2>2 DEF TypeInv, Busy
    <3>3. /\ Append_strcpy(content[w], n, buf) \in Seq(Cells)
          /\ Len(Append_strcpy(content[w], n, buf)) \in n + 1 .. n + 2
      BY <1>3, <1>5, <3>2, AppendedLine
    <3> QED
      BY <1>3, <2>1, <2>2, <3>1, <3>3
  <2>3. CASE content' = content
    <3>1. Len(content[w]) <= ObjSize + 2
      BY Halves DEF TypeInv, ProxyTypeOK, ContentExceeded
    <3> QED
      BY <1>3, <2>1, <2>3, <3>1
  <2> QED
    BY <2>2, <2>3 DEF forward_reset, bufs
<1>7. ProxyTypeOK'
  <2>1. /\ content' \in [Workers -> Seq(Cells)]
        /\ \A u \in Workers \ {w} : content'[u] = content[u]
    BY <1>6 DEF TypeInv, ProxyTypeOK
  <2>2. ContentExceeded'
    <3>1. ContentExceeded
      BY Halves DEF TypeInv, ProxyTypeOK
    <3>2. to \in Ending /\ to # "forward" /\ "origin resets" \in Faults
      BY <1>1 DEF Ending, Fetched, forward_reset
    <3> QED
      BY <1>2, <1>4, <1>6, <2>1, <3>1, <3>2 DEF ContentExceeded
  <2>3. ArraysExceeded'
    BY <1>4, <2>2, TagsKept, Halves DEF cacheVars
  <2> QED
    BY <1>2, <1>4, <2>1, <2>3
    DEF TypeInv, ProxyTypeOK, Labels, outsideVars, queueVars, peerVars, cacheVars
<1>8. Busy'
  <2>1. to # "idle" /\ to # "forward"
    BY <1>1
  <2>2. \A u \in Workers \ {w} : content'[u] = content[u]
    BY <1>6 DEF TypeInv, ProxyTypeOK
  <2>3. Spilling
    BY DEF forward_reset, Spilling
  <2> QED
    BY <1>2, <1>3, <1>4, <2>1, <2>2, <2>3 DEF TypeInv, Busy, Key, outsideVars, peerVars
<1> QED
  BY <1>7, <1>8 DEF TypeInv

LEMMA CloseTypes ==
    ASSUME TypeInv, NEW w \in Workers, Close(w)
    PROVE  TypeInv'
<1>1. Step(w, "close", "idle") /\ "idle" \in Labels
  BY DEF Labels, Close
<1>2. /\ pc' \in [Workers -> Labels] /\ pc'[w] = "idle"
      /\ \A u \in Workers \ {w} : pc'[u] = pc[u]
  BY <1>1, Moves
<1>3. conn' \in [Workers -> Conns \cup {None}] /\ \A u \in Workers \ {w} : conn'[u] = conn[u]
  BY DEF Close, TypeInv, ProxyTypeOK
<1>4. UNCHANGED <<outsideVars, sent, slot, nread, cacheVars>>
  BY DEF Close
<1>a. /\ content' \in [Workers -> Seq(Cells)] /\ Len(content'[w]) = 0
      /\ \A u \in Workers \ {w} : content'[u] = content[u]
  BY EmptySeq DEF Close, TypeInv, ProxyTypeOK
<1>b. ArraysExceeded'
  <2>1. ContentExceeded
    BY Halves DEF TypeInv, ProxyTypeOK
  <2>2. 0 <= ObjSize + 2 /\ 0 # ObjSize + 2
    BY SizesAssumption
  <2>3. ContentExceeded'
    BY <1>2, <1>4, <1>a, <2>1, <2>2 DEF ContentExceeded
  <2> QED
    BY <1>4, <2>3, TagsKept, Halves DEF cacheVars
<1>5. ProxyTypeOK'
  BY <1>2, <1>3, <1>4, <1>a, <1>b
  DEF TypeInv, ProxyTypeOK, Labels, outsideVars, queueVars, peerVars, fetchVars, cacheVars
<1>6. Busy'
  BY <1>2, <1>3, <1>4, <1>a DEF TypeInv, Busy, Key, Fetched, outsideVars, peerVars, fetchVars
<1> QED
  BY <1>5, <1>6 DEF TypeInv

(* The end of the process, what clients do, and stuttering.                *)
LEMMA PeerTypes ==
    ASSUME TypeInv,
           \/ UNCHANGED vars
           \/ \E w \in Workers : unix_error(w) \/ overrun(w)
           \/ \E c \in Conns : ClientFault(c) \/ ClientStalls(c)
    PROVE  TypeInv'
<1>1. /\ UNCHANGED <<queueVars, fresh, wants, sent, workerVars, cacheVars>>
      /\ client' \in [Conns -> {"open", "closed", "reset", "stalled"}]
      /\ process' \in {"up", "down"}
  <2>1. client \in [Conns -> {"open", "closed", "reset", "stalled"}] /\ process \in {"up", "down"}
    BY DEF TypeInv, ProxyTypeOK
  <2>2. CASE UNCHANGED vars
    BY <2>1, <2>2 DEF vars, outsideVars, peerVars
  <2>3. CASE \E w \in Workers : unix_error(w) \/ overrun(w)
    BY <2>1, <2>3 DEF unix_error, overrun, Exit, peerVars
  <2>4. CASE \E c \in Conns : ClientFault(c)
    <3>1. PICK c \in Conns : ClientFault(c)
      BY <2>4
    <3>2. PICK s \in {"closed", "reset"} : client' = [client EXCEPT ![c] = s]
      <4>1. PICK f \in {<<"client closes", "closed">>, <<"client resets", "reset">>} :
                client' = [client EXCEPT ![c] = f[2]]
        BY <3>1 DEF ClientFault
      <4>2. CASE f = <<"client closes", "closed">>
        BY <4>1, <4>2
      <4>3. CASE f = <<"client resets", "reset">>
        BY <4>1, <4>3
      <4> QED
        BY <4>1, <4>2, <4>3
    <3>3. client' \in [Conns -> {"open", "closed", "reset", "stalled"}]
      BY <2>1, <3>2
    <3> QED
      BY <2>1, <3>1, <3>3 DEF ClientFault
  <2>5. CASE \E c \in Conns : ClientStalls(c)
    BY <2>1, <2>5 DEF ClientStalls
  <2> QED
    BY <2>2, <2>3, <2>4, <2>5
<1>2. ProxyTypeOK'
  BY <1>1 DEF TypeInv, ProxyTypeOK, ArraysExceeded, Valid, queueVars, workerVars, fetchVars, cacheVars
<1>3. Busy'
  BY <1>1 DEF TypeInv, Busy, Key, workerVars, fetchVars
<1> QED
  BY <1>2, <1>3 DEF TypeInv

LEMMA TypeInit == Init => TypeInv
<1> SUFFICES ASSUME Init
             PROVE  TypeInv
  OBVIOUS
<1>1. << >> \in Seq(Conns) /\ << >> \in Seq(Cells) /\ Len(<< >>) = 0
  BY EmptySeq
<1>2. 1 \in 1 .. Pairs /\ 0 <= Size /\ 0 <= ObjSize
  BY SizesAssumption, SizeAssumption
<1>3. [n \in 1 .. ObjSize |-> NUL] \in [1 .. ObjSize -> Cells]
  BY CellFacts
<1>4. cache \in [1 .. Pairs -> [valid : BOOLEAN, request : Keys \cup {None},
                                response : [1 .. ObjSize -> Cells], time_stamp : Nat]]
  BY <1>3 DEF Init
<1>a. ArraysExceeded
  <2>1. Valid = {}
    BY DEF Init, Valid
  <2>2. \A w \in Workers : content[w] = << >> /\ pc[w] = "idle"
    BY DEF Init
  <2>3. 0 <= ObjSize + 2 /\ 0 # ObjSize + 2
    BY SizesAssumption
  <2> QED
    BY <1>1, <2>1, <2>2, <2>3 DEF ArraysExceeded
<1>5. ProxyTypeOK
  BY <1>1, <1>2, <1>4, <1>a DEF Init, InitQueue, ProxyTypeOK
<1>6. Busy
  BY DEF Init, Busy, Fetched
<1> QED
  BY <1>5, <1>6 DEF TypeInv

LEMMA TypeStep ==
    ASSUME TypeInv, [Next]_vars
    PROVE  TypeInv'
<1>1. ASSUME NEW c \in Conns, Accept(c)
      PROVE  TypeInv'
  BY <1>1, AcceptTypes
<1>2. ASSUME NEW w \in Workers, thread(w) \/ OriginStalls(w)
      PROVE  TypeInv'
  BY <1>2, TakeTypes, MutexTypes, ChooseTypes, ReplyTypes, StoreTypes, SendTypes,
     LineTypes, ResetTypes, CloseTypes, PeerTypes
  DEF thread, cache_find, forward_response, cache_insert
<1> QED
  BY <1>1, <1>2, PeerTypes DEF Next, Quiet

(* Whatever clients and origins do, slot is a pair of the cache, and the   *)
(* arrays are exceeded no further than ArraysExceeded says: content by the *)
(* terminator, or what lay there before it, as long as lines come in, by a *)
(* line only after a reset, and a pair of the cache only by the text of an *)
(* origin that was reset or sent nothing.                                  *)
THEOREM ProxyTypeCorrect == Spec => []ProxyTypeOK
<1>1. TypeInv /\ [Next]_vars => TypeInv'
  BY TypeStep
<1>2. Spec => []TypeInv
  BY TypeInit, <1>1, PTL DEF Spec
<1> QED
  BY <1>2, PTL DEF TypeInv

-----------------------------------------------------------------------------
(* What the cache holds and what clients are sent.                         *)

(* Every origin delivers the whole of its object, and the object is text.  *)
OriginsDeliver ==
    /\ Binary = {}
    /\ Faults \cap {"origin resets", "origin sends nothing", "origin closes early"} = {}

MutexHeld == \A w \in Workers : pc[w] \in InMutex <=> lock = w

(* A connection is with one worker, in one place of the queue, or fresh.   *)
OnePlace ==
    /\ \A w \in Workers : pc[w] = "idle" => conn[w] = None
    /\ \A u, w \in Workers : conn[u] = conn[w] /\ conn[u] \in Conns => u = w
    /\ \A w \in Workers : conn[w] \notin fresh \cup Range(queue)
    /\ fresh \cap Range(queue) = {}
    /\ \A i, j \in 1 .. Len(queue) : queue[i] = queue[j] => i = j

(* What a worker has read and sent at each place.  A pair that cache_find  *)
(* found stays what it was while the worker holds the mutex.               *)
Progress(w) ==
    LET c == conn[w]
        k == Key(w)
    IN  /\ pc[w] \in Asking => sent[c] = << >>
        /\ pc[w] = "reply" => cache[slot[w]].valid /\ cache[slot[w]].request = k
        /\ pc[w] = "forward" =>
             /\ nread[w] \in 1 .. ObjSize =>
                  content[w] = Append(SubSeq(Object(k), 1, nread[w]), NUL)
             /\ client[c] = "open" => sent[c] = SubSeq(Object(k), 1, nread[w])
        /\ pc[w] \in Fetched => Length[k] <= ObjSize /\ content[w] = Append(Object(k), NUL)
        /\ pc[w] \in Fetched \cup {"close"} /\ client[c] = "open" =>
             Text(sent[c]) = Object(k)

Unsent == \A c \in fresh \cup Range(queue) : sent[c] = << >>

Answered ==
    \A c \in Served : client[c] = "open" => Text(sent[c]) = Object(wants[c])

Whole ==
    \A i \in Valid : /\ cache[i].request \in Keys
                     /\ Text(cache[i].response) = Object(cache[i].request)

ProxyInv ==
    /\ TypeInv
    /\ MutexHeld
    /\ OnePlace
    /\ \A w \in Workers : Progress(w)
    /\ Unsent
    /\ Answered
    /\ Whole

LEMMA MutexKept ==
    ASSUME MutexHeld, lock \in Workers \cup {None}, NEW w \in Workers, NEW from, NEW to,
           pc[w] = from, pc'[w] = to, \A u \in Workers \ {w} : pc'[u] = pc[u],
           \/ from \notin InMutex /\ to \in InMutex /\ lock = None /\ lock' = w
           \/ from \in InMutex /\ to \notin InMutex /\ lock' = None
           \/ (from \in InMutex <=> to \in InMutex) /\ lock' = lock
    PROVE  MutexHeld'
<1>1. None \notin Workers
  BY NoneAssumption
<1> QED
  BY <1>1 DEF MutexHeld

(* A worker's step on its own connection, between sbuf_remove and Close.   *)
LEMMA WorkerKeeps ==
    ASSUME ProxyInv, TypeInv', NEW w \in Workers,
           NEW from \in Labels \ {"idle"}, NEW to \in Labels \ {"idle"},
           pc[w] = from, pc'[w] = to, \A u \in Workers \ {w} : pc'[u] = pc[u],
           \/ from \notin InMutex /\ to \in InMutex /\ lock = None /\ lock' = w
           \/ from \in InMutex /\ to \notin InMutex /\ lock' = None
           \/ (from \in InMutex <=> to \in InMutex) /\ lock' = lock,
           UNCHANGED <<outsideVars, conn>>,
           \A d \in Conns \ {conn[w]} : sent'[d] = sent[d],
           \A u \in Workers \ {w} :
               slot'[u] = slot[u] /\ nread'[u] = nread[u] /\ content'[u] = content[u],
           cache' = cache \/ from \in InMutex,
           Progress(w)', Whole'
    PROVE  ProxyInv'
<1>1. MutexHeld'
  BY MutexKept DEF ProxyInv, TypeInv, ProxyTypeOK
<1>2. /\ UNCHANGED <<queue, fresh, wants, client, conn>>
      /\ conn[w] \in Conns
  BY DEF outsideVars, queueVars, peerVars, ProxyInv, TypeInv, Busy
<1>3. OnePlace'
  BY <1>2 DEF ProxyInv, OnePlace
<1>4. \A u \in Workers : Progress(u)'
  <2> SUFFICES ASSUME NEW u \in Workers, u # w
               PROVE  Progress(u)'
    OBVIOUS
  <2>1. /\ pc'[u] = pc[u] /\ slot'[u] = slot[u] /\ nread'[u] = nread[u]
        /\ content'[u] = content[u] /\ conn'[u] = conn[u] /\ Key(u)' = Key(u)
    BY <1>2 DEF Key
  <2>2. pc[u] # "idle" => sent'[conn[u]] = sent[conn[u]]
    BY <1>2 DEF ProxyInv, OnePlace, TypeInv, Busy
  <2>3. pc[u] = "reply" => cache' = cache
    BY DEF ProxyInv, MutexHeld, InMutex
  <2>4. Progress(u)
    BY DEF ProxyInv
  <2> QED
    BY <1>2, <2>1, <2>2, <2>3, <2>4 DEF Progress, Asking, Fetched
<1>5. Unsent'
  <2>1. \A c \in fresh \cup Range(queue) : sent'[c] = sent[c]
    <3>1. fresh \cup Range(queue) \subseteq Conns \ {conn[w]}
      BY RangeOfSeq DEF ProxyInv, OnePlace, TypeInv, ProxyTypeOK
    <3> QED
      BY <3>1
  <2> QED
    BY <1>2, <2>1 DEF ProxyInv, Unsent
<1>6. Answered'
  <2>1. Served' = Served /\ Served \subseteq Conns \ {conn[w]}
    BY <1>2 DEF Served
  <2> QED
    BY <1>2, <2>1 DEF ProxyInv, Answered
<1> QED
  BY <1>1, <1>3, <1>4, <1>5, <1>6 DEF ProxyInv

LEMMA WholeKept ==
    ASSUME Whole, cache' = cache
    PROVE  Whole'
  BY DEF Whole, Valid

(* read_request, the mutex, the choice of a pair, and a stalled origin.    *)
LEMMA QuietKeeps ==
    ASSUME ProxyInv, TypeInv', NEW w \in Workers,
           \/ read_request(w) \/ cache_find_P(w) \/ cache_find_miss(w)
           \/ cache_insert_P(w) \/ cache_insert_choose(w) \/ OriginStalls(w)
    PROVE  ProxyInv'
<1>1. PICK from \in Labels \ {"idle"}, to \in Labels \ {"idle"} :
          /\ Step(w, from, to)
          /\ \/ from \notin InMutex /\ to \in InMutex /\ lock = None /\ lock' = w
             \/ from \in InMutex /\ to \notin InMutex /\ lock' = None
             \/ (from \in InMutex <=> to \in InMutex) /\ lock' = lock
          /\ \/ from \in Asking /\ to \in Asking \ {"reply"}
             \/ from \in Fetched /\ to \in Fetched
             \/ to = "stuck"
  <2>1. read_request(w) => Step(w, "read", "find") /\ lock' = lock
    BY DEF read_request, cacheVars
  <2>2. cache_find_P(w) => Step(w, "find", "search") /\ lock = None /\ lock' = w
    BY DEF cache_find_P
  <2>3. cache_find_miss(w) => Step(w, "search", "connect") /\ lock' = None
    BY DEF cache_find_miss
  <2>4. cache_insert_P(w) => Step(w, "insert", "choose") /\ lock = None /\ lock' = w
    BY DEF cache_insert_P
  <2>5. cache_insert_choose(w) => Step(w, "choose", "store") /\ lock' = lock
    BY DEF cache_insert_choose, cacheVars
  <2>6. OriginStalls(w) => Step(w, "forward", "stuck") /\ lock' = lock
    BY DEF OriginStalls, cacheVars
  <2>7. /\ \A l \in {"read", "find", "search", "connect", "insert", "choose",
                    "store", "forward", "stuck"} : l \in Labels \ {"idle"}
        /\ \A l \in {"search", "choose", "store"} : l \in InMutex
        /\ \A l \in {"read", "find", "connect", "insert", "forward", "stuck"} : l \notin InMutex
        /\ \A l \in {"read", "find", "search", "connect"} : l \in Asking \ {"reply"}
        /\ \A l \in {"insert", "choose", "store"} : l \in Fetched
    BY DEF Labels, InMutex, Asking, Fetched
  <2>8. CASE read_request(w)
    BY <2>1, <2>7, <2>8
  <2>9. CASE cache_find_P(w)
    BY <2>2, <2>7, <2>9
  <2>10. CASE cache_find_miss(w)
    BY <2>3, <2>7, <2>10
  <2>11. CASE cache_insert_P(w)
    BY <2>4, <2>7, <2>11
  <2>12. CASE cache_insert_choose(w)
    BY <2>5, <2>7, <2>12
  <2>13. CASE OriginStalls(w)
    BY <2>6, <2>7, <2>13
  <2> QED
    BY <2>8, <2>9, <2>10, <2>11, <2>12, <2>13
<1>2. /\ pc[w] = from /\ pc'[w] = to /\ \A u \in Workers \ {w} : pc'[u] = pc[u]
  BY <1>1, Moves DEF ProxyInv
<1>3. /\ UNCHANGED <<outsideVars, sent, conn, fetchVars, cache>>
      /\ \A u \in Workers \ {w} : slot'[u] = slot[u]
  BY DEF read_request, cache_find_P, cache_find_miss, cache_insert_P, cache_insert_choose,
         OriginStalls, cacheVars, ProxyInv, TypeInv, ProxyTypeOK
<1>4. Progress(w)'
  <2>1. Progress(w) /\ Key(w)' = Key(w)
    BY <1>3 DEF ProxyInv, Key, outsideVars, peerVars
  <2> QED
    BY <1>1, <1>2, <1>3, <2>1
    DEF Progress, Asking, Fetched, outsideVars, peerVars, fetchVars
<1>5. Whole'
  BY <1>3, WholeKept DEF ProxyInv
<1> QED
  BY <1>1, <1>2, <1>3, <1>4, <1>5, WorkerKeeps DEF fetchVars

LEMMA HitKeeps ==
    ASSUME ProxyInv, TypeInv', NEW w \in Workers, cache_find_hit(w)
    PROVE  ProxyInv'
<1>1. Step(w, "search", "reply") /\ {"search", "reply"} \subseteq Labels \ {"idle"}
  BY DEF cache_find_hit, Labels
<1>2. /\ pc[w] = "search" /\ pc'[w] = "reply" /\ \A u \in Workers \ {w} : pc'[u] = pc[u]
  BY <1>1, Moves DEF ProxyInv
<1>3. /\ UNCHANGED <<outsideVars, sent, conn, fetchVars, cacheVars>>
      /\ slot'[w] = Min(Matching(Key(w)))
      /\ \A u \in Workers \ {w} : slot'[u] = slot[u]
  BY DEF cache_find_hit, ProxyInv, TypeInv, ProxyTypeOK
<1>4. Progress(w)'
  <2>1. slot'[w] \in Matching(Key(w))
    BY <1>3, ChosenPair DEF cache_find_hit, ProxyInv
  <2>2. Progress(w) /\ Key(w)' = Key(w)
    BY <1>3 DEF ProxyInv, Key, outsideVars, peerVars
  <2> QED
    BY <1>2, <1>3, <2>1, <2>2
    DEF Progress, Asking, Fetched, Matching, Valid, cacheVars
<1>5. Whole'
  BY <1>3, WholeKept DEF ProxyInv, cacheVars
<1>6. lock' = lock /\ cache' = cache /\ "search" \in InMutex /\ "reply" \in InMutex
  BY <1>3 DEF InMutex, cacheVars
<1> QED
  BY <1>1, <1>2, <1>3, <1>4, <1>5, <1>6, WorkerKeeps DEF fetchVars

LEMMA ReplyKeeps ==
    ASSUME ProxyInv, TypeInv', NEW w \in Workers, cache_find_reply(w)
    PROVE  ProxyInv'
<1>1. Step(w, "reply", "close") /\ {"reply", "close"} \subseteq Labels \ {"idle"}
  BY DEF cache_find_reply, Labels
<1>2. /\ pc[w] = "reply" /\ pc'[w] = "close" /\ \A u \in Workers \ {w} : pc'[u] = pc[u]
  BY <1>1, Moves DEF ProxyInv
<1>3. /\ UNCHANGED <<outsideVars, conn, slot, fetchVars>> /\ lock' = None
      /\ Write(conn[w], cache[slot[w]].response)
  BY DEF cache_find_reply
<1>4. /\ conn[w] \in Conns /\ slot[w] \in 1 .. Pairs
      /\ cache[slot[w]].response \in Seq(Cells)
  BY <1>2, ArrayIsSeq DEF ProxyInv, TypeInv, ProxyTypeOK, Busy
<1>5. /\ client[conn[w]] = "open" => sent'[conn[w]] = sent[conn[w]] \o cache[slot[w]].response
      /\ \A d \in Conns \ {conn[w]} : sent'[d] = sent[d]
  BY <1>3, <1>4, WriteTypes DEF ProxyInv
<1>6. Progress(w) /\ Key(w)' = Key(w)
  BY <1>3 DEF ProxyInv, Key, outsideVars, peerVars
<1>7. Progress(w)'
  <2>1. Text(cache[slot[w]].response) = Object(Key(w))
    BY <1>2, <1>4, <1>6 DEF ProxyInv, Whole, Valid, Progress
  <2>2. sent[conn[w]] = << >>
    BY <1>2, <1>6 DEF Progress, Asking
  <2>3. client[conn[w]] = "open" => Text(sent'[conn[w]]) = Object(Key(w))
    BY <1>4, <1>5, <2>1, <2>2, ConcatEmptySeq
  <2> QED
    BY <1>2, <1>3, <1>6, <2>3 DEF Progress, Asking, Fetched, outsideVars, peerVars
<1>8. Whole'
  <2>1. \A i \in 1 .. Pairs : /\ cache'[i].valid = cache[i].valid
                              /\ cache'[i].request = cache[i].request
                              /\ cache'[i].response = cache[i].response
    BY <1>4 DEF cache_find_reply, ProxyInv, TypeInv, ProxyTypeOK
  <2> QED
    BY <2>1 DEF ProxyInv, Whole, Valid
<1>9. "reply" \in InMutex /\ "close" \notin InMutex
  BY DEF InMutex
<1> QED
  BY <1>1, <1>2, <1>3, <1>5, <1>7, <1>8, <1>9, WorkerKeeps DEF fetchVars

LEMMA StoreKeeps ==
    ASSUME ProxyInv, TypeInv', NEW w \in Workers, cache_insert_store(w)
    PROVE  ProxyInv'
<1>1. Step(w, "store", "close") /\ {"store", "close"} \subseteq Labels \ {"idle"}
  BY DEF cache_insert_store, Labels
<1>2. /\ pc[w] = "store" /\ pc'[w] = "close" /\ \A u \in Workers \ {w} : pc'[u] = pc[u]
  BY <1>1, Moves DEF ProxyInv
<1>3. UNCHANGED <<outsideVars, sent, conn, slot, fetchVars>> /\ lock' = None
  BY DEF cache_insert_store
<1>4. /\ slot[w] \in 1 .. Pairs /\ Key(w) \in Keys
      /\ cache[slot[w]].response \in [1 .. ObjSize -> Cells]
  BY <1>2 DEF ProxyInv, TypeInv, ProxyTypeOK, Busy, Key
<1>5. Progress(w) /\ Key(w)' = Key(w)
  BY <1>3 DEF ProxyInv, Key, outsideVars, peerVars
<1>6. Progress(w)'
  BY <1>2, <1>3, <1>5 DEF Progress, Asking, Fetched, outsideVars, peerVars
<1>7. Whole'
  <2> DEFINE copy == strcpy(cache[slot[w]].response, Text(content[w]))
  <2>1. Length[Key(w)] <= ObjSize /\ content[w] = Append(Object(Key(w)), NUL)
    BY <1>2, <1>5 DEF Progress, Fetched
  <2>2. Text(content[w]) = Object(Key(w)) /\ ~ (Len(Object(Key(w))) > ObjSize)
    <3>1. /\ Object(Key(w)) \in Seq(TextCells) /\ Object(Key(w)) \in Seq(Cells)
          /\ Len(Object(Key(w))) = Length[Key(w)] /\ Length[Key(w)] \in Nat
      BY <1>4, ObjectIsText, SeqMonotonic DEF TextCells
    <3>2. Text(Append(Object(Key(w)), NUL)) = Object(Key(w))
      BY <3>1, CellFacts, BeforeLast
    <3> QED
      BY <2>1, <3>1, <3>2, SizesAssumption
  <2>3. Text(copy) = Object(Key(w))
    <3>1. /\ Object(Key(w)) \in Seq(TextCells) /\ Len(Object(Key(w))) <= ObjSize
          /\ Object(Key(w)) \in Seq(Cells)
      BY <1>4, <2>1, ObjectIsText, SeqMonotonic DEF TextCells
    <3> QED
      BY <1>4, <2>2, <3>1, CopiedText
  <2>4. /\ cache'[slot[w]].request = Key(w) /\ cache'[slot[w]].response = copy
        /\ \A i \in (1 .. Pairs) \ {slot[w]} : cache'[i] = cache[i]
    <3>1. cache \in [1 .. Pairs -> Pair]
      BY DEF ProxyInv, TypeInv, ProxyTypeOK, Pair
    <3>2. cache' = Stored(w) /\ cache'[slot[w]] = Copied(w)
      BY <1>4, <2>2, <3>1, StoredPairs
    <3> QED
      BY <1>4, <3>1, <3>2 DEF Stored, Copied
  <2> HIDE DEF copy
  <2> QED
    BY <1>4, <2>3, <2>4 DEF ProxyInv, Whole, Valid
<1>8. "store" \in InMutex /\ "close" \notin InMutex
  BY DEF InMutex
<1> QED
  BY <1>1, <1>2, <1>3, <1>6, <1>7, <1>8, WorkerKeeps DEF fetchVars

LEMMA SendKeeps ==
    ASSUME ProxyInv, TypeInv', NEW w \in Workers, send_request(w)
    PROVE  ProxyInv'
<1>1. Step(w, "connect", "forward") /\ {"connect", "forward"} \subseteq Labels \ {"idle"}
  BY DEF send_request, Labels
<1>2. /\ pc[w] = "connect" /\ pc'[w] = "forward"
      /\ \A u \in Workers \ {w} : pc'[u] = pc[u]
  BY <1>1, Moves DEF ProxyInv
<1>3. /\ UNCHANGED <<outsideVars, sent, conn, slot, cacheVars>> /\ nread'[w] = 0
      /\ \A u \in Workers \ {w} : nread'[u] = nread[u] /\ content'[u] = content[u]
  BY DEF send_request, ProxyInv, TypeInv, ProxyTypeOK
<1>4. Progress(w) /\ Key(w)' = Key(w)
  BY <1>3 DEF ProxyInv, Key, outsideVars, peerVars
<1>5. Progress(w)'
  <2>1. sent[conn[w]] = << >>
    BY <1>2, <1>4 DEF Progress, Asking
  <2>2. SubSeq(Object(Key(w)), 1, 0) = << >>
    BY SubSeqEmpty
  <2>3. 0 \notin 1 .. ObjSize
    BY SizesAssumption
  <2> QED
    BY <1>2, <1>3, <1>4, <2>1, <2>2, <2>3
    DEF Progress, Asking, Fetched, outsideVars, peerVars
<1>6. Whole' /\ lock' = lock /\ "connect" \notin InMutex /\ "forward" \notin InMutex
  BY <1>3, WholeKept DEF ProxyInv, cacheVars, InMutex
<1> QED
  BY <1>1, <1>2, <1>3, <1>5, <1>6, WorkerKeeps DEF cacheVars

(* The first n + 1 lines of an object are the first n and the next one.    *)
LEMMA NextLine ==
    ASSUME NEW k \in Keys, NEW n \in Nat, n < Length[k]
    PROVE  /\ SubSeq(Object(k), 1, n) \in Seq(Cells)
           /\ Line(k, n + 1) \in Cells
           /\ Append(SubSeq(Object(k), 1, n), Line(k, n + 1)) = SubSeq(Object(k), 1, n + 1)
           /\ SubSeq(Object(k), 1, n) \o <<Line(k, n + 1)>> = SubSeq(Object(k), 1, n + 1)
<1>1. /\ Object(k) \in Seq(Cells) /\ Len(Object(k)) = Length[k] /\ Length[k] \in Nat
      /\ \A i \in 1 .. Length[k] : Object(k)[i] = Line(k, i) /\ Line(k, i) \in Cells
  BY ObjectIsText, SeqMonotonic, CellFacts DEF TextCells
<1>2. n + 1 \in 1 .. Len(Object(k)) /\ 1 \in 1 .. Len(Object(k)) /\ (n + 1) - 1 = n
  BY <1>1
<1>3. SubSeq(Object(k), 1, n) \in Seq(Cells)
  BY <1>1, SubSeqProperties
<1>4. SubSeq(Object(k), 1, n + 1) = SubSeq(Object(k), 1, (n + 1) - 1) \o <<Object(k)[n + 1]>>
  BY <1>1, <1>2, SubSeqRecursiveSecond
<1>5. Object(k)[n + 1] = Line(k, n + 1) /\ Line(k, n + 1) \in Cells
  BY <1>1, <1>2
<1> QED
  BY <1>2, <1>3, <1>4, <1>5, AppendIsConcat

LEMMA LastLine ==
    ASSUME NEW k \in Keys, NEW n \in Nat, n < Length[k]
    PROVE  SubSeq(Object(k), 1, n) \o <<Line(k, n + 1), NUL>>
               = Append(SubSeq(Object(k), 1, n + 1), NUL)
<1> DEFINE a == SubSeq(Object(k), 1, n)
           b == SubSeq(Object(k), 1, n + 1)
           line == Line(k, n + 1)
<1>1. a \in Seq(Cells) /\ line \in Cells /\ NUL \in Cells /\ b = a \o <<line>>
  BY NextLine, CellFacts
<1> HIDE DEF a, b, line, NUL
<1>2. <<line>> \in Seq(Cells) /\ <<NUL>> \in Seq(Cells) /\ <<line>> \o <<NUL>> = <<line, NUL>>
  <2>1. <<line>> \in Seq(Cells) /\ <<NUL>> \in Seq(Cells) /\ <<line, NUL>> \in Seq(Cells)
    BY <1>1
  <2>2. /\ <<line>> \o <<NUL>> \in Seq(Cells) /\ Len(<<line>> \o <<NUL>>) = 2
        /\ (<<line>> \o <<NUL>>)[1] = line /\ (<<line>> \o <<NUL>>)[2] = NUL
    BY <2>1, ConcatProperties
  <2> DEFINE both == <<line>> \o <<NUL>>
             pair == <<line, NUL>>
  <2>3. Len(pair) = 2 /\ pair[1] = line /\ pair[2] = NUL
    OBVIOUS
  <2>4. both = pair
    <3>1. \A i \in 1 .. 2 : i = 1 \/ i = 2
      OBVIOUS
    <3> HIDE DEF both, pair
    <3>2. both \in Seq(Cells) /\ pair \in Seq(Cells) /\ Len(both) = 2
      BY <2>1, <2>2 DEF both, pair
    <3>3. \A i \in 1 .. Len(both) : both[i] = pair[i]
      BY <2>2, <2>3, <3>1, <3>2 DEF both
    <3> QED
      BY <2>3, <3>2, <3>3, SeqEqual
  <2> QED
    BY <2>1, <2>4
<1>3. b \in Seq(Cells)
  BY <1>1, <1>2, ConcatProperties
<1>4. Append(b, NUL) = b \o <<NUL>>
  BY <1>1, <1>3, AppendIsConcat
<1>5. (a \o <<line>>) \o <<NUL>> = a \o (<<line>> \o <<NUL>>)
  BY <1>1, <1>2, ConcatAssociative
<1>6. a \o <<line, NUL>> = Append(b, NUL)
  BY <1>1, <1>2, <1>4, <1>5
<1> QED
  BY <1>6 DEF a, b, line

LEMMA LineKeeps ==
    ASSUME OriginsDeliver, ProxyInv, TypeInv', NEW w \in Workers, forward_line(w)
    PROVE  ProxyInv'
<1> DEFINE n == nread[w]
           k == Key(w)
           c == conn[w]
<1>1. /\ pc[w] = "forward" /\ pc' = pc /\ nread'[w] = n + 1
      /\ UNCHANGED <<outsideVars, conn, slot, cacheVars>>
      /\ \A u \in Workers \ {w} : nread'[u] = nread[u] /\ content'[u] = content[u]
  BY DEF forward_line, At, ProxyInv, TypeInv, ProxyTypeOK
<1>2. c \in Conns /\ k \in Keys /\ n \in Nat /\ n < Length[k]
  <2>1. c \in Conns /\ k \in Keys /\ n \in Nat
    BY <1>1 DEF ProxyInv, TypeInv, ProxyTypeOK, Busy, Key
  <2>2. n <= Length[k] /\ Length[k] \in Nat /\ n < Length[k]
    BY <1>1, <2>1, LengthAssumption DEF forward_line
  <2> QED
    BY <2>1, <2>2
<1>3. Progress(w) /\ Key(w)' = Key(w)
  BY <1>1 DEF ProxyInv, Key, outsideVars, peerVars
<1>4. Write(c, <<Line(k, n + 1)>>)
  BY DEF forward_line
<1> HIDE DEF n, k, c
<1>5. <<Line(k, n + 1)>> \in Seq(Cells)
  <2>1. Line(k, n + 1) \in Cells
    BY <1>2, NextLine
  <2> QED
    BY <2>1
<1>6. /\ client[c] = "open" => sent'[c] = sent[c] \o <<Line(k, n + 1)>>
      /\ \A d \in Conns \ {c} : sent'[d] = sent[d]
  BY <1>2, <1>4, <1>5, WriteTypes DEF ProxyInv
<1>7. client[c] = "open" => sent'[c] = SubSeq(Object(k), 1, n + 1)
  <2>1. client[c] = "open" => sent[c] = SubSeq(Object(k), 1, n)
    BY <1>1, <1>3 DEF Progress, n, k, c
  <2> QED
    BY <1>2, <1>6, <2>1, NextLine
<1>8. n + 1 \in 1 .. ObjSize => content'[w] = Append(SubSeq(Object(k), 1, n + 1), NUL)
  <2> SUFFICES ASSUME n + 1 \in 1 .. ObjSize
               PROVE  content'[w] = Append(SubSeq(Object(k), 1, n + 1), NUL)
    OBVIOUS
  <2>1. content'[w] = Append_strcpy(content[w], n, Line(k, n + 1))
    BY SizesAssumption DEF forward_line, n, k, ProxyInv, TypeInv, ProxyTypeOK
  <2>2. content'[w] = SubSeq(content[w], 1, n) \o <<Line(k, n + 1), NUL>>
    BY <2>1 DEF OriginsDeliver, Append_strcpy
  <2>3. SubSeq(content[w], 1, n) = SubSeq(Object(k), 1, n)
    <3>1. CASE n = 0
      BY <3>1, SubSeqEmpty
    <3>2. CASE n # 0
      <4>1. n \in 1 .. ObjSize
        BY <1>2, <3>2, SizesAssumption
      <4>2. content[w] = Append(SubSeq(Object(k), 1, n), NUL)
        BY <1>1, <1>3, <4>1 DEF Progress, n, k
      <4>3. /\ Object(k) \in Seq(Cells) /\ Len(Object(k)) = Length[k] /\ Length[k] \in Nat
        BY <1>2, ObjectIsText, SeqMonotonic DEF TextCells
      <4>4. \A i \in 1 .. n : Object(k)[i] \in Cells
        BY <1>2, <4>3, ElementOfSeq
      <4>5. SubSeq(Object(k), 1, n) \in Seq(Cells) /\ Len(SubSeq(Object(k), 1, n)) = n
        BY <1>2, <3>2, <4>4, SubSeqProperties
      <4> QED
        BY <4>2, <4>5, CellFacts, BeforeLast
    <3> QED
      BY <3>1, <3>2
  <2> QED
    BY <1>2, <2>2, <2>3, NextLine, LastLine
<1>9. Progress(w)'
  BY <1>1, <1>3, <1>7, <1>8 DEF Progress, Asking, Fetched, n, k, c, outsideVars, peerVars
<1>10. /\ Whole' /\ lock' = lock /\ cache' = cache
       /\ "forward" \notin InMutex /\ "forward" \in Labels \ {"idle"}
  BY <1>1, WholeKept DEF ProxyInv, cacheVars, InMutex, Labels
<1> QED
  BY <1>1, <1>6, <1>9, <1>10, WorkerKeeps DEF c

LEMMA EofKeeps ==
    ASSUME OriginsDeliver, ProxyInv, TypeInv', NEW w \in Workers, forward_eof(w)
    PROVE  ProxyInv'
<1> DEFINE k == Key(w)
<1>1. PICK to \in {"insert", "close"} :
          /\ Step(w, "forward", to)
          /\ to = "insert" => nread[w] <= ObjSize
  BY DEF forward_eof, Ends, Step
<1>2. /\ to \in Labels \ {"idle"} /\ "forward" \in Labels \ {"idle"}
      /\ to \notin InMutex /\ "forward" \notin InMutex /\ to \notin Asking
      /\ to = "insert" => to \in Fetched
  BY DEF Labels, InMutex, Asking, Fetched
<1>3. pc[w] = "forward" /\ pc'[w] = to /\ \A u \in Workers \ {w} : pc'[u] = pc[u]
  BY <1>1, <1>2, Moves DEF ProxyInv
<1>4. UNCHANGED <<outsideVars, sent, conn, slot, fetchVars, cacheVars>>
  BY DEF forward_eof
<1>5. k \in Keys /\ nread[w] = Length[k]
  BY <1>3 DEF forward_eof, OriginEnds, OriginsDeliver, ProxyInv, TypeInv, ProxyTypeOK, Busy, Key
<1>6. Progress(w) /\ Key(w)' = Key(w)
  BY <1>4 DEF ProxyInv, Key, outsideVars, peerVars
<1> HIDE DEF k
<1>7. /\ Object(k) \in Seq(TextCells) /\ Object(k) \in Seq(Cells)
      /\ Length[k] \in Nat \ {0} /\ SubSeq(Object(k), 1, Length[k]) = Object(k)
      /\ Text(Object(k)) = Object(k)
  BY <1>5, ObjectIsText, SeqMonotonic, SubSeqFull, TextOfText DEF TextCells
<1>8. client[conn[w]] = "open" => Text(sent[conn[w]]) = Object(k)
  BY <1>3, <1>5, <1>6, <1>7 DEF Progress, k
<1>9. to = "insert" => Length[k] <= ObjSize /\ content[w] = Append(Object(k), NUL)
  <2>1. to = "insert" => Length[k] \in 1 .. ObjSize
    BY <1>1, <1>5, <1>7, SizesAssumption
  <2>2. nread[w] \in 1 .. ObjSize => content[w] = Append(SubSeq(Object(k), 1, nread[w]), NUL)
    BY <1>3, <1>6 DEF Progress, k
  <2>3. to = "insert" => content[w] = Append(Object(k), NUL)
    BY <1>5, <1>7, <2>1, <2>2
  <2> QED
    BY <1>1, <1>5, <2>3
<1>10. Progress(w)'
  BY <1>1, <1>2, <1>3, <1>4, <1>6, <1>8, <1>9
  DEF Progress, Fetched, k, outsideVars, peerVars, fetchVars
<1>11. Whole' /\ lock' = lock /\ cache' = cache
  BY <1>4, WholeKept DEF ProxyInv, cacheVars
<1> QED
  BY <1>2, <1>3, <1>4, <1>10, <1>11, WorkerKeeps DEF fetchVars

LEMMA QueueRange ==
    ASSUME ProxyInv
    PROVE  /\ queue \in Seq(Conns) /\ Len(queue) \in Nat
           /\ Range(queue) = {queue[i] : i \in 1 .. Len(queue)}
           /\ Range(queue) \subseteq Conns
  BY LenProperties, RangeEquality, RangeOfSeq DEF ProxyInv, TypeInv, ProxyTypeOK

LEMMA AcceptKeeps ==
    ASSUME ProxyInv, TypeInv', NEW c \in Conns, Accept(c)
    PROVE  ProxyInv'
<1>1. /\ UNCHANGED <<wants, client, sent, workerVars, cacheVars>>
      /\ c \in fresh /\ fresh' = fresh \ {c} /\ queue' = Append(queue, c)
  BY DEF Accept, sbuf_insert
<1>2. UNCHANGED <<pc, conn, slot, nread, content, cache, lock>>
  BY <1>1 DEF workerVars, fetchVars, cacheVars
<1> DEFINE n == Len(queue)
<1>3. /\ queue' \in Seq(Conns) /\ Len(queue') = n + 1 /\ n \in Nat
      /\ queue'[n + 1] = c /\ \A i \in 1 .. n : queue'[i] = queue[i]
  BY <1>1, QueueRange, AppendProperties
<1>4. \A i \in 1 .. n : queue[i] # c
  BY <1>1, QueueRange DEF ProxyInv, OnePlace
<1> HIDE DEF n
<1>5. Range(queue') = Range(queue) \cup {c}
  <2>1. Range(queue') = {queue'[i] : i \in 1 .. n + 1}
    BY <1>3, RangeEquality
  <2>2. Range(queue) = {queue[i] : i \in 1 .. n}
    BY QueueRange DEF n
  <2>3. \A i \in 1 .. n + 1 : i = n + 1 \/ i \in 1 .. n
    BY <1>3
  <2>4. \A i \in 1 .. n : i \in 1 .. n + 1
    BY <1>3
  <2>5. n + 1 \in 1 .. n + 1
    BY <1>3
  <2> QED
    BY <1>3, <2>1, <2>2, <2>3, <2>4, <2>5
<1>6. OnePlace'
  <2>1. \A i, j \in 1 .. Len(queue') : queue'[i] = queue'[j] => i = j
    <3> SUFFICES ASSUME NEW i \in 1 .. n + 1, NEW j \in 1 .. n + 1, queue'[i] = queue'[j]
                 PROVE  i = j
      BY <1>3
    <3>1. (i = n + 1 \/ i \in 1 .. n) /\ (j = n + 1 \/ j \in 1 .. n)
      BY <1>3
    <3> QED
      BY <1>3, <1>4, <3>1 DEF ProxyInv, OnePlace, n
  <2>2. fresh' \cup Range(queue') = fresh \cup Range(queue)
    BY <1>1, <1>5
  <2>3. fresh' \cap Range(queue') = {}
    BY <1>1, <1>5 DEF ProxyInv, OnePlace
  <2> QED
    BY <1>2, <2>1, <2>2, <2>3 DEF ProxyInv, OnePlace
<1>7. Unsent'
  BY <1>1, <1>5 DEF ProxyInv, Unsent
<1>8. Answered'
  <2>1. Served' = Served
    BY <1>1, <1>2, <1>5 DEF Served
  <2> QED
    BY <1>1, <2>1 DEF ProxyInv, Answered
<1>9. MutexHeld' /\ Whole'
  BY <1>2, WholeKept DEF ProxyInv, MutexHeld
<1>10. \A w \in Workers : Progress(w)'
  BY <1>1, <1>2 DEF ProxyInv, Progress, Key
<1> QED
  BY <1>6, <1>7, <1>8, <1>9, <1>10 DEF ProxyInv

LEMMA TakeKeeps ==
    ASSUME ProxyInv, TypeInv', NEW w \in Workers, Take(w)
    PROVE  ProxyInv'
<1>1. /\ pc[w] = "idle" /\ pc'[w] = "read" /\ \A u \in Workers \ {w} : pc'[u] = pc[u]
  BY Moves DEF Take, ProxyInv, Labels
<1>2. PICK c \in Conns : sbuf_remove(c) /\ conn' = [conn EXCEPT ![w] = c]
  BY DEF Take
<1>3. /\ queue # << >> /\ c = Head(queue) /\ queue' = Tail(queue)
  BY <1>2 DEF sbuf_remove
<1>4. UNCHANGED <<fresh, wants, client, sent, slot, nread, content, cache, lock>>
  BY DEF Take, peerVars, fetchVars, cacheVars
<1>5. conn'[w] = c /\ \A u \in Workers \ {w} : conn'[u] = conn[u]
  BY <1>2 DEF ProxyInv, TypeInv, ProxyTypeOK
<1> DEFINE n == Len(queue)
<1>6. /\ n \in Nat \ {0} /\ c = queue[1]
      /\ queue' \in Seq(Conns) /\ Len(queue') = n - 1
      /\ \A i \in 1 .. n - 1 : queue'[i] = queue[i + 1]
  BY <1>3, QueueRange, HeadTailProperties, EmptySeq
<1>7. \A i, j \in 1 .. n : queue[i] = queue[j] => i = j
  BY DEF ProxyInv, OnePlace
<1>8. Range(queue) = {queue[i] : i \in 1 .. n}
  BY QueueRange
<1> HIDE DEF n
<1>9. Range(queue') = Range(queue) \ {c} /\ c \in Range(queue)
  <2>1. Range(queue') = {queue'[i] : i \in 1 .. n - 1}
    BY <1>6, RangeEquality
  <2>2. 1 \in 1 .. n /\ \A i \in 1 .. n - 1 : i + 1 \in 1 .. n /\ i + 1 # 1
    BY <1>6
  <2>3. \A j \in 1 .. n : j # 1 => j - 1 \in 1 .. n - 1 /\ (j - 1) + 1 = j
    BY <1>6
  <2>4. \A i \in 1 .. n - 1 : queue'[i] \in Range(queue) /\ queue'[i] # c
    BY <1>6, <1>7, <1>8, <2>2
  <2>5. ASSUME NEW d \in Range(queue), d # c
        PROVE  \E i \in 1 .. n - 1 : d = queue'[i]
    <3>1. PICK j \in 1 .. n : d = queue[j]
      BY <1>8
    <3>2. j # 1
      BY <1>6, <2>5, <3>1
    <3> QED
      BY <1>6, <2>3, <3>1, <3>2
  <2>6. c \in Range(queue)
    BY <1>6, <1>8, <2>2
  <2> QED
    BY <2>1, <2>4, <2>5, <2>6
<1>10. \A u \in Workers \ {w} : conn[u] # c
  BY <1>9 DEF ProxyInv, OnePlace
<1>11. OnePlace'
  <2>1. \A i, j \in 1 .. Len(queue') : queue'[i] = queue'[j] => i = j
    <3> SUFFICES ASSUME NEW i \in 1 .. n - 1, NEW j \in 1 .. n - 1, queue'[i] = queue'[j]
                 PROVE  i = j
      BY <1>6
    <3>1. i + 1 \in 1 .. n /\ j + 1 \in 1 .. n
      BY <1>6
    <3>2. i + 1 = j + 1
      BY <1>6, <1>7, <3>1
    <3> QED
      BY <3>2
  <2>2. fresh' \cap Range(queue') = {}
    BY <1>4, <1>9 DEF ProxyInv, OnePlace
  <2>3. \A u \in Workers : conn'[u] \notin fresh' \cup Range(queue')
    BY <1>4, <1>5, <1>9 DEF ProxyInv, OnePlace
  <2>4. \A u, v \in Workers : conn'[u] = conn'[v] /\ conn'[u] \in Conns => u = v
    BY <1>5, <1>10 DEF ProxyInv, OnePlace
  <2>5. \A u \in Workers : pc'[u] = "idle" => conn'[u] = None
    BY <1>1, <1>5 DEF ProxyInv, OnePlace
  <2> QED
    BY <2>1, <2>2, <2>3, <2>4, <2>5 DEF OnePlace
<1>12. Unsent'
  BY <1>4, <1>9 DEF ProxyInv, Unsent
<1>13. Answered'
  <2>1. conn[w] = None
    BY <1>1 DEF ProxyInv, OnePlace
  <2>2. None \notin Conns
    BY NoneAssumption
  <2>3. Served' \subseteq Served
    <3> SUFFICES ASSUME NEW d \in Served'
                 PROVE  d \in Served
      OBVIOUS
    <3>1. d \in Conns /\ d \notin fresh /\ d \notin Range(queue') /\ \A u \in Workers : d # conn'[u]
      BY <1>4 DEF Served
    <3>2. d # c /\ d \notin Range(queue)
      BY <1>5, <1>9, <3>1
    <3>3. \A u \in Workers : d # conn[u]
      BY <1>5, <2>1, <2>2, <3>1
    <3> QED
      BY <3>1, <3>2, <3>3 DEF Served
  <2> QED
    BY <1>4, <2>3 DEF ProxyInv, Answered
<1>14. Whole' /\ MutexHeld'
  <2>1. MutexHeld'
    BY <1>1, <1>4 DEF ProxyInv, MutexHeld, InMutex
  <2> QED
    BY <1>4, <2>1, WholeKept DEF ProxyInv
<1>15. \A u \in Workers : Progress(u)'
  <2>1. ASSUME NEW u \in Workers, u # w
        PROVE  Progress(u)'
    BY <1>1, <1>4, <1>5, <2>1 DEF ProxyInv, Progress, Key
  <2>2. Progress(w)'
    <3>1. sent[c] = << >>
      BY <1>9 DEF ProxyInv, Unsent
    <3> QED
      BY <1>1, <1>4, <1>5, <3>1 DEF Progress, Fetched
  <2> QED
    BY <2>1, <2>2
<1> QED
  BY <1>11, <1>12, <1>13, <1>14, <1>15 DEF ProxyInv

LEMMA CloseKeeps ==
    ASSUME ProxyInv, TypeInv', NEW w \in Workers, Close(w)
    PROVE  ProxyInv'
<1>1. /\ pc[w] = "close" /\ pc'[w] = "idle" /\ \A u \in Workers \ {w} : pc'[u] = pc[u]
  BY Moves DEF Close, ProxyInv, Labels
<1>2. /\ conn'[w] = None /\ \A u \in Workers \ {w} : conn'[u] = conn[u]
      /\ None \notin Conns
  BY NoneAssumption DEF Close, ProxyInv, TypeInv, ProxyTypeOK
<1>3. /\ UNCHANGED <<queue, fresh, wants, client, sent, slot, nread, cache, lock>>
      /\ \A u \in Workers \ {w} : content'[u] = content[u]
  BY DEF Close, outsideVars, queueVars, peerVars, cacheVars, ProxyInv, TypeInv, ProxyTypeOK
<1>4. fresh \cup Range(queue) \subseteq Conns
  BY QueueRange DEF ProxyInv, TypeInv, ProxyTypeOK
<1>5. OnePlace'
  BY <1>1, <1>2, <1>3, <1>4 DEF ProxyInv, OnePlace
<1>6. Unsent'
  BY <1>3 DEF ProxyInv, Unsent
<1>7. Answered'
  <2>1. Served' \subseteq Served \cup {conn[w]}
    BY <1>2, <1>3 DEF Served
  <2>2. client[conn[w]] = "open" => Text(sent[conn[w]]) = Object(wants[conn[w]])
    BY <1>1 DEF ProxyInv, Progress, Key
  <2> QED
    BY <1>3, <2>1, <2>2 DEF ProxyInv, Answered
<1>8. Whole' /\ MutexHeld'
  <2>1. MutexHeld'
    BY <1>1, <1>3 DEF ProxyInv, MutexHeld, InMutex
  <2> QED
    BY <1>3, <2>1, WholeKept DEF ProxyInv
<1>9. \A u \in Workers : Progress(u)'
  <2>1. ASSUME NEW u \in Workers, u # w
        PROVE  Progress(u)'
    BY <1>1, <1>2, <1>3, <2>1 DEF ProxyInv, Progress, Key
  <2>2. Progress(w)'
    BY <1>1 DEF Progress, Asking, Fetched
  <2> QED
    BY <2>1, <2>2
<1> QED
  BY <1>5, <1>6, <1>7, <1>8, <1>9 DEF ProxyInv

LEMMA PeerKeeps ==
    ASSUME ProxyInv, TypeInv',
           \/ UNCHANGED vars
           \/ \E w \in Workers : unix_error(w) \/ overrun(w)
           \/ \E c \in Conns : ClientFault(c) \/ ClientStalls(c)
    PROVE  ProxyInv'
<1>1. /\ UNCHANGED <<queueVars, fresh, wants, sent, workerVars, cacheVars>>
      /\ \A c \in Conns : client'[c] = "open" => client[c] = "open"
  <2>1. client \in [Conns -> {"open", "closed", "reset", "stalled"}]
    BY DEF ProxyInv, TypeInv, ProxyTypeOK
  <2>2. CASE UNCHANGED vars
    BY <2>2 DEF vars, outsideVars, peerVars
  <2>3. CASE \E w \in Workers : unix_error(w) \/ overrun(w)
    BY <2>3 DEF unix_error, overrun, Exit, peerVars
  <2>4. CASE \E c \in Conns : ClientFault(c)
    <3>1. PICK c \in Conns : ClientFault(c)
      BY <2>4
    <3>2. client[c] = "open" /\ \A d \in Conns \ {c} : client'[d] = client[d]
      BY <2>1, <3>1 DEF ClientFault
    <3> QED
      BY <3>1, <3>2 DEF ClientFault
  <2>5. CASE \E c \in Conns : ClientStalls(c)
    BY <2>1, <2>5 DEF ClientStalls
  <2> QED
    BY <2>2, <2>3, <2>4, <2>5
<1>2. UNCHANGED <<queue, pc, conn, slot, nread, content, cache, lock>>
  BY <1>1 DEF queueVars, workerVars, fetchVars, cacheVars
<1>3. OnePlace' /\ Unsent' /\ MutexHeld'
  BY <1>1, <1>2 DEF ProxyInv, OnePlace, Unsent, MutexHeld
<1>4. Answered'
  <2>1. Served' = Served /\ Served \subseteq Conns
    BY <1>1, <1>2 DEF Served
  <2> QED
    BY <1>1, <2>1 DEF ProxyInv, Answered
<1>5. Whole'
  BY <1>2, WholeKept DEF ProxyInv
<1>6. ASSUME NEW w \in Workers
      PROVE  Progress(w)'
  <2>1. pc[w] # "idle" => conn[w] \in Conns
    BY DEF ProxyInv, TypeInv, Busy
  <2> QED
    BY <1>1, <1>2, <2>1 DEF ProxyInv, Progress, Key, Asking, Fetched
<1> QED
  BY <1>3, <1>4, <1>5, <1>6 DEF ProxyInv

LEMMA ProxyInit == Init => ProxyInv
<1> SUFFICES ASSUME Init
             PROVE  ProxyInv
  OBVIOUS
<1>1. /\ \A w \in Workers : pc[w] = "idle" /\ conn[w] = None
      /\ fresh = Conns /\ queue = << >> /\ lock = None
      /\ None \notin Conns /\ None \notin Workers
  BY NoneAssumption DEF Init, InitQueue
<1>2. Len(queue) = 0 /\ Range(queue) = {}
  <2>1. queue \in Seq(Conns) /\ Len(queue) = 0
    BY <1>1, EmptySeq
  <2>2. Range(queue) = {queue[i] : i \in 1 .. 0}
    BY <2>1, RangeEquality
  <2> QED
    BY <2>1, <2>2
<1>3. OnePlace
  BY <1>1, <1>2 DEF OnePlace
<1>4. MutexHeld
  BY <1>1 DEF MutexHeld, InMutex
<1>5. \A w \in Workers : Progress(w)
  BY <1>1 DEF Progress, Asking, Fetched
<1>6. Unsent
  BY <1>1, <1>2 DEF Init, Unsent
<1>7. Answered
  BY <1>1 DEF Answered, Served
<1>8. Whole
  BY DEF Init, Whole, Valid
<1> QED
  BY <1>3, <1>4, <1>5, <1>6, <1>7, <1>8, TypeInit DEF ProxyInv

LEMMA ProxyStep ==
    ASSUME OriginsDeliver, ProxyInv, [Next]_vars
    PROVE  ProxyInv'
<1>1. TypeInv'
  BY TypeStep DEF ProxyInv
<1>2. ASSUME NEW c \in Conns, Accept(c)
      PROVE  ProxyInv'
  BY <1>1, <1>2, AcceptKeeps
<1>3. ASSUME NEW w \in Workers, thread(w) \/ OriginStalls(w)
      PROVE  ProxyInv'
  <2>1. ~ forward_reset(w)
    BY DEF forward_reset, OriginsDeliver
  <2> QED
    BY <1>1, <1>3, <2>1, TakeKeeps, QuietKeeps, HitKeeps, ReplyKeeps, StoreKeeps,
       SendKeeps, LineKeeps, EofKeeps, CloseKeeps, PeerKeeps
    DEF thread, cache_find, forward_response, cache_insert
<1> QED
  BY <1>1, <1>2, <1>3, PeerKeeps DEF Next, Quiet

LEMMA ProxyInvariant ==
    ASSUME OriginsDeliver
    PROVE  Spec => []ProxyInv
<1>1. ProxyInv /\ [Next]_vars => ProxyInv'
  BY ProxyStep
<1> QED
  BY ProxyInit, <1>1, PTL DEF Spec

(* cache_insert and cache_find: whatever is cached under a tag is the      *)
(* whole object of that tag, however many workers share the cache.         *)
THEOREM CacheIsFaithful ==
    ASSUME OriginsDeliver
    PROVE  Spec => []CacheFaithful
<1>1. ProxyInv => CacheFaithful
  BY DEF ProxyInv, Whole, CacheFaithful
<1> QED
  BY <1>1, ProxyInvariant, PTL

(* doit: a client that stayed was sent the object it asked for, whoever    *)
(* else goes away, resets its connection, stalls or asks for nonsense.     *)
THEOREM RepliesAreRight ==
    ASSUME OriginsDeliver
    PROVE  Spec => []RepliesRight
<1>1. ProxyInv => RepliesRight
  BY DEF ProxyInv, Answered, RepliesRight
<1> QED
  BY <1>1, ProxyInvariant, PTL

-----------------------------------------------------------------------------
(* The cache as a list in order of use.                                    *)

(* The same of any array of pairs c, so that it can be said of the cache   *)
(* before and after a step.                                                *)
InUse(c)   == {i \in 1 .. Pairs : c[i].valid}
StampOf(c) == [i \in 1 .. Pairs |-> c[i].time_stamp]
EntryOf(c) == [i \in 1 .. Pairs |-> <<c[i].request, Text(c[i].response)>>]
ListOf(c)  == InOrder(InUse(c), StampOf(c), EntryOf(c))

Listable == (Keys \cup {None}) \X Seq(TextCells)

RecentOf(c) ==
    [n \in 1 .. Cardinality(InUse(c)) |->
        LET i == CHOOSE i \in InUse(c) :
                     Cardinality({j \in InUse(c) : c[j].time_stamp > c[i].time_stamp}) = n - 1
        IN  <<c[i].request, Text(c[i].response)>>]

(* Pairs in use have different stamps, all of them in the past.  A pair    *)
(* that was found stays in use, and a pair that was chosen stays the       *)
(* choice, because only the holder of the mutex touches the cache.         *)
StampsPast ==
    /\ Stamps(InUse(cache), StampOf(cache))
    /\ \A i \in InUse(cache) : StampOf(cache)[i] < cur_time_stamp

Found(w) == pc[w] = "reply" => slot[w] \in InUse(cache)
Chosen(w) ==
    pc[w] = "store" =>
        IF InUse(cache) = 1 .. Pairs
        THEN \A j \in InUse(cache) : StampOf(cache)[slot[w]] <= StampOf(cache)[j]
        ELSE slot[w] \notin InUse(cache)

OrderInv == MutexHeld /\ StampsPast /\ \A w \in Workers : Found(w) /\ Chosen(w)

LEMMA RecentIs == Recent = RecentOf(cache) /\ Recent' = RecentOf(cache')
BY DEF Recent, RecentOf, InUse, Valid

LEMMA EntryFacts ==
    ASSUME NEW c \in [1 .. Pairs -> Pair]
    PROVE  /\ IsFiniteSet(InUse(c)) /\ InUse(c) \in SUBSET (1 .. Pairs)
           /\ StampOf(c) \in [1 .. Pairs -> Nat]
           /\ \A i \in 1 .. Pairs : EntryOf(c)[i] \in Listable
<1>1. IsFiniteSet(1 .. Pairs) /\ InUse(c) \in SUBSET (1 .. Pairs)
  BY SizesAssumption, FS_Interval DEF InUse
<1>2. IsFiniteSet(InUse(c))
  BY <1>1, FS_Subset
<1>3. StampOf(c) \in [1 .. Pairs -> Nat]
  BY DEF StampOf, Pair
<1>4. ASSUME NEW i \in 1 .. Pairs
      PROVE  EntryOf(c)[i] \in Listable
  <2>1. c[i].request \in Keys \cup {None} /\ c[i].response \in [1 .. ObjSize -> Cells]
    BY DEF Pair
  <2>2. Text(c[i].response) \in Seq(TextCells)
    BY <2>1, ArrayIsSeq, TextHasNoNull
  <2> QED
    BY <2>1, <2>2 DEF EntryOf, Listable
<1> QED
  BY <1>1, <1>2, <1>3, <1>4

LEMMA RecentIsList ==
    ASSUME NEW c \in [1 .. Pairs -> Pair], Stamps(InUse(c), StampOf(c))
    PROVE  RecentOf(c) = ListOf(c)
<1> DEFINE V == InUse(c)
           rank(i) == Cardinality({j \in V : c[j].time_stamp > c[i].time_stamp})
<1>1. V \in SUBSET (1 .. Pairs)
  BY EntryFacts
<1>2. ASSUME NEW i \in V
      PROVE  rank(i) = Rank(V, StampOf(c), i)
  <2>1. {j \in V : c[j].time_stamp > c[i].time_stamp} = Later(V, StampOf(c), i)
    BY <1>1, <1>2 DEF Later, StampOf
  <2> QED
    BY <2>1 DEF Rank
<1> DEFINE at(n) == CHOOSE i \in V : rank(i) = n - 1
           recent(n) == <<c[at(n)].request, Text(c[at(n)].response)>>
           listed(n) == EntryOf(c)[CHOOSE i \in V : Rank(V, StampOf(c), i) = n - 1]
<1>3. ASSUME NEW n \in 1 .. Cardinality(V)
      PROVE  recent(n) = listed(n)
  <2> DEFINE k == CHOOSE k \in V : Rank(V, StampOf(c), k) = n - 1
  <2>1. \E j \in V : Rank(V, StampOf(c), j) = n - 1
    BY RankTaken
  <2>2. k \in V /\ Rank(V, StampOf(c), k) = n - 1
    BY <2>1
  <2>3. at(n) \in V /\ rank(at(n)) = n - 1
    BY <1>2, <2>1
  <2>4. at(n) = k
    BY <1>2, <2>2, <2>3, RankOrder
  <2>5. EntryOf(c)[k] = <<c[k].request, Text(c[k].response)>>
    BY <1>1, <2>2 DEF EntryOf
  <2> QED
    BY <2>4, <2>5
<1>4. RecentOf(c) = [n \in 1 .. Cardinality(V) |-> recent(n)]
  BY DEF RecentOf
<1>5. ListOf(c) = [n \in 1 .. Cardinality(V) |-> listed(n)]
  BY DEF ListOf, InOrder
<1> HIDE DEF recent, listed
<1> QED
  BY <1>3, <1>4, <1>5

LEMMA OneHolder ==
    ASSUME MutexHeld, NEW w \in Workers, pc[w] \in InMutex
    PROVE  \A u \in Workers \ {w} : pc[u] \notin {"reply", "store"}
BY DEF MutexHeld, InMutex

(* Steps that leave the cache alone.                                       *)
LEMMA OrderKept ==
    ASSUME OrderInv, lock \in Workers \cup {None}, NEW w \in Workers, NEW from, NEW to,
           pc[w] = from, pc'[w] = to, \A u \in Workers \ {w} : pc'[u] = pc[u],
           \/ from \notin InMutex /\ to \in InMutex /\ lock = None /\ lock' = w
           \/ from \in InMutex /\ to \notin InMutex /\ lock' = None
           \/ (from \in InMutex <=> to \in InMutex) /\ lock' = lock,
           UNCHANGED <<cache, cur_time_stamp>>,
           \A u \in Workers \ {w} : slot'[u] = slot[u],
           Found(w)', Chosen(w)'
    PROVE  OrderInv'
<1>1. MutexHeld'
  BY MutexKept DEF OrderInv
<1>2. StampsPast'
  BY DEF OrderInv, StampsPast
<1>3. ASSUME NEW u \in Workers
      PROVE  Found(u)' /\ Chosen(u)'
  <2>1. CASE u = w
    BY <2>1
  <2>2. CASE u # w
    BY <2>2 DEF OrderInv, Found, Chosen
  <2> QED
    BY <2>1, <2>2
<1> QED
  BY <1>1, <1>2, <1>3 DEF OrderInv

LEMMA OrderMoves ==
    ASSUME TypeInv, OrderInv, NEW w \in Workers,
           \/ Take(w) \/ read_request(w) \/ cache_find_P(w) \/ cache_find_miss(w)
           \/ send_request(w) \/ forward_eof(w) \/ forward_reset(w)
           \/ cache_insert_P(w) \/ Close(w) \/ OriginStalls(w)
    PROVE  OrderInv' /\ cache' = cache
<1>1. PICK from \in Labels, to \in Labels \ {"reply", "store"} :
          /\ Step(w, from, to)
          /\ \/ from \notin InMutex /\ to \in InMutex /\ lock = None /\ lock' = w
             \/ from \in InMutex /\ to \notin InMutex /\ lock' = None
             \/ (from \in InMutex <=> to \in InMutex) /\ lock' = lock
  <2>1. CASE Take(w) \/ read_request(w)
    <3>1. lock' = lock /\ (Step(w, "idle", "read") \/ Step(w, "read", "find"))
      BY <2>1 DEF Take, read_request, cacheVars
    <3> QED
      BY <3>1 DEF Labels, InMutex
  <2>2. CASE cache_find_P(w) \/ cache_insert_P(w)
    <3>1. lock = None /\ lock' = w /\ (Step(w, "find", "search") \/ Step(w, "insert", "choose"))
      BY <2>2 DEF cache_find_P, cache_insert_P
    <3> QED
      BY <3>1 DEF Labels, InMutex
  <2>3. CASE cache_find_miss(w)
    <3>1. lock' = None /\ Step(w, "search", "connect")
      BY <2>3 DEF cache_find_miss
    <3> QED
      BY <3>1 DEF Labels, InMutex
  <2>4. CASE send_request(w) \/ OriginStalls(w) \/ Close(w)
    <3>1. /\ lock' = lock
          /\ Step(w, "connect", "forward") \/ Step(w, "forward", "stuck") \/ Step(w, "close", "idle")
      BY <2>4 DEF send_request, OriginStalls, Close, cacheVars
    <3> QED
      BY <3>1 DEF Labels, InMutex
  <2>5. CASE forward_eof(w) \/ forward_reset(w)
    <3>1. /\ lock' = lock
          /\ Step(w, "forward", "insert") \/ Step(w, "forward", "close")
      BY <2>5 DEF forward_eof, forward_reset, Ends, Step, cacheVars
    <3> QED
      BY <3>1 DEF Labels, InMutex
  <2> QED
    BY <2>1, <2>2, <2>3, <2>4, <2>5
<1>2. /\ pc[w] = from /\ pc'[w] = to
      /\ \A u \in Workers \ {w} : pc'[u] = pc[u]
  BY <1>1, Moves
<1>3. UNCHANGED <<cache, cur_time_stamp, slot>>
  BY DEF Take, read_request, cache_find_P, cache_find_miss, send_request, forward_eof,
     forward_reset, cache_insert_P, Close, OriginStalls, cacheVars
<1>4. Found(w)' /\ Chosen(w)'
  BY <1>2 DEF Found, Chosen
<1>5. lock \in Workers \cup {None}
  BY DEF TypeInv, ProxyTypeOK
<1> QED
  BY <1>1, <1>2, <1>3, <1>4, <1>5, OrderKept

LEMMA OrderSearched ==
    ASSUME TypeInv, OrderInv, NEW w \in Workers, cache_find_hit(w) \/ cache_insert_choose(w)
    PROVE  OrderInv' /\ cache' = cache
<1>1. PICK from \in Labels \cap InMutex, to \in Labels \cap InMutex :
          /\ Step(w, from, to)
          /\ to = "reply" => cache_find_hit(w)
          /\ to = "store" => cache_insert_choose(w)
          /\ to \in {"reply", "store"}
  BY DEF Labels, InMutex, cache_find_hit, cache_insert_choose
<1>2. /\ pc[w] = from /\ pc'[w] = to
      /\ \A u \in Workers \ {w} : pc'[u] = pc[u]
  BY <1>1, Moves
<1>3. UNCHANGED <<cache, cur_time_stamp, lock>>
  BY DEF cache_find_hit, cache_insert_choose, cacheVars
<1>4. slot \in [Workers -> 1 .. Pairs] /\ InUse(cache) = Valid /\ InUse(cache)' = InUse(cache)
      /\ StampOf(cache)' = StampOf(cache)
  BY <1>3 DEF TypeInv, ProxyTypeOK, InUse, Valid
<1>5. \A u \in Workers \ {w} : slot'[u] = slot[u]
  BY <1>4 DEF cache_find_hit, cache_insert_choose
<1>6. CASE to = "reply"
  <2>1. slot'[w] = Min(Matching(Key(w))) /\ Matching(Key(w)) # {}
    BY <1>1, <1>4, <1>6 DEF cache_find_hit
  <2>2. slot'[w] \in Valid
    BY <2>1, ChosenPair DEF Matching
  <2>3. Found(w)' /\ Chosen(w)'
    BY <1>2, <1>4, <1>6, <2>2 DEF Found, Chosen
  <2> QED
    BY <1>1, <1>2, <1>3, <1>5, <2>3, OrderKept DEF TypeInv, ProxyTypeOK
<1>7. CASE to = "store"
  <2>1. slot'[w] = IF Valid # 1 .. Pairs THEN Min((1 .. Pairs) \ Valid) ELSE Oldest
    BY <1>1, <1>4, <1>7 DEF cache_insert_choose
  <2>2. IF InUse(cache) = 1 .. Pairs
        THEN \A j \in InUse(cache) : StampOf(cache)[slot'[w]] <= StampOf(cache)[j]
        ELSE slot'[w] \notin InUse(cache)
    BY <1>4, <2>1, ChosenPair DEF StampOf
  <2>3. Found(w)' /\ Chosen(w)'
    BY <1>2, <1>4, <1>7, <2>2 DEF Found, Chosen
  <2> QED
    BY <1>1, <1>2, <1>3, <1>5, <2>3, OrderKept DEF TypeInv, ProxyTypeOK
<1> QED
  BY <1>1, <1>6, <1>7

LEMMA OrderLines ==
    ASSUME TypeInv, OrderInv,
           \/ UNCHANGED vars
           \/ \E w \in Workers : unix_error(w) \/ overrun(w) \/ forward_line(w)
           \/ \E c \in Conns : Accept(c) \/ ClientFault(c) \/ ClientStalls(c)
    PROVE  OrderInv' /\ cache' = cache
<1>1. UNCHANGED <<pc, slot, lock, cache, cur_time_stamp>>
  BY DEF vars, workerVars, cacheVars, unix_error, overrun, Exit, forward_line, Accept, ClientFault,
     ClientStalls
<1> QED
  BY <1>1 DEF OrderInv, MutexHeld, StampsPast, Found, Chosen

Storable == Keys \X BoundedSeq(Cells \ {NUL}, ObjSize)

(* After cache_find_reply or cache_insert_store nobody holds the mutex.    *)
LEMMA OrderReleased ==
    ASSUME TypeInv, OrderInv, NEW w \in Workers, NEW from \in {"reply", "store"},
           Step(w, from, "close"), lock' = None, StampsPast'
    PROVE  OrderInv'
<1>1. /\ pc[w] = from /\ pc'[w] = "close"
      /\ \A u \in Workers \ {w} : pc'[u] = pc[u]
  BY Moves DEF Labels
<1>2. MutexHeld'
  <2>1. from \in InMutex /\ "close" \notin InMutex /\ lock \in Workers \cup {None}
    BY DEF InMutex, TypeInv, ProxyTypeOK
  <2> QED
    BY <1>1, <2>1, MutexKept DEF OrderInv
<1>3. \A u \in Workers : pc'[u] \notin {"reply", "store"}
  <2>1. \A u \in Workers \ {w} : pc[u] \notin {"reply", "store"}
    BY <1>1, OneHolder DEF OrderInv, InMutex
  <2> QED
    BY <1>1, <2>1
<1> QED
  BY <1>2, <1>3 DEF OrderInv, Found, Chosen

LEMMA ReplyTouches ==
    ASSUME TypeInv, OrderInv, NEW w \in Workers, cache_find_reply(w)
    PROVE  OrderInv' /\ Used(Recent, Recent', Storable, Pairs)
<1> DEFINE V == InUse(cache)
           i == slot[w]
           stamp == StampOf(cache)
           new == StampOf(cache')
           entry == EntryOf(cache)
<1>1. /\ cache \in [1 .. Pairs -> Pair] /\ cur_time_stamp \in Nat /\ i \in 1 .. Pairs
      /\ Step(w, "reply", "close") /\ pc[w] = "reply"
      /\ cache' = [cache EXCEPT ![i].time_stamp = cur_time_stamp]
      /\ cur_time_stamp' = cur_time_stamp + 1 /\ lock' = None
  BY DEF cache_find_reply, Step, At, TypeInv, ProxyTypeOK, Pair
<1>2. /\ cache' \in [1 .. Pairs -> Pair]
      /\ cache'[i] = [cache[i] EXCEPT !.time_stamp = cur_time_stamp]
      /\ \A j \in (1 .. Pairs) \ {i} : cache'[j] = cache[j]
  <2>1. [cache[i] EXCEPT !.time_stamp = cur_time_stamp] \in Pair
    BY <1>1 DEF Pair
  <2> QED
    BY <1>1, <2>1
<1>3. i \in V /\ Stamps(V, stamp) /\ \A j \in V : stamp[j] < cur_time_stamp
  BY <1>1 DEF OrderInv, Found, StampsPast
<1>4. \A j \in 1 .. Pairs : /\ cache'[j].valid = cache[j].valid
                            /\ cache'[j].request = cache[j].request
                            /\ cache'[j].response = cache[j].response
  BY <1>1, <1>2 DEF Pair
<1>5. InUse(cache') = V /\ EntryOf(cache') = entry
  BY <1>4 DEF InUse, EntryOf
<1>6. V \subseteq 1 .. Pairs /\ \A j \in V : entry[j] \in Listable
  BY <1>1, EntryFacts
<1>7. new[i] = cur_time_stamp /\ \A j \in V \ {i} : new[j] = stamp[j]
  BY <1>1, <1>2, <1>6 DEF StampOf, Pair
<1>8. stamp \in [1 .. Pairs -> Nat] /\ new \in [1 .. Pairs -> Nat]
  BY <1>1, <1>2, EntryFacts
<1> HIDE DEF V, i, stamp, new, entry
<1>9. /\ Stamps(V, new)
      /\ \E n \in DOMAIN InOrder(V, stamp, entry) :
             InOrder(V, new, entry) = Touched(InOrder(V, stamp, entry), n)
  <2>1. new[i] \in Nat /\ \A j \in V : stamp[j] < new[i]
    BY <1>1, <1>3, <1>7
  <2>2. \A j \in V \ {i} : new[j] = stamp[j]
    BY <1>7
  <2>3. Retouched(V, stamp, new, i)
    BY <1>3, <2>1, <2>2 DEF Retouched
  <2> QED
    BY <2>3, RestampTouches
<1>10. Recent = InOrder(V, stamp, entry)
  BY <1>1, <1>3, RecentIs, RecentIsList DEF ListOf, V, stamp, entry
<1>11. Recent' = InOrder(V, new, entry)
  <2>1. Stamps(InUse(cache'), StampOf(cache'))
    BY <1>5, <1>9 DEF new
  <2>2. Recent' = ListOf(cache')
    BY <1>2, <2>1, RecentIs, RecentIsList
  <2> QED
    BY <1>5, <2>2 DEF ListOf, new
<1>12. StampsPast'
  <2>1. \A j \in V : new[j] < cur_time_stamp + 1
    BY <1>1, <1>3, <1>6, <1>7, <1>8
  <2> QED
    BY <1>1, <1>5, <1>9, <2>1 DEF StampsPast, new
<1> QED
  BY <1>1, <1>9, <1>10, <1>11, <1>12, OrderReleased DEF Used

LEMMA StoreAdds ==
    ASSUME ~ Spilling, TypeInv, OrderInv, NEW w \in Workers, cache_insert_store(w)
    PROVE  OrderInv' /\ Used(Recent, Recent', Storable, Pairs)
<1> DEFINE V == InUse(cache)
           W == InUse(cache')
           i == slot[w]
           stamp == StampOf(cache)
           new == StampOf(cache')
           entry == EntryOf(cache)
           entered == EntryOf(cache')
           text == Text(content[w])
           pair == [valid |-> TRUE, request |-> Key(w),
                    response |-> strcpy(cache[i].response, text),
                    time_stamp |-> cur_time_stamp]
<1>t. text \in Seq(Cells) /\ Len(text) \in Nat /\ Len(text) <= ObjSize
  <2>1. content[w] \in Seq(Cells) /\ pc[w] = "store"
    BY DEF cache_insert_store, Step, At, TypeInv, ProxyTypeOK
  <2>2. Fits(content[w])
    BY <2>1 DEF TypeInv, Busy, Fetched
  <2> QED
    BY <2>1, <2>2, FittingText, TextType, LenProperties
<1>1. /\ cache \in [1 .. Pairs -> Pair] /\ cur_time_stamp \in Nat /\ i \in 1 .. Pairs
      /\ Step(w, "store", "close") /\ pc[w] = "store"
      /\ cache' = [cache EXCEPT ![i] = pair]
      /\ cur_time_stamp' = cur_time_stamp + 1 /\ lock' = None
  <2>1. /\ cache \in [1 .. Pairs -> Pair] /\ cur_time_stamp \in Nat /\ i \in 1 .. Pairs
        /\ Step(w, "store", "close") /\ pc[w] = "store"
        /\ cur_time_stamp' = cur_time_stamp + 1 /\ lock' = None
    BY DEF cache_insert_store, Step, At, TypeInv, ProxyTypeOK, Pair
  <2>2. ~ (Len(text) > ObjSize)
    BY <1>t, SizesAssumption
  <2>3. cache' = Stored(w)
    BY <2>1, <2>2, StoredPairs
  <2> QED
    BY <2>1, <2>3 DEF Stored, Copied
<1>2. cache' \in [1 .. Pairs -> Pair] /\ Key(w) \in Keys
  <2>1. TypeInv'
    BY StoreTypes
  <2>2. conn[w] \in Conns
    BY <1>1 DEF TypeInv, Busy
  <2> QED
    BY <2>1, <2>2 DEF TypeInv, ProxyTypeOK, Pair, Key
<1>3. cache'[i] = pair /\ \A j \in (1 .. Pairs) \ {i} : cache'[j] = cache[j]
  BY <1>1
<1>4. Stamps(V, stamp) /\ \A j \in V : stamp[j] < cur_time_stamp
  BY DEF OrderInv, StampsPast
<1>5. /\ V \in SUBSET (1 .. Pairs) /\ IsFiniteSet(V) /\ W \in SUBSET (1 .. Pairs)
      /\ \A j \in 1 .. Pairs : entry[j] \in Listable /\ entered[j] \in Listable
      /\ stamp \in [1 .. Pairs -> Nat] /\ new \in [1 .. Pairs -> Nat]
  BY <1>1, <1>2, EntryFacts
<1>6. W = V \cup {i}
  BY <1>1, <1>3 DEF InUse
<1>7. /\ new[i] = cur_time_stamp
      /\ \A j \in (1 .. Pairs) \ {i} : new[j] = stamp[j] /\ entered[j] = entry[j]
  BY <1>1, <1>3 DEF StampOf, EntryOf
<1>8. entered[i] \in Storable
  <2>1. content[w] \in Seq(Cells) /\ cache[i].response \in [1 .. ObjSize -> Cells]
    BY <1>1 DEF TypeInv, ProxyTypeOK
  <2>2. text \in Seq(Cells) /\ text \in Seq(TextCells) /\ Len(text) <= ObjSize
    BY <1>t, <2>1, TextHasNoNull
  <2>3. Text(pair.response) = text
    BY <2>1, <2>2, CopiedText
  <2>4. text \in BoundedSeq(Cells \ {NUL}, ObjSize)
    <3>1. Len(text) \in 0 .. ObjSize /\ text \in [1 .. Len(text) -> Cells \ {NUL}]
      BY <2>2, LenProperties, SizesAssumption DEF TextCells
    <3> QED
      BY <3>1 DEF BoundedSeq, SeqOf
  <2>5. entered[i] = <<pair.request, Text(pair.response)>>
    BY <1>1, <1>3 DEF EntryOf
  <2> QED
    BY <1>2, <2>3, <2>4, <2>5 DEF Storable
<1>9. \/ i \notin V /\ W = V \cup {i} /\ Cardinality(V) # Pairs
      \/ W = V /\ Cardinality(V) = Pairs /\ \A j \in V : stamp[i] <= stamp[j]
  <2>1. IF V = 1 .. Pairs THEN \A j \in V : stamp[i] <= stamp[j] ELSE i \notin V
    BY <1>1 DEF OrderInv, Chosen
  <2>2. IsFiniteSet(1 .. Pairs) /\ Cardinality(1 .. Pairs) = Pairs
    BY FS_Interval, SizesAssumption
  <2>3. Cardinality(V) = Pairs <=> V = 1 .. Pairs
    BY <1>5, <2>2, FS_Subset
  <2> QED
    BY <1>1, <1>6, <2>1, <2>3
<1>10. i \in W /\ W \ {i} \subseteq (1 .. Pairs) \ {i}
  BY <1>5, <1>6
<1> HIDE DEF V, W, i, stamp, new, entry, entered
<1>11. /\ Stamps(W, new)
       /\ InOrder(W, new, entered) = Added(InOrder(V, stamp, entry), entered[i], Pairs)
  <2>1. \A j \in W \ {i} : entered[j] = entry[j]
    BY <1>7, <1>10
  <2>2. \A j \in W \ {i} : new[j] = stamp[j]
    BY <1>7, <1>10
  <2>3. new[i] \in Nat /\ \A j \in V : stamp[j] < new[i]
    BY <1>1, <1>4, <1>7
  <2> QED
    <3>1. Restamped(V, W, stamp, new, entry, entered, i, Pairs)
      BY <1>4, <1>9, <1>10, <2>1, <2>2, <2>3 DEF Restamped
    <3> QED
      BY <3>1, RestampAdds
<1>12. Recent = InOrder(V, stamp, entry)
  BY <1>1, <1>4, RecentIs, RecentIsList DEF ListOf, V, stamp, entry
<1>13. Recent' = InOrder(W, new, entered)
  BY <1>2, <1>11, RecentIs, RecentIsList DEF ListOf, W, new, entered
<1>14. StampsPast'
  <2>1. \A j \in W : new[j] < cur_time_stamp + 1
    BY <1>1, <1>4, <1>5, <1>6, <1>7
  <2> QED
    BY <1>1, <1>11, <2>1 DEF StampsPast, W, new
<1> QED
  BY <1>1, <1>8, <1>11, <1>12, <1>13, <1>14, OrderReleased DEF Used

LEMMA OrderInit ==
    ASSUME Init
    PROVE  OrderInv /\ Recent = << >>
<1>1. InUse(cache) = {} /\ Valid = {}
  BY DEF Init, InUse, Valid
<1>2. StampsPast
  BY <1>1, FS_EmptySet DEF StampsPast, Stamps
<1>3. Recent = << >>
  BY <1>1, FS_EmptySet DEF Recent
<1>4. \A w \in Workers : pc[w] = "idle" /\ lock # w
  BY NoneAssumption DEF Init
<1> QED
  BY <1>2, <1>3, <1>4 DEF OrderInv, MutexHeld, InMutex, Found, Chosen

LEMMA OrderStep ==
    ASSUME ~ Spilling, TypeInv, OrderInv, [Next]_vars
    PROVE  /\ OrderInv'
           /\ Used(Recent, Recent', Storable, Pairs) \/ cache' = cache
<1>1. ASSUME NEW c \in Conns, Accept(c) \/ ClientFault(c) \/ ClientStalls(c)
      PROVE  OrderInv' /\ cache' = cache
  BY <1>1, OrderLines
<1>2. ASSUME NEW w \in Workers, thread(w) \/ OriginStalls(w)
      PROVE  /\ OrderInv'
             /\ Used(Recent, Recent', Storable, Pairs) \/ cache' = cache
  <2>1. CASE unix_error(w) \/ overrun(w) \/ forward_line(w)
    BY <2>1, OrderLines
  <2>2. CASE \/ Take(w) \/ read_request(w) \/ cache_find_P(w) \/ cache_find_miss(w)
             \/ send_request(w) \/ forward_eof(w) \/ forward_reset(w)
             \/ cache_insert_P(w) \/ Close(w) \/ OriginStalls(w)
    BY <2>2, OrderMoves
  <2>3. CASE cache_find_hit(w) \/ cache_insert_choose(w)
    BY <2>3, OrderSearched
  <2>4. CASE cache_find_reply(w)
    BY <2>4, ReplyTouches
  <2>5. CASE cache_insert_store(w)
    BY <2>5, StoreAdds
  <2> QED
    BY <1>2, <2>1, <2>2, <2>3, <2>4, <2>5
    DEF thread, cache_find, forward_response, cache_insert
<1>3. CASE UNCHANGED vars
  BY <1>3, OrderLines
<1> QED
  BY <1>1, <1>2, <1>3 DEF Next, Quiet

(* However the workers interleave, and whatever peers do short of an       *)
(* origin that is reset or sends nothing, the pairs in use, ordered by     *)
(* their time stamps, are a least-recently-used store: a reply             *)
(* from the cache moves its pair to the front, an insertion puts the new   *)
(* object there, and only then is a pair dropped, the last one.            *)
THEOREM CacheIsLRU ==
    ASSUME Faults \cap {"origin resets", "origin sends nothing"} = {}
    PROVE  Spec => ImplementsLRU
<1>s. ~ Spilling
  BY DEF Spilling
<1>1. Init => LRU!InitRecent
  BY OrderInit DEF LRU!InitRecent
<1>2. TypeInv /\ OrderInv /\ [Next]_vars => OrderInv' /\ [LRU!NextRecent]_Recent
  <2> SUFFICES ASSUME TypeInv, OrderInv, [Next]_vars
               PROVE  OrderInv' /\ [LRU!NextRecent]_Recent
    OBVIOUS
  <2>1. /\ OrderInv'
        /\ Used(Recent, Recent', Storable, Pairs) \/ cache' = cache
    BY <1>s, OrderStep
  <2>2. Used(Recent, Recent', Storable, Pairs) => LRU!NextRecent
    BY DEF LRU!NextRecent, LRU!Used, Used, LRU!Touched, Touched, LRU!Added, Added, Storable,
       LRU!RemoveAt, RemoveAt, LRU!Front, Front
  <2>3. cache' = cache => UNCHANGED Recent
    BY RecentIs
  <2> QED
    BY <2>1, <2>2, <2>3
<1>3. TypeInv /\ [Next]_vars => TypeInv'
  BY TypeStep
<1>4. Spec => [](TypeInv /\ OrderInv)
  BY TypeInit, OrderInit, <1>2, <1>3, PTL DEF Spec
<1> QED
  BY <1>1, <1>2, <1>4, PTL DEF Spec, ImplementsLRU, LRU!SpecRecent
=============================================================================
