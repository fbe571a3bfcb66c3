--------------------------- MODULE ServingProofs ---------------------------
(***************************************************************************)
(* The readers of the proxy and of Tiny are handed their peers' streams    *)
(* line by line, whatever the clients and the other server do in between,  *)
(* their arrays never overflow, and what ends the two programs.            *)
(***************************************************************************)
EXTENDS Serving, SequenceTheorems, WellFoundedInduction, TLAPS

-----------------------------------------------------------------------------
(* Sequences.                                                              *)

IsSeq(w) == \E S : w \in Seq(S)

LEMMA SeqsTogether ==
    ASSUME NEW u, NEW v, IsSeq(u), IsSeq(v)
    PROVE  \E S : u \in Seq(S) /\ v \in Seq(S)
<1>1. PICK U, V : u \in Seq(U) /\ v \in Seq(V)
  BY DEF IsSeq
<1>2. u \in Seq(U \cup V)
  BY <1>1, SeqMonotonic
<1>3. v \in Seq(U \cup V)
  BY <1>1, SeqMonotonic
<1> QED
  BY <1>2, <1>3

LEMMA ThreeSeqsTogether ==
    ASSUME NEW u, NEW v, NEW w, IsSeq(u), IsSeq(v), IsSeq(w)
    PROVE  \E S : u \in Seq(S) /\ v \in Seq(S) /\ w \in Seq(S)
<1>1. PICK U : u \in Seq(U) /\ v \in Seq(U)
  BY SeqsTogether
<1>2. PICK V : w \in Seq(V)
  BY DEF IsSeq
<1>3. u \in Seq(U \cup V) /\ v \in Seq(U \cup V)
  BY <1>1, SeqMonotonic
<1>4. w \in Seq(U \cup V)
  BY <1>2, SeqMonotonic
<1> QED
  BY <1>3, <1>4

LEMMA ConcatIsSeq ==
    ASSUME NEW u, NEW v, IsSeq(u), IsSeq(v)
    PROVE  IsSeq(u \o v)
<1>1. PICK S : u \in Seq(S) /\ v \in Seq(S)
  BY SeqsTogether
<1>2. u \o v \in Seq(S)
  BY <1>1, ConcatProperties
<1> QED
  BY <1>2 DEF IsSeq

LEMMA PartIsSeq ==
    ASSUME NEW w, NEW m \in Nat \ {0}, NEW n \in Int
    PROVE  /\ IsSeq(SubSeq(w, m, n))
           /\ Len(SubSeq(w, m, n)) = IF m <= n THEN n - m + 1 ELSE 0
<1> DEFINE S == {w[i] : i \in m .. n}
<1>1. \A i \in m .. n : w[i] \in S
  OBVIOUS
<1> HIDE DEF S
<1>2. SubSeq(w, m, n) \in Seq(S) /\ Len(SubSeq(w, m, n)) = IF m <= n THEN n - m + 1 ELSE 0
  BY <1>1, SubSeqProperties
<1> QED
  BY <1>2 DEF IsSeq

LEMMA TailIsSeq ==
    ASSUME NEW w, IsSeq(w), w # << >>
    PROVE  /\ IsSeq(Tail(w)) /\ Range(Tail(w)) \subseteq Range(w) /\ Head(w) \in Range(w)
           /\ \A i \in DOMAIN Tail(w) : i + 1 \in DOMAIN w /\ Tail(w)[i] = w[i + 1]
           /\ Head(w) = w[1] /\ 1 \in DOMAIN w
<1>1. PICK S : w \in Seq(S)
  BY DEF IsSeq
<1>2. Len(w) \in Nat /\ DOMAIN w = 1 .. Len(w) /\ Len(w) # 0
  BY <1>1, LenProperties, EmptySeq
<1>3. /\ Tail(w) \in Seq(S) /\ Len(Tail(w)) = Len(w) - 1
      /\ \A i \in 1 .. Len(Tail(w)) : Tail(w)[i] = w[i + 1]
  BY <1>1, HeadTailProperties
<1>4. DOMAIN Tail(w) = 1 .. Len(w) - 1
  BY <1>3, LenProperties
<1>5. \A i \in DOMAIN Tail(w) : i + 1 \in DOMAIN w /\ Tail(w)[i] = w[i + 1]
  BY <1>2, <1>3, <1>4
<1>6. Head(w) = w[1] /\ 1 \in DOMAIN w
  BY <1>1, <1>2
<1> QED
  BY <1>3, <1>5, <1>6 DEF IsSeq, Range

LEMMA NatLeast ==
    ASSUME NEW S, S \subseteq Nat, S # {}
    PROVE  \E m \in S : \A y \in S : m <= y
<1>1. PICK m \in S : \A y \in S : ~ (<<y, m>> \in OpToRel(<, Nat))
  BY NatLessThanWellFounded, WFMin
<1>2. \A y \in S : ~ (y < m)
  BY <1>1 DEF OpToRel
<1> QED
  BY <1>2

-----------------------------------------------------------------------------
(* Connections and readers, as all of the steps leave them.                *)

ConnOK(c) ==
    /\ DOMAIN c = {"data", "peer", "lost", "room"} /\ c.room \in Nat
    /\ DOMAIN c.data = Sides /\ \A s \in Sides : IsSeq(c.data[s])
    /\ c.peer \in [Sides -> PeerStates] /\ c.lost \in [Sides -> BOOLEAN]

LineOK(r) ==
    /\ DOMAIN r = {"rio", "line", "buf"}
    /\ IsSeq(r.rio) /\ IsSeq(r.line)
    /\ Len(r.line) < MAXLINE - 1
    /\ \A i \in DOMAIN r.line : r.line[i] # NL

(* What is still to be handed out by r, and how a line of it is.           *)
Stream(r, data) == r.line \o r.rio \o data

Handed(w, ended, w1, line) ==
    \E n \in DOMAIN w :
        /\ \A m \in 1 .. n - 1 : ~ (w[m] = NL \/ m = MAXLINE - 1)
        /\ (w[n] = NL \/ n = MAXLINE - 1) \/ (ended /\ n = Len(w))
        /\ line = SubSeq(w, 1, n)
        /\ w1 = SubSeq(w, n + 1, Len(w))

Grown(w, w1) == w1 = w \/ (Len(w1) > Len(w) /\ SubSeq(w1, 1, Len(w)) = w)

LEMMA OtherSide ==
    ASSUME NEW s \in Sides
    PROVE  Other(s) \in Sides /\ Other(s) # s /\ Other(Other(s)) = s
BY DEF Other, Sides

(* The line that ends in the middle of a stream of three parts.            *)
CutAt(S, u, v, w, n, all) ==
    /\ all \in Seq(S) /\ Len(all) = Len(u) + Len(v) + Len(w)
    /\ \A i \in 1 .. Len(u) : all[i] = u[i]
    /\ \A i \in 1 .. Len(v) : all[Len(u) + i] = v[i]
    /\ SubSeq(all, 1, Len(u) + n) = u \o SubSeq(v, 1, n)
    /\ SubSeq(all, Len(u) + n + 1, Len(all)) = << >> \o SubSeq(v, n + 1, Len(v)) \o w

LEMMA Cut ==
    ASSUME NEW S, NEW u \in Seq(S), NEW v \in Seq(S), NEW w \in Seq(S), NEW n \in 1 .. Len(v)
    PROVE  CutAt(S, u, v, w, n, u \o v \o w)
<1> DEFINE uv == u \o v
           all == u \o v \o w
           lu == Len(u)
           lv == Len(v)
           lw == Len(w)
<1>1. lu \in Nat /\ lv \in Nat /\ lw \in Nat
  BY LenProperties
<1>2. /\ uv \in Seq(S) /\ Len(uv) = lu + lv
      /\ \A i \in 1 .. lu + lv : uv[i] = IF i <= lu THEN u[i] ELSE v[i - lu]
  BY ConcatProperties
<1>3. /\ all \in Seq(S) /\ Len(all) = Len(uv) + lw
      /\ \A i \in 1 .. Len(uv) + lw : all[i] = IF i <= Len(uv) THEN uv[i] ELSE w[i - Len(uv)]
  BY <1>2, ConcatProperties
<1>4. \A i \in 1 .. lu + lv + lw :
          all[i] = IF i <= lu THEN u[i] ELSE IF i <= lu + lv THEN v[i - lu] ELSE w[i - (lu + lv)]
  BY <1>1, <1>2, <1>3
<1>5. Len(all) = lu + lv + lw
  BY <1>1, <1>2, <1>3
<1>6. n \in 1 .. lv
  OBVIOUS
<1> DEFINE v1 == SubSeq(v, 1, n)
           v2 == SubSeq(v, n + 1, lv)
           a1 == SubSeq(all, 1, lu + n)
           a2 == SubSeq(all, lu + n + 1, Len(all))
<1>7. /\ v1 \in Seq(S) /\ Len(v1) = n /\ \A i \in 1 .. n : v1[i] = v[i]
  <2>1. \A i \in 1 .. n : v[i] \in S
    BY <1>1, <1>6, ElementOfSeq
  <2> QED
    BY <2>1, <1>1, <1>6, SubSeqProperties
<1>8. /\ v2 \in Seq(S) /\ Len(v2) = lv - n /\ \A i \in 1 .. lv - n : v2[i] = v[n + i]
  <2>1. \A i \in n + 1 .. lv : v[i] \in S
    BY <1>1, <1>6, ElementOfSeq
  <2> QED
    BY <2>1, <1>1, <1>6, SubSeqProperties
<1>9. /\ a1 \in Seq(S) /\ Len(a1) = lu + n /\ \A i \in 1 .. lu + n : a1[i] = all[i]
  <2>1. \A i \in 1 .. lu + n : all[i] \in S
    BY <1>1, <1>3, <1>5, <1>6, ElementOfSeq
  <2> QED
    BY <2>1, <1>1, <1>6, SubSeqProperties
<1>10. /\ a2 \in Seq(S) /\ Len(a2) = lv - n + lw
       /\ \A i \in 1 .. lv - n + lw : a2[i] = all[lu + n + i]
  <2>1. \A i \in lu + n + 1 .. Len(all) : all[i] \in S
    BY <1>1, <1>3, <1>5, <1>6, ElementOfSeq
  <2> HIDE DEF all
  <2>2. /\ a2 \in Seq(S)
        /\ Len(a2) = IF lu + n + 1 <= Len(all) THEN Len(all) - (lu + n + 1) + 1 ELSE 0
        /\ \A i \in 1 .. Len(all) - (lu + n + 1) + 1 : a2[i] = all[lu + n + 1 + i - 1]
    BY <2>1, <1>1, <1>5, <1>6, SubSeqProperties
  <2> QED
    BY <2>2, <1>1, <1>5, <1>6
<1>11. a1 = u \o v1
  <2> DEFINE uv1 == u \o v1
  <2>1. /\ uv1 \in Seq(S) /\ Len(uv1) = lu + n
        /\ \A i \in 1 .. lu + n : uv1[i] = IF i <= lu THEN u[i] ELSE v1[i - lu]
    BY <1>7, ConcatProperties
  <2> HIDE DEF a1, v1, all, lu, lv, lw, uv1
  <2>2. ASSUME NEW i \in 1 .. lu + n
        PROVE  a1[i] = uv1[i]
    <3>1. i \in 1 .. lu + lv + lw /\ (i > lu => i - lu \in 1 .. n)
      BY <1>1, <1>6
    <3> QED
      BY <3>1, <2>1, <1>1, <1>4, <1>6, <1>7, <1>9
  <2>3. a1 = uv1
    BY <2>1, <2>2, <1>9, SeqEqual
  <2> QED
    BY <2>3 DEF uv1
<1>12. a2 = << >> \o v2 \o w
  <2> DEFINE v2w == v2 \o w
  <2>2. << >> \o v2 \o w = v2w
    BY <1>8, ConcatEmptySeq
  <2>1. /\ v2w \in Seq(S) /\ Len(v2w) = lv - n + lw
        /\ \A i \in 1 .. lv - n + lw : v2w[i] = IF i <= lv - n THEN v2[i] ELSE w[i - (lv - n)]
    <3> HIDE DEF v2
    <3>1. /\ v2w \in Seq(S) /\ Len(v2w) = Len(v2) + Len(w)
          /\ \A i \in 1 .. Len(v2) + Len(w) :
                 v2w[i] = IF i <= Len(v2) THEN v2[i] ELSE w[i - Len(v2)]
      BY <1>8, ConcatProperties
    <3> QED
      BY <3>1, <1>8
  <2> HIDE DEF a2, v2, all, lu, lv, lw, v2w
  <2>3. ASSUME NEW i \in 1 .. lv - n + lw
        PROVE  a2[i] = v2w[i]
    <3> DEFINE j == lu + n + i
    <3>3. a2[i] = all[j]
      BY <1>10
    <3>1. j \in 1 .. lu + lv + lw /\ i \in Int /\ j = lu + n + i
      BY <1>1, <1>6
    <3> HIDE DEF j
    <3>2. j - lu = n + i /\ j - (lu + lv) = i - (lv - n)
      BY <1>1, <1>6, <3>1
    <3>6. all[j] = IF j <= lu THEN u[j] ELSE IF j <= lu + lv THEN v[j - lu] ELSE w[j - (lu + lv)]
      BY <1>4, <3>1
    <3>4. CASE i <= lv - n
      <4>1. i \in 1 .. lv - n /\ ~ (j <= lu) /\ j <= lu + lv
        BY <1>1, <1>6, <3>1, <3>4
      <4>2. all[j] = v[n + i]
        BY <3>2, <3>6, <4>1
      <4> QED
        BY <1>8, <2>1, <3>3, <3>4, <4>1, <4>2
    <3>5. CASE ~ (i <= lv - n)
      <4>1. ~ (j <= lu) /\ ~ (j <= lu + lv)
        BY <1>1, <1>6, <3>1, <3>5
      <4>2. all[j] = w[i - (lv - n)]
        BY <3>2, <3>6, <4>1
      <4> QED
        BY <2>1, <3>3, <3>5, <4>2
    <3> QED
      BY <3>4, <3>5
  <2>4. a2 = v2w
    BY <2>1, <2>3, <1>10, SeqEqual
  <2> QED
    BY <2>2, <2>4
<1>13. /\ \A i \in 1 .. lu : all[i] = u[i]
       /\ \A i \in 1 .. lv : all[lu + i] = v[i]
  BY <1>1, <1>4
<1> QED
  BY <1>3, <1>5, <1>11, <1>12, <1>13 DEF CutAt

-----------------------------------------------------------------------------
(* One system call, as it leaves the connection it is made on.             *)

(* read: what is taken from the connection is in the buffer.               *)
ReadDone(c, s, rio, y) ==
    /\ ConnOK(y.c) /\ y.rc \in {"data", "eof", "error"}
    /\ y.c.data[Other(s)] = c.data[Other(s)] /\ y.c.peer[Other(s)] = c.peer[Other(s)]
    /\ c.data[s] = << >> => y.c.data[s] = << >>
    /\ y.rc = "data" =>
           /\ y.c.peer = c.peer /\ IsSeq(y.rio)
           /\ \/ y.rio = rio /\ y.c.data[s] = c.data[s]
              \/ rio = << >> /\ c.data[s] = y.rio \o y.c.data[s]
    /\ y.rc # "data" => rio = << >> /\ c.data[s] = << >>
    /\ y.rc = "eof" => y.c = c /\ c.peer[s] \notin {"open", "reset"}
    /\ y.rc = "error" => c.peer[s] = "reset" /\ y.c.peer[s] = "broken"

LEMMA ReadStep ==
    ASSUME NEW c, NEW s \in Sides, NEW rio, ConnOK(c), IsSeq(rio), NEW y \in rio_read(c, s, rio)
    PROVE  ReadDone(c, s, rio, y)
<1> USE DEF ReadDone
<1>1. CASE rio # << >>
  BY <1>1 DEF rio_read
<1>2. CASE rio = << >>
  <2>1. PICK x \in ReadOutcomes(c, s, RIO_BUFSIZE) :
            y = [c |-> x.c, rio |-> x.got,
                 rc |-> CASE x.errno # "OK" -> "error"
                          [] x.errno = "OK" /\ x.got = << >> -> "eof"
                          [] OTHER -> "data"]
    BY <1>2, Zenon DEF rio_read
  <2>2. Other(s) \in Sides /\ Other(s) # s
    BY OtherSide
  <2>3. CASE c.data[s] # << >>
    <3>1. PICK got \in {ws \in Prefixes(c.data[s]) : Len(ws) \in 1 .. RIO_BUFSIZE} :
              x = [c |-> [c EXCEPT !.data[s] = SubSeq(@, Len(got) + 1, Len(@))],
                   got |-> got, errno |-> "OK"]
      BY <2>3, Zenon DEF ReadOutcomes
    <3> DEFINE d == c.data[s]
    <3>2. PICK l \in 0 .. Len(d) : got = SubSeq(d, 1, l)
      BY <3>1 DEF Prefixes
    <3>3. PICK S : d \in Seq(S)
      BY DEF ConnOK, IsSeq
    <3> DEFINE rest == SubSeq(d, Len(got) + 1, Len(d))
    <3>4. y.c = [c EXCEPT !.data[s] = rest] /\ y.rio = got /\ x.errno = "OK" /\ x.got = got
      BY <2>1, <3>1
    <3> HIDE DEF d
    <3>5. Len(d) \in Nat /\ \A i \in 1 .. Len(d) : d[i] \in S
      BY <3>3, LenProperties, ElementOfSeq
    <3>6. got \in Seq(S) /\ Len(got) = l /\ l >= 1
      <4>1. got \in Seq(S) /\ Len(got) = IF 1 <= l THEN l - 1 + 1 ELSE 0
        BY <3>2, <3>5, SubSeqProperties
      <4> QED
        BY <4>1, <3>1, <3>2, <3>5
    <3>7. got # << >>
      BY <3>6, EmptySeq
    <3>8. IsSeq(rest)
      BY <3>5, <3>6, <3>2, PartIsSeq
    <3>9. d = got \o rest
      <4>3. 1 \in 1 .. Len(d) + 1 /\ l \in 1 - 1 .. Len(d) /\ Len(d) \in l .. Len(d)
        BY <3>2, <3>5
      <4>1. SubSeq(d, 1, l) \o SubSeq(d, l + 1, Len(d)) = SubSeq(d, 1, Len(d))
        BY <4>3, <3>3, ConcatAdjacentSubSeq
      <4>2. SubSeq(d, 1, Len(d)) = d
        BY <3>3, SubSeqFull
      <4> QED
        BY <4>1, <4>2, <3>2, <3>6
    <3> HIDE DEF rest
    <3>10. /\ y.c.data[s] = rest /\ y.c.data[Other(s)] = c.data[Other(s)]
           /\ y.c.peer = c.peer /\ y.c.lost = c.lost /\ y.c.room = c.room
           /\ DOMAIN y.c = DOMAIN c /\ DOMAIN y.c.data = DOMAIN c.data
           /\ \A t \in Sides : t # s => y.c.data[t] = c.data[t]
      BY <3>4, <2>2 DEF ConnOK
    <3>11. ConnOK(y.c)
      BY <3>8, <3>10 DEF ConnOK
    <3>12. y.rc = "data"
      BY <2>1, <3>4, <3>7
    <3> QED
      BY <1>2, <2>3, <3>4, <3>6, <3>9, <3>10, <3>11, <3>12 DEF IsSeq, d
  <2>4. CASE c.data[s] = << >>
    <3>1. CASE c.peer[s] = "reset"
      <4>1. x = [c |-> [c EXCEPT !.peer[s] = "broken"], got |-> << >>, errno |-> "ECONNRESET"]
        BY <2>4, <3>1 DEF ReadOutcomes
      <4>2. y.c = [c EXCEPT !.peer[s] = "broken"] /\ y.rc = "error"
        BY <4>1, <2>1
      <4>3. /\ y.c.data = c.data /\ y.c.lost = c.lost /\ y.c.room = c.room /\ y.c.peer[s] = "broken"
            /\ y.c.peer = [c.peer EXCEPT ![s] = "broken"]
            /\ DOMAIN y.c = DOMAIN c /\ y.c.peer[Other(s)] = c.peer[Other(s)]
        BY <4>2, <2>2 DEF ConnOK
      <4>4. y.c.peer \in [Sides -> PeerStates]
        BY <4>3 DEF ConnOK, PeerStates
      <4> QED
        BY <1>2, <2>4, <3>1, <4>2, <4>3, <4>4 DEF ConnOK
    <3>2. CASE c.peer[s] # "reset"
      <4>1. c.peer[s] # "open" /\ x = [c |-> c, got |-> << >>, errno |-> "OK"]
        BY <2>4, <3>2 DEF ReadOutcomes
      <4>2. y.c = c /\ y.rc = "eof"
        BY <4>1, <2>1
      <4> QED
        BY <1>2, <2>4, <3>2, <4>1, <4>2
    <3> QED
      BY <3>1, <3>2
  <2> QED
    BY <2>3, <2>4
<1> QED
  BY <1>1, <1>2

(* rio_readlineb: a line that is begun waits, or is handed out; only a     *)
(* reset breaks the stream.                                                *)
LEMMA EndOfLine ==
    ASSUME NEW line, NEW rio, IsSeq(line), IsSeq(rio), Len(line) < MAXLINE - 1
    PROVE  LET n == LineEnd(line, rio) IN
           \/ /\ n = 0
              /\ \A i \in 1 .. Len(rio) : rio[i] # NL /\ Len(line) + i # MAXLINE - 1
           \/ /\ n \in 1 .. Len(rio) /\ (rio[n] = NL \/ Len(line) + n = MAXLINE - 1)
              /\ \A i \in 1 .. n - 1 : rio[i] # NL /\ Len(line) + i # MAXLINE - 1
<1> DEFINE ends == {i \in DOMAIN rio : rio[i] = NL \/ Len(line) + i = MAXLINE - 1}
<1>1. DOMAIN rio = 1 .. Len(rio) /\ Len(rio) \in Nat
  BY LenProperties DEF IsSeq
<1>2. CASE ends = {}
  <2>1. LineEnd(line, rio) = 0
    BY <1>2, Zenon DEF LineEnd
  <2> QED
    BY <2>1, <1>1, <1>2
<1>3. CASE ends # {}
  <2> DEFINE Least(i) == i \in ends /\ \A j \in ends : i <= j
  <2>1. LineEnd(line, rio) = CHOOSE i \in ends : \A j \in ends : i <= j
    BY <1>3, Zenon DEF LineEnd
  <2>2. \E i : Least(i)
    <3>1. ends \subseteq Nat
      BY <1>1
    <3>2. \E i \in ends : \A j \in ends : i <= j
      <4> HIDE DEF ends
      <4> QED
        BY <1>3, <3>1, NatLeast
    <3> QED
      BY <3>2
  <2>3. LineEnd(line, rio) \in ends /\ \A j \in ends : LineEnd(line, rio) <= j
    <3> HIDE DEF ends
    <3> QED
      BY <2>1, <2>2
  <2> DEFINE n == LineEnd(line, rio)
  <2>4. n \in 1 .. Len(rio) /\ (rio[n] = NL \/ Len(line) + n = MAXLINE - 1)
    BY <2>3, <1>1
  <2>5. ASSUME NEW i \in 1 .. n - 1
        PROVE  rio[i] # NL /\ Len(line) + i # MAXLINE - 1
    <3>1. i \in 1 .. Len(rio) /\ ~ (n <= i)
      BY <2>4, <1>1
    <3>2. i \notin ends
      BY <2>3, <3>1
    <3> QED
      BY <3>1, <3>2, <1>1
  <2> QED
    BY <2>4, <2>5
<1> QED
  BY <1>2, <1>3

LEMMA TakenWhole ==
    ASSUME NEW r, NEW rio, NEW data, NEW ended, LineOK(r), IsSeq(rio), IsSeq(data)
    PROVE  LET t == Taken(r, rio)
               w == r.line \o rio \o data
           IN  /\ LineOK(t.r) /\ t.rc \in {"more", "line"}
               /\ \/ Stream(t.r, data) = w /\ t.r.buf = r.buf
                  \/ Handed(w, ended, Stream(t.r, data), t.r.buf)
<1> DEFINE u == r.line
           n == LineEnd(u, rio)
           t == Taken(r, rio)
           w == u \o rio \o data
<1>1. PICK S : u \in Seq(S) /\ rio \in Seq(S) /\ data \in Seq(S)
  BY ThreeSeqsTogether DEF LineOK
<1>2. /\ Len(u) \in Nat /\ Len(rio) \in Nat /\ MAXLINE \in Nat /\ Len(u) < MAXLINE - 1
      /\ DOMAIN u = 1 .. Len(u) /\ DOMAIN rio = 1 .. Len(rio)
  BY <1>1, LenProperties, RioAssumption DEF LineOK
<1>3. \/ /\ n = 0
         /\ \A i \in 1 .. Len(rio) : rio[i] # NL /\ Len(u) + i # MAXLINE - 1
      \/ /\ n \in 1 .. Len(rio) /\ (rio[n] = NL \/ Len(u) + n = MAXLINE - 1)
         /\ \A i \in 1 .. n - 1 : rio[i] # NL /\ Len(u) + i # MAXLINE - 1
  BY EndOfLine DEF LineOK
<1>4. \A i \in 1 .. Len(u) : u[i] # NL
  BY <1>2 DEF LineOK
<1>5. CASE n = 0
  <2>1. t = [r |-> [r EXCEPT !.rio = << >>, !.line = u \o rio], rc |-> "more"]
    BY <1>5 DEF Taken
  <2>2. /\ t.r.rio = << >> /\ t.r.line = u \o rio /\ t.r.buf = r.buf /\ t.rc = "more"
        /\ DOMAIN t.r = {"rio", "line", "buf"}
    <3> DEFINE ur == u \o rio
    <3> HIDE DEF ur
    <3>1. t = [r |-> [r EXCEPT !.rio = << >>, !.line = ur], rc |-> "more"]
      BY <2>1 DEF ur
    <3> HIDE DEF t, u
    <3>2. t.r = [r EXCEPT !.rio = << >>, !.line = ur] /\ t.rc = "more"
      BY <3>1
    <3>3. DOMAIN r = {"rio", "line", "buf"}
      BY DEF LineOK
    <3>4. /\ t.r.rio = << >> /\ t.r.line = ur /\ t.r.buf = r.buf
          /\ DOMAIN t.r = {"rio", "line", "buf"}
      BY <3>2, <3>3
    <3> QED
      BY <3>2, <3>4 DEF ur
  <2>3. /\ u \o rio \in Seq(S) /\ Len(u \o rio) = Len(u) + Len(rio)
        /\ \A i \in 1 .. Len(u) + Len(rio) : (u \o rio)[i] = IF i <= Len(u) THEN u[i] ELSE rio[i - Len(u)]
    BY <1>1, ConcatProperties
  <2>4. \A i \in 1 .. Len(rio) : rio[i] # NL /\ Len(u) + i # MAXLINE - 1
    BY <1>3, <1>5, <1>2
  <2>5. Len(u \o rio) < MAXLINE - 1
    <3>1. CASE Len(u) + Len(rio) < MAXLINE - 1
      BY <3>1, <2>3
    <3>2. CASE ~ (Len(u) + Len(rio) < MAXLINE - 1)
      <4>1. MAXLINE - 1 - Len(u) \in 1 .. Len(rio)
        BY <3>2, <1>2
      <4>2. Len(u) + (MAXLINE - 1 - Len(u)) # MAXLINE - 1
        BY <4>1, <2>4
      <4> QED
        BY <4>2, <1>2
    <3> QED
      BY <3>1, <3>2
  <2>6. \A i \in DOMAIN (u \o rio) : (u \o rio)[i] # NL
    <3>1. DOMAIN (u \o rio) = 1 .. Len(u) + Len(rio)
      BY <2>3, LenProperties
    <3> HIDE DEF u
    <3>2. ASSUME NEW i \in 1 .. Len(u) + Len(rio)
          PROVE  (u \o rio)[i] # NL
      <4>1. CASE i <= Len(u)
        BY <4>1, <2>3, <1>4, <1>2
      <4>2. CASE ~ (i <= Len(u))
        <5>1. i - Len(u) \in 1 .. Len(rio)
          BY <4>2, <1>2
        <5> QED
          BY <5>1, <4>2, <2>3, <2>4
      <4> QED
        BY <4>1, <4>2
    <3> QED
      BY <3>1, <3>2
  <2>7. LineOK(t.r)
    BY <2>2, <2>3, <2>5, <2>6, EmptySeq DEF LineOK, IsSeq
  <2>8. (u \o rio) \o << >> = u \o rio
    BY <2>3, ConcatEmptySeq
  <2> QED
    BY <2>2, <2>7, <2>8 DEF Stream
<1>6. CASE n \in 1 .. Len(rio)
  <2>1. t = [r |-> [rio |-> SubSeq(rio, n + 1, Len(rio)), line |-> << >>,
                    buf |-> u \o SubSeq(rio, 1, n)], rc |-> "line"]
    BY <1>2, <1>6 DEF Taken
  <2> DEFINE more == SubSeq(rio, n + 1, Len(rio))
  <2>2. t.rc = "line" /\ t.r = [rio |-> more, line |-> << >>, buf |-> u \o SubSeq(rio, 1, n)]
    BY <2>1
  <2>3. IsSeq(more)
    BY <1>2, <1>6, PartIsSeq
  <2>4. LineOK(t.r)
    <3>1. IsSeq(<< >>) /\ Len(<< >>) = 0 /\ DOMAIN << >> = {}
      BY EmptySeq DEF IsSeq
    <3> HIDE DEF more, t
    <3>2. /\ DOMAIN t.r = {"rio", "line", "buf"} /\ t.r.rio = more /\ t.r.line = << >>
      BY <2>2
    <3> QED
      BY <2>3, <3>1, <3>2, <1>2 DEF LineOK
  <2>5. /\ w \in Seq(S) /\ Len(w) = Len(u) + Len(rio) + Len(data)
        /\ \A i \in 1 .. Len(u) : w[i] = u[i]
        /\ \A i \in 1 .. Len(rio) : w[Len(u) + i] = rio[i]
        /\ SubSeq(w, 1, Len(u) + n) = u \o SubSeq(rio, 1, n)
        /\ SubSeq(w, Len(u) + n + 1, Len(w)) = << >> \o more \o data
    <3> HIDE DEF u, n
    <3>1. CutAt(S, u, rio, data, n, w)
      BY <1>1, <1>6, Cut
    <3> HIDE DEF w
    <3> QED
      BY <3>1 DEF CutAt
  <2>6. Len(data) \in Nat /\ DOMAIN w = 1 .. Len(w)
    BY <1>1, <2>5, LenProperties
  <2>7. Stream(t.r, data) = SubSeq(w, Len(u) + n + 1, Len(w)) /\ t.r.buf = SubSeq(w, 1, Len(u) + n)
    <3> DEFINE b == u \o SubSeq(rio, 1, n)
               q == t.r
    <3>1. q = [rio |-> more, line |-> << >>, buf |-> b]
      BY <2>2
    <3> HIDE DEF t, more, u, n, b, q
    <3>2. q.line = << >> /\ q.rio = more /\ q.buf = b
      BY <3>1
    <3> HIDE DEF w
    <3>3. Stream(q, data) = << >> \o more \o data
      BY <3>2 DEF Stream
    <3> QED
      BY <3>2, <3>3, <2>5 DEF q, b
  <2> DEFINE e == Len(u) + n
  <2>8. /\ rio[n] = NL \/ Len(u) + n = MAXLINE - 1
        /\ \A i \in 1 .. n - 1 : rio[i] # NL /\ Len(u) + i # MAXLINE - 1
    BY <1>3, <1>6, <1>2
  <2> HIDE DEF u, n, t, w, more
  <2>9. e \in DOMAIN w /\ (w[e] = NL \/ e = MAXLINE - 1)
    BY <1>2, <1>6, <2>5, <2>6, <2>8
  <2>10. ASSUME NEW m \in 1 .. e - 1
         PROVE  ~ (w[m] = NL \/ m = MAXLINE - 1)
    <3>1. CASE m <= Len(u)
      BY <3>1, <1>2, <1>4, <2>5
    <3>2. CASE ~ (m <= Len(u))
      <4>1. PICK i \in 1 .. n - 1 : m = Len(u) + i
        <5>1. m - Len(u) \in 1 .. n - 1 /\ m = Len(u) + (m - Len(u))
          BY <3>2, <1>2, <1>6
        <5> QED
          BY <5>1
      <4>2. i \in 1 .. Len(rio)
        BY <1>2, <1>6
      <4>3. w[m] = rio[i]
        BY <4>1, <4>2, <2>5
      <4> QED
        BY <4>1, <4>3, <2>8
    <3> QED
      BY <3>1, <3>2
  <2>11. Handed(w, ended, Stream(t.r, data), t.r.buf)
    BY <2>7, <2>9, <2>10 DEF Handed
  <2> QED
    BY <2>2, <2>4, <2>11 DEF w, t, u
<1> QED
  BY <1>3, <1>5, <1>6

(* One step of Rio_readlineb on the connection c.                          *)
ReadlineDone(c, s, r, x) ==
    /\ ConnOK(x.c) /\ LineOK(x.to.r) /\ x.to.rc \in {"more", "line", "eof", "error"}
    /\ x.c.data[Other(s)] = c.data[Other(s)] /\ x.c.peer[Other(s)] = c.peer[Other(s)]
    /\ c.data[s] = << >> => x.c.data[s] = << >>
    /\ x.to.rc = "error" => c.peer[s] = "reset" /\ x.c.peer[s] = "broken"
    /\ x.to.rc = "eof" => c.peer[s] \notin {"open", "reset"}
    /\ x.to.rc # "error" =>
           /\ x.c.peer[s] = c.peer[s]
           /\ \/ Stream(x.to.r, x.c.data[s]) = Stream(r, c.data[s]) /\ x.to.r.buf = r.buf
              \/ Handed(Stream(r, c.data[s]), c.peer[s] # "open",
                        Stream(x.to.r, x.c.data[s]), x.to.r.buf)

LEMMA ReadlineStep ==
    ASSUME NEW c, NEW s \in Sides, NEW r, ConnOK(c), LineOK(r), NEW x \in rio_readlineb(c, s, r)
    PROVE  ReadlineDone(c, s, r, x)
<1> USE DEF ReadlineDone
<1>1. PICK y \in rio_read(c, s, r.rio) :
          x = [c |-> y.c, to |-> CASE y.rc = "data"  -> Taken(r, y.rio)
                                   [] y.rc = "eof"   -> AtEof(r)
                                   [] y.rc = "error" -> AtError(r)]
  BY Zenon DEF rio_readlineb
<1>2. IsSeq(r.rio) /\ IsSeq(r.line) /\ IsSeq(c.data[s])
  BY DEF LineOK, ConnOK
<1>0. ReadDone(c, s, r.rio, y)
  BY <1>2, ReadStep
<1>3. /\ ConnOK(y.c) /\ y.rc \in {"data", "eof", "error"}
      /\ y.c.data[Other(s)] = c.data[Other(s)] /\ y.c.peer[Other(s)] = c.peer[Other(s)]
      /\ c.data[s] = << >> => y.c.data[s] = << >>
      /\ y.rc = "data" =>
             /\ y.c.peer = c.peer /\ IsSeq(y.rio)
             /\ \/ y.rio = r.rio /\ y.c.data[s] = c.data[s]
                \/ r.rio = << >> /\ c.data[s] = y.rio \o y.c.data[s]
      /\ y.rc # "data" => r.rio = << >> /\ c.data[s] = << >>
      /\ y.rc = "eof" => y.c = c /\ c.peer[s] \notin {"open", "reset"}
      /\ y.rc = "error" => c.peer[s] = "reset" /\ y.c.peer[s] = "broken"
  BY <1>0 DEF ReadDone
<1>4. IsSeq(<< >>) /\ Len(<< >>) = 0 /\ DOMAIN << >> = {}
  BY EmptySeq DEF IsSeq
<1>5. x.c = y.c
  BY <1>1
<1>6. CASE y.rc = "data"
  <2>1. x.to = Taken(r, y.rio)
    BY <1>1, <1>6
  <2> DEFINE d == y.c.data[s]
  <2>2. IsSeq(d)
    BY <1>3 DEF ConnOK
  <2>3. r.line \o y.rio \o d = Stream(r, c.data[s])
    <3>1. CASE y.rio = r.rio /\ d = c.data[s]
      BY <3>1 DEF Stream
    <3>2. CASE r.rio = << >> /\ c.data[s] = y.rio \o d
      <4>1. PICK S : r.line \in Seq(S) /\ y.rio \in Seq(S) /\ d \in Seq(S)
        BY <1>2, <1>3, <1>6, <2>2, ThreeSeqsTogether
      <4> DEFINE u == r.line
                 v == y.rio
      <4> HIDE DEF u, v, d
      <4>2. u \o << >> = u
        BY <4>1, ConcatEmptySeq DEF u
      <4>4. u \in Seq(S) /\ v \in Seq(S) /\ d \in Seq(S)
        BY <4>1 DEF u, v, d
      <4>3. (u \o v) \o d = u \o (v \o d)
        BY <4>1, <4>4, ConcatAssociative
      <4> QED
        BY <3>2, <4>2, <4>3 DEF Stream, u, v
    <3> QED
      BY <3>1, <3>2, <1>3, <1>6
  <2> DEFINE ended == c.peer[s] # "open"
  <2> HIDE DEF d, ended
  <2>4. /\ LineOK(x.to.r) /\ x.to.rc \in {"more", "line"}
        /\ \/ Stream(x.to.r, d) = r.line \o y.rio \o d /\ x.to.r.buf = r.buf
           \/ Handed(r.line \o y.rio \o d, ended, Stream(x.to.r, d), x.to.r.buf)
    BY <1>3, <1>6, <2>1, <2>2, TakenWhole
  <2> QED
    BY <1>3, <1>5, <1>6, <2>3, <2>4 DEF d, ended
<1>7. CASE y.rc = "eof"
  <2>1. x.to = AtEof(r) /\ x.c = c
    BY <1>1, <1>3, <1>7
  <2>2. CASE r.line = << >>
    <3>1. x.to.r = r /\ x.to.rc = "eof"
      BY <2>1, <2>2 DEF AtEof
    <3> QED
      BY <1>3, <1>5, <1>7, <2>1, <3>1
  <2>3. CASE r.line # << >>
    <3>1. x.to = [r |-> [r EXCEPT !.line = << >>, !.buf = r.line], rc |-> "line"]
      BY <2>1, <2>3 DEF AtEof
    <3>2. /\ x.to.rc = "line" /\ x.to.r.line = << >> /\ x.to.r.buf = r.line /\ x.to.r.rio = r.rio
          /\ DOMAIN x.to.r = {"rio", "line", "buf"}
      <4> DEFINE q == x.to.r
      <4> HIDE DEF q
      <4>1. q = [r EXCEPT !.line = << >>, !.buf = r.line] /\ x.to.rc = "line"
        BY <3>1 DEF q
      <4>2. DOMAIN r = {"rio", "line", "buf"}
        BY DEF LineOK
      <4>3. q.line = << >> /\ q.buf = r.line /\ q.rio = r.rio /\ DOMAIN q = {"rio", "line", "buf"}
        BY <4>1, <4>2
      <4> QED
        BY <4>1, <4>3 DEF q
    <3>3. LineOK(x.to.r)
      BY <1>4, <3>2, RioAssumption DEF LineOK
    <3> DEFINE u == r.line
    <3>4. PICK S : u \in Seq(S)
      BY <1>2 DEF IsSeq
    <3>5. /\ Stream(r, c.data[s]) = u
      <4>1. u \o << >> = u
        BY <3>4, ConcatEmptySeq
      <4> QED
        BY <4>1, <1>3, <1>7 DEF Stream
    <3>6. Stream(x.to.r, x.c.data[s]) = << >>
      <4>1. << >> \o << >> = << >>
        BY ConcatEmptySeq, EmptySeq
      <4> QED
        BY <4>1, <3>2, <2>1, <1>3, <1>7 DEF Stream
    <3>7. Len(u) \in Nat \ {0} /\ DOMAIN u = 1 .. Len(u) /\ Len(u) < MAXLINE - 1 /\ MAXLINE \in Nat
      BY <3>4, <2>3, EmptySeq, LenProperties, RioAssumption DEF LineOK
    <3>8. SubSeq(u, 1, Len(u)) = u /\ SubSeq(u, Len(u) + 1, Len(u)) = << >>
      BY <3>4, <3>7, SubSeqFull, SubSeqEmpty
    <3>9. \A m \in 1 .. Len(u) - 1 : ~ (u[m] = NL \/ m = MAXLINE - 1)
      BY <3>7 DEF LineOK
    <3>10. c.peer[s] # "open"
      BY <1>3, <1>7
    <3> HIDE DEF u
    <3>11. Handed(u, TRUE, << >>, u)
      BY <3>7, <3>8, <3>9 DEF Handed
    <3>12. Handed(u, c.peer[s] # "open", << >>, u)
      BY <3>10, <3>11 DEF Handed
    <3> QED
      BY <1>3, <1>5, <1>7, <2>1, <3>2, <3>3, <3>5, <3>6, <3>12 DEF u
  <2> QED
    BY <2>2, <2>3
<1>8. CASE y.rc = "error"
  <2>1. x.to = AtError(r)
    BY <1>1, <1>8
  <2>2. /\ x.to.rc = "error" /\ x.to.r.line = << >> /\ x.to.r.rio = r.rio
        /\ DOMAIN x.to.r = {"rio", "line", "buf"}
    <3> DEFINE q == x.to.r
               over == r.line \o SubSeq(r.buf, Len(r.line) + 1, Len(r.buf))
    <3> HIDE DEF q, over
    <3>1. q = [r EXCEPT !.line = << >>, !.buf = over] /\ x.to.rc = "error"
      BY <2>1 DEF AtError, q, over
    <3>2. DOMAIN r = {"rio", "line", "buf"}
      BY DEF LineOK
    <3>3. q.line = << >> /\ q.rio = r.rio /\ DOMAIN q = {"rio", "line", "buf"}
      BY <3>1, <3>2
    <3> QED
      BY <3>1, <3>3 DEF q
  <2>3. LineOK(x.to.r)
    BY <1>4, <2>2, RioAssumption DEF LineOK
  <2> QED
    BY <1>3, <1>5, <1>8, <2>2, <2>3
<1> QED
  BY <1>3, <1>6, <1>7, <1>8

LEMMA GrownByConcat ==
    ASSUME NEW w, NEW v, IsSeq(w), IsSeq(v), Len(v) > 0
    PROVE  IsSeq(w \o v) /\ Grown(w, w \o v)
<1>1. PICK S : w \in Seq(S) /\ v \in Seq(S)
  BY SeqsTogether
<1>2. /\ Len(w) \in Nat /\ Len(v) \in Nat
      /\ w \o v \in Seq(S) /\ Len(w \o v) = Len(w) + Len(v)
      /\ \A i \in 1 .. Len(w) : (w \o v)[i] = w[i] /\ w[i] \in S
  BY <1>1, LenProperties, ConcatProperties, ElementOfSeq
<1>3. /\ SubSeq(w \o v, 1, Len(w)) \in Seq(S)
      /\ Len(SubSeq(w \o v, 1, Len(w))) = Len(w)
      /\ \A i \in 1 .. Len(w) : SubSeq(w \o v, 1, Len(w))[i] = w[i]
  <2> DEFINE wv == w \o v
             l == Len(w)
  <2>1. \A i \in 1 .. l : wv[i] \in S /\ wv[i] = w[i]
    BY <1>2
  <2>2. l \in Nat
    BY <1>2
  <2> HIDE DEF wv, l
  <2>3. /\ SubSeq(wv, 1, l) \in Seq(S)
        /\ Len(SubSeq(wv, 1, l)) = IF 1 <= l THEN l - 1 + 1 ELSE 0
        /\ \A i \in 1 .. l - 1 + 1 : SubSeq(wv, 1, l)[i] = wv[1 + i - 1]
    BY <2>1, <2>2, SubSeqProperties
  <2>4. \A i \in 1 .. l : SubSeq(wv, 1, l)[i] = w[i]
    BY <2>1, <2>2, <2>3
  <2> QED
    BY <2>2, <2>3, <2>4 DEF wv, l
<1>4. SubSeq(w \o v, 1, Len(w)) = w
  BY <1>1, <1>2, <1>3, SeqEqual
<1>5. Len(w \o v) > Len(w)
  BY <1>2
<1>6. IsSeq(w \o v)
  BY <1>2 DEF IsSeq
<1> QED
  BY <1>4, <1>5, <1>6 DEF Grown

(* write: the other side's words grow, or nothing is written.              *)
WriteDone(c, s, x) ==
    /\ ConnOK(x.c) /\ x.errno \in {"OK", "EPIPE", "ECONNRESET"}
    /\ x.c.data[s] = c.data[s] /\ x.c.peer[Other(s)] = c.peer[Other(s)]
    /\ Grown(c.data[Other(s)], x.c.data[Other(s)])
    /\ c.peer[s] = "open" => x.c.peer[s] = "open" /\ x.errno = "OK"
    /\ x.errno # "OK" => x.c.data = c.data
    /\ x.errno = "ECONNRESET" => c.peer[s] = "reset"

LEMMA WriteStep ==
    ASSUME NEW c, NEW s \in Sides, NEW ws, ConnOK(c), NEW x \in rio_writen(c, s, ws)
    PROVE  WriteDone(c, s, x)
<1>1. PICK y \in WriteOutcomes(c, s, ws) : x.c = y.c /\ x.errno = y.errno
  <2>1. PICK y \in WriteOutcomes(c, s, ws) :
            x = [c |-> y.c, errno |-> y.errno,
                 left |-> IF y.errno = "OK" THEN SubSeq(ws, y.n + 1, Len(ws)) ELSE << >>]
    BY Zenon DEF rio_writen
  <2> QED
    BY <2>1
<1> DEFINE o == Other(s)
<1>2. o \in Sides /\ o # s
  BY OtherSide
<1>3. IsSeq(c.data[o]) /\ c.peer[s] \in PeerStates
  BY <1>2 DEF ConnOK
<1>4. CASE c.peer[s] = "open"
  <2>1. PICK k \in {n \in 1 .. Len(ws) : Len(c.data[Other(s)]) + n <= c.room} :
            y = [c |-> [c EXCEPT !.data[Other(s)] = @ \o SubSeq(ws, 1, k)], n |-> k, errno |-> "OK"]
    BY <1>4, Zenon DEF WriteOutcomes
  <2> DEFINE v == SubSeq(ws, 1, k)
             d == c.data[o] \o v
  <2>2. k \in Nat \ {0}
    OBVIOUS
  <2>3. IsSeq(v) /\ Len(v) > 0
    BY <2>2, PartIsSeq
  <2>4. IsSeq(d) /\ Grown(c.data[o], d)
    BY <1>3, <2>3, GrownByConcat
  <2>5. y.c = [c EXCEPT !.data[o] = d] /\ y.errno = "OK"
    BY <2>1
  <2> HIDE DEF d, o
  <2>6. /\ y.c.data[o] = d /\ y.c.data[s] = c.data[s] /\ y.c.peer = c.peer /\ y.c.lost = c.lost
        /\ y.c.room = c.room
        /\ DOMAIN y.c = DOMAIN c /\ DOMAIN y.c.data = DOMAIN c.data
        /\ \A t \in Sides : t # o => y.c.data[t] = c.data[t]
    BY <2>5, <1>2 DEF ConnOK
  <2>7. ConnOK(y.c)
    BY <2>4, <2>6 DEF ConnOK
  <2> QED
    BY <1>1, <1>4, <2>4, <2>5, <2>6, <2>7 DEF WriteDone, o
<1>5. CASE c.peer[s] # "open"
  <2>1. \E p \in PeerStates : y.c = [c EXCEPT !.peer[s] = p] /\ y.errno \in {"OK", "EPIPE", "ECONNRESET"}
    <3>1. CASE c.peer[s] = "closed"
      <4>1. y = [c |-> [c EXCEPT !.peer[s] = "late"], n |-> Len(ws), errno |-> "OK"]
        BY <3>1, Zenon DEF WriteOutcomes
      <4> QED
        BY <4>1 DEF PeerStates
    <3>2. CASE c.peer[s] = "late"
      <4>1. \/ y = [c |-> [c EXCEPT !.peer[s] = "late"], n |-> Len(ws), errno |-> "OK"]
            \/ y = [c |-> [c EXCEPT !.peer[s] = "broken"], n |-> 0, errno |-> "EPIPE"]
        BY <3>2, Zenon DEF WriteOutcomes
      <4> QED
        BY <4>1 DEF PeerStates
    <3>3. CASE c.peer[s] = "reset"
      <4>1. y = [c |-> [c EXCEPT !.peer[s] = "broken"], n |-> 0, errno |-> "ECONNRESET"]
        BY <3>3, Zenon DEF WriteOutcomes
      <4> QED
        BY <4>1 DEF PeerStates
    <3>4. CASE c.peer[s] = "broken"
      <4>1. y = [c |-> [c EXCEPT !.peer[s] = "broken"], n |-> 0, errno |-> "EPIPE"]
        BY <3>4, Zenon DEF WriteOutcomes
      <4> QED
        BY <4>1 DEF PeerStates
    <3> QED
      BY <1>3, <1>5, <3>1, <3>2, <3>3, <3>4 DEF PeerStates
  <2>2. PICK p \in PeerStates : y.c = [c EXCEPT !.peer[s] = p] /\ y.errno \in {"OK", "EPIPE", "ECONNRESET"}
    BY <2>1
  <2>3. /\ y.c.data = c.data /\ y.c.lost = c.lost /\ y.c.room = c.room /\ DOMAIN y.c = DOMAIN c
        /\ y.c.peer = [c.peer EXCEPT ![s] = p]
    BY <2>2 DEF ConnOK
  <2>4. y.c.peer \in [Sides -> PeerStates] /\ y.c.peer[o] = c.peer[o]
    BY <2>3, <1>2 DEF ConnOK
  <2>5. ASSUME c.peer[s] # "reset"
        PROVE  y.errno # "ECONNRESET"
    <3>1. CASE c.peer[s] = "closed"
      <4>1. y = [c |-> [c EXCEPT !.peer[s] = "late"], n |-> Len(ws), errno |-> "OK"]
        BY <3>1, Zenon DEF WriteOutcomes
      <4> QED
        BY <4>1
    <3>2. CASE c.peer[s] = "late"
      <4>1. \/ y = [c |-> [c EXCEPT !.peer[s] = "late"], n |-> Len(ws), errno |-> "OK"]
            \/ y = [c |-> [c EXCEPT !.peer[s] = "broken"], n |-> 0, errno |-> "EPIPE"]
        BY <3>2, Zenon DEF WriteOutcomes
      <4> QED
        BY <4>1
    <3>3. CASE c.peer[s] = "broken"
      <4>1. y = [c |-> [c EXCEPT !.peer[s] = "broken"], n |-> 0, errno |-> "EPIPE"]
        BY <3>3, Zenon DEF WriteOutcomes
      <4> QED
        BY <4>1
    <3> QED
      BY <1>3, <1>5, <2>5, <3>1, <3>2, <3>3 DEF PeerStates
  <2> QED
    BY <1>1, <1>5, <2>2, <2>3, <2>4, <2>5 DEF WriteDone, ConnOK, Grown
<1> QED
  BY <1>4, <1>5

(* close: nothing is lost but by a reset.                                  *)
CloseDone(c, s, x) ==
    /\ ConnOK(x) /\ x.peer[s] = c.peer[s] /\ x.data[s] = << >>
    /\ c.data[s] = << >> => x.data = c.data
    /\ \/ x.data[Other(s)] = c.data[Other(s)]
       \/ c.peer[Other(s)] = "open" => x.peer[Other(s)] = "reset"

LEMMA CloseStep ==
    ASSUME NEW c, NEW s \in Sides, ConnOK(c), NEW x \in CloseOutcomes(c, s)
    PROVE  CloseDone(c, s, x)
<1> DEFINE o == Other(s)
<1>1. o \in Sides /\ o # s
  BY OtherSide
<1>2. c.peer \in [Sides -> PeerStates] /\ c.lost \in [Sides -> BOOLEAN]
  BY DEF ConnOK
<1>3. CASE c.data[s] = << >>
  <2>1. x = [c EXCEPT !.peer[Other(s)] = IF @ = "open" THEN "closed" ELSE @]
    BY <1>3, Zenon DEF CloseOutcomes
  <2> DEFINE p == IF c.peer[o] = "open" THEN "closed" ELSE c.peer[o]
  <2>2. x = [c EXCEPT !.peer[o] = p]
    BY <2>1
  <2>3. p \in PeerStates
    BY <1>1, <1>2 DEF PeerStates
  <2> HIDE DEF p, o
  <2>4. /\ x.data = c.data /\ x.lost = c.lost /\ x.room = c.room /\ DOMAIN x = DOMAIN c
        /\ x.peer = [c.peer EXCEPT ![o] = p]
    BY <2>2 DEF ConnOK
  <2>5. x.peer \in [Sides -> PeerStates] /\ x.peer[s] = c.peer[s]
    BY <2>3, <2>4, <1>1, <1>2
  <2> QED
    BY <1>3, <2>4, <2>5 DEF CloseDone, ConnOK, o
<1>4. CASE c.data[s] # << >>
  <2>1. PICK kept \in Prefixes(c.data[Other(s)]) :
            x = [c EXCEPT !.data[s] = << >>, !.data[Other(s)] = kept,
                    !.lost[Other(s)] = @ \/ kept # c.data[Other(s)],
                    !.peer[Other(s)] = IF @ = "open" THEN "reset" ELSE @]
    BY <1>4, Zenon DEF CloseOutcomes
  <2>2. IsSeq(kept)
    <3>1. PICK l \in 0 .. Len(c.data[o]) : kept = SubSeq(c.data[o], 1, l)
      BY DEF Prefixes
    <3> QED
      BY <3>1, PartIsSeq
  <2> DEFINE p == IF c.peer[o] = "open" THEN "reset" ELSE c.peer[o]
             b == c.lost[o] \/ kept # c.data[o]
             data1 == [c.data EXCEPT ![s] = << >>, ![o] = kept]
             peer1 == [c.peer EXCEPT ![o] = p]
             lost1 == [c.lost EXCEPT ![o] = b]
  <2>3. p \in PeerStates /\ b \in BOOLEAN
    BY <1>1, <1>2 DEF PeerStates
  <2>4. x = [[[c EXCEPT !.data = data1] EXCEPT !.lost = lost1] EXCEPT !.peer = peer1]
    BY <2>1, <1>1 DEF ConnOK
  <2> HIDE DEF data1, peer1, lost1, p, b, o
  <2>5. x.data = data1 /\ x.lost = lost1 /\ x.peer = peer1 /\ x.room = c.room /\ DOMAIN x = DOMAIN c
    BY <2>4 DEF ConnOK
  <2>6. /\ DOMAIN data1 = DOMAIN c.data /\ data1[s] = << >> /\ data1[o] = kept
        /\ \A t \in Sides : t # s /\ t # o => data1[t] = c.data[t]
    BY <1>1 DEF ConnOK, data1
  <2>7. peer1 \in [Sides -> PeerStates] /\ peer1[s] = c.peer[s] /\ peer1[o] = p
    BY <1>1, <1>2, <2>3 DEF peer1
  <2>8. lost1 \in [Sides -> BOOLEAN]
    BY <1>1, <1>2, <2>3 DEF lost1
  <2>9. IsSeq(<< >>)
    BY EmptySeq DEF IsSeq
  <2>10. ConnOK(x)
    BY <2>2, <2>5, <2>6, <2>7, <2>8, <2>9 DEF ConnOK
  <2> QED
    BY <1>4, <2>5, <2>6, <2>7, <2>10 DEF CloseDone, o, p
<1> QED
  BY <1>3, <1>4

LEMMA CloseEnds ==
    ASSUME NEW c, NEW s \in Sides, ConnOK(c)
    PROVE  CloseOutcomes(c, s) # {}
<1>1. PICK S : c.data[Other(s)] \in Seq(S)
  BY OtherSide DEF ConnOK, IsSeq
<1>2. SubSeq(c.data[Other(s)], 1, 0) \in Prefixes(c.data[Other(s)])
  <2>1. 0 \in 0 .. Len(c.data[Other(s)])
    BY <1>1, LenProperties
  <2> QED
    BY <2>1 DEF Prefixes
<1> QED
  BY <1>2, Zenon DEF CloseOutcomes

-----------------------------------------------------------------------------
(* The programs' copies of these operators are the same.                   *)

LEMMA ProxyCalls ==
    /\ \A c, s, r : P!rio_readlineb(c, s, r) = rio_readlineb(c, s, r)
    /\ \A c, s, ws : P!rio_writen(c, s, ws) = rio_writen(c, s, ws)
    /\ \A c, s : P!CloseOutcomes(c, s) = CloseOutcomes(c, s)
<1>1. ASSUME NEW c, NEW s, NEW r
      PROVE  P!rio_readlineb(c, s, r) = rio_readlineb(c, s, r)
  BY DEF P!rio_readlineb, rio_readlineb, P!rio_read, rio_read, P!ReadOutcomes, ReadOutcomes,
         P!Taken, Taken, P!AtEof, AtEof, P!AtError, AtError, P!LineEnd, LineEnd, P!NL, NL,
         P!Prefixes, Prefixes
<1>2. ASSUME NEW c, NEW s, NEW ws
      PROVE  P!rio_writen(c, s, ws) = rio_writen(c, s, ws)
  BY DEF P!rio_writen, rio_writen, P!WriteOutcomes, WriteOutcomes, P!Other, Other
<1>3. ASSUME NEW c, NEW s
      PROVE  P!CloseOutcomes(c, s) = CloseOutcomes(c, s)
  BY DEF P!CloseOutcomes, CloseOutcomes, P!Other, Other, P!Prefixes, Prefixes
<1> QED
  BY <1>1, <1>2, <1>3

LEMMA TinyCalls ==
    /\ \A c, s, r : T!rio_readlineb(c, s, r) = rio_readlineb(c, s, r)
    /\ \A c, s, ws : T!rio_writen(c, s, ws) = rio_writen(c, s, ws)
    /\ \A c, s : T!CloseOutcomes(c, s) = CloseOutcomes(c, s)
<1>1. ASSUME NEW c, NEW s, NEW r
      PROVE  T!rio_readlineb(c, s, r) = rio_readlineb(c, s, r)
  BY DEF T!rio_readlineb, rio_readlineb, T!rio_read, rio_read, T!ReadOutcomes, ReadOutcomes,
         T!Taken, Taken, T!AtEof, AtEof, T!AtError, AtError, T!LineEnd, LineEnd, T!NL, NL,
         T!Prefixes, Prefixes
<1>2. ASSUME NEW c, NEW s, NEW ws
      PROVE  T!rio_writen(c, s, ws) = rio_writen(c, s, ws)
  BY DEF T!rio_writen, rio_writen, T!WriteOutcomes, WriteOutcomes, T!Other, Other
<1>3. ASSUME NEW c, NEW s
      PROVE  T!CloseOutcomes(c, s) = CloseOutcomes(c, s)
  BY DEF T!CloseOutcomes, CloseOutcomes, T!Other, Other, T!Prefixes, Prefixes
<1> QED
  BY <1>1, <1>2, <1>3

-----------------------------------------------------------------------------
(* The inductive invariant: each program serves its own clients, and Tiny  *)
(* the proxy besides, on one connection at a time.  While Tiny has that    *)
(* connection before it the proxy has not closed it, and until Tiny has    *)
(* read the request nothing comes back: so neither end of it is thrown     *)
(* away under the other one's reader.                                      *)

ProxyFields == {"pc", "was", "k", "r", "o", "out", "req", "spoilt"}
TinyFields == {"pc", "was", "k", "r", "method", "uri", "filename", "cgiargs", "out", "then"}

ProxyBusy == proxy.pc \notin {"accept", "down"}
TinyBusy == tiny.pc \notin {"accept", "down"}
Holding == proxy.pc \in {"send", "forward", "reply", "down"}
Reading == tiny.pc \in {"request line", "parse", "headers"}

ForProxy(c) == c \in Clients /\ plan[c].to = "proxy" /\ state[c] # "new"
ForTiny(c) == c \in Clients /\ plan[c].to = "tiny" /\ state[c] # "new"

OriginWaits == Origin \in Range(tinyQueue)
OriginServed == TinyBusy /\ tiny.k = Origin

ConnsOK == DOMAIN conn = Clients \cup {Origin} /\ \A k \in Clients \cup {Origin} : ConnOK(conn[k])
ProxyOK == DOMAIN proxy = ProxyFields /\ LineOK(proxy.r) /\ LineOK(proxy.o)
TinyOK == DOMAIN tiny = TinyFields /\ LineOK(tiny.r) /\ tiny.then \in {"close", "map", "fork"}
ClientsOK == plan \in [Clients -> Plans] /\ state \in [Clients -> {"new", "connected", "left", "refused"}]

ProxyServes ==
    /\ IsSeq(proxyQueue) /\ \A c \in Range(proxyQueue) : ForProxy(c)
    /\ ProxyBusy => ForProxy(proxy.k)

TinyServes ==
    /\ IsSeq(tinyQueue) /\ \A c \in Range(tinyQueue) : c = Origin \/ ForTiny(c)
    /\ TinyBusy => tiny.k = Origin \/ ForTiny(tiny.k)

OriginOnce ==
    /\ \A i, j \in DOMAIN tinyQueue : tinyQueue[i] = Origin /\ tinyQueue[j] = Origin => i = j
    /\ OriginServed => ~ OriginWaits

OriginHeld ==
    OriginWaits \/ OriginServed => conn[Origin].peer["client"] = "open" /\ Holding

NotAnswered ==
    OriginWaits \/ (OriginServed /\ Reading) => conn[Origin].data["client"] = << >>

ServingInv ==
    /\ ConnsOK /\ ProxyOK /\ TinyOK /\ ClientsOK
    /\ ProxyServes /\ TinyServes
    /\ OriginOnce /\ OriginHeld /\ NotAnswered

LEMMA FreshReader == LineOK([rio |-> << >>, line |-> << >>, buf |-> Junk])
<1>1. IsSeq(<< >>) /\ Len(<< >>) = 0 /\ DOMAIN << >> = {}
  BY EmptySeq DEF IsSeq
<1> QED
  BY <1>1, RioAssumption DEF LineOK

LEMMA BufIsFree ==
    ASSUME NEW r, NEW b, LineOK(r)
    PROVE  LineOK([r EXCEPT !.buf = b])
BY DEF LineOK

LEMMA ConnectedOK == ConnOK(Connected)
<1>1. IsSeq(<< >>)
  BY EmptySeq DEF IsSeq
<1> QED
  BY <1>1, WindowAssumption DEF ConnOK, Connected, PeerStates

-----------------------------------------------------------------------------
(* What every step of the proxy leaves alone.                              *)

ProxyKeeps ==
    /\ ConnsOK' /\ ProxyOK'
    /\ IsSeq(proxyQueue') /\ Range(proxyQueue') \subseteq Range(proxyQueue)
    /\ ProxyBusy' => (ProxyBusy /\ proxy'.k = proxy.k) \/ proxy'.k \in Range(proxyQueue)
    /\ \A c \in Clients : ~ ForProxy(c) => conn'[c] = conn[c]

(* The connection to Tiny is new, or stays as Tiny must find it.           *)
OriginAsked ==
    /\ ~ Holding /\ proxy'.pc = "send"
    /\ conn'[Origin] = Connected /\ tinyQueue' = Append(tinyQueue, Origin)

OriginKept ==
    /\ tinyQueue' = tinyQueue
    /\ conn[Origin].peer["client"] = "open" =>
           conn'[Origin].peer["client"] = "open" /\ (Holding => Holding')
    /\ conn[Origin].data["client"] = << >> => conn'[Origin].data["client"] = << >>
    /\ Holding /\ conn[Origin].peer["client"] = "open" /\ conn[Origin].data["client"] = << >> =>
           Grown(conn[Origin].data["server"], conn'[Origin].data["server"])

ProxyMoves == ProxyKeeps /\ (OriginAsked \/ OriginKept)

LEMMA TwoSides == Other("client") = "server" /\ Other("server") = "client" /\ Sides = {"client", "server"}
BY DEF Other, Sides

LEMMA ProxyQuiet ==
    ASSUME ServingInv, UNCHANGED <<conn, proxyQueue, tinyQueue>>, ProxyOK',
           ProxyBusy, ProxyBusy', proxy'.k = proxy.k, ~ Holding
    PROVE  ProxyMoves
BY DEF ProxyMoves, ProxyKeeps, OriginKept, ServingInv, ConnsOK, ProxyServes, Grown

LEMMA ProxyExit ==
    ASSUME ServingInv, P!Exit, ProxyBusy
    PROVE  ProxyMoves /\ proxy'.pc = "down"
<1>1. PICK c \in CloseOutcomes(conn[proxy.k], "server"), o \in CloseOutcomes(conn[Origin], "client") :
          conn' = [k \in DOMAIN conn |->
                       CASE k = proxy.k -> c
                         [] k \in P!Open -> o
                         [] k \in Range(proxyQueue) -> CHOOSE d \in CloseOutcomes(conn[k], "server") : TRUE
                         [] OTHER -> conn[k]]
  BY DEF P!Exit, P!Fd, P!Range, Range, P!CloseOutcomes, CloseOutcomes, P!Other, Other,
         P!Prefixes, Prefixes
<1>2. P!Open \subseteq {Origin}
  BY DEF P!Open
<1>3. /\ DOMAIN proxy' = ProxyFields /\ proxy'.pc = "down" /\ proxy'.k = proxy.k
      /\ proxy'.r = proxy.r /\ proxy'.o = proxy.o
      /\ proxyQueue' = << >> /\ tinyQueue' = tinyQueue
  BY DEF P!Exit, ServingInv, ProxyOK, ProxyFields
<1>4. ConnsOK /\ ProxyOK /\ ForProxy(proxy.k) /\ \A k \in Range(proxyQueue) : ForProxy(k)
  BY DEF ServingInv, ProxyServes
<1>5. proxy.k \in Clients /\ proxy.k # Origin /\ Origin \notin Range(proxyQueue)
  BY <1>4, OriginAssumption DEF ForProxy
<1>6. CloseDone(conn[proxy.k], "server", c) /\ CloseDone(conn[Origin], "client", o)
  BY <1>4, <1>5, CloseStep, TwoSides DEF ConnsOK
<1>7. ASSUME NEW k \in Range(proxyQueue)
      PROVE  ConnOK(CHOOSE d \in CloseOutcomes(conn[k], "server") : TRUE)
  <2>1. ConnOK(conn[k])
    BY <1>4 DEF ConnsOK, ForProxy
  <2> DEFINE d == CHOOSE d \in CloseOutcomes(conn[k], "server") : TRUE
  <2>2. d \in CloseOutcomes(conn[k], "server")
    BY <2>1, CloseEnds, TwoSides
  <2>3. CloseDone(conn[k], "server", d)
    BY <2>1, <2>2, CloseStep, TwoSides
  <2> QED
    BY <2>3 DEF CloseDone
<1>8. DOMAIN conn' = DOMAIN conn
  BY <1>1
<1>9. ASSUME NEW k \in DOMAIN conn
      PROVE  /\ ConnOK(conn'[k])
             /\ k # proxy.k /\ k \notin Range(proxyQueue) /\ k # Origin => conn'[k] = conn[k]
             /\ k = Origin => conn'[k] = conn[k] \/ conn'[k] = o
  <2>1. conn'[k] = CASE k = proxy.k -> c
                     [] k \in P!Open -> o
                     [] k \in Range(proxyQueue) -> CHOOSE d \in CloseOutcomes(conn[k], "server") : TRUE
                     [] OTHER -> conn[k]
    BY <1>1
  <2>2. ConnOK(c) /\ ConnOK(o) /\ ConnOK(conn[k])
    BY <1>4, <1>6 DEF CloseDone, ConnsOK
  <2>3. CASE k = proxy.k
    <3> DEFINE d == CHOOSE d \in CloseOutcomes(conn[k], "server") : TRUE
    <3>1. k \notin P!Open /\ k # Origin
      BY <2>3, <1>2, <1>5
    <3>2. CASE k \in Range(proxyQueue)
      <4>1. conn'[k] = c \/ conn'[k] = d
        BY <2>1, <2>3, <3>1, <3>2
      <4> QED
        BY <4>1, <3>1, <3>2, <2>2, <2>3, <1>7
    <3>3. CASE k \notin Range(proxyQueue)
      <4>1. conn'[k] = c
        BY <2>1, <2>3, <3>1, <3>3
      <4> QED
        BY <4>1, <3>1, <2>2, <2>3
    <3> QED
      BY <3>2, <3>3
  <2>4. CASE k # proxy.k /\ k \in P!Open
    <3>1. conn'[k] = o
      <4>1. k \notin Range(proxyQueue)
        BY <2>4, <1>2, <1>5
      <4> QED
        BY <2>1, <2>4, <4>1
    <3> QED
      BY <3>1, <1>2, <2>2, <2>4
  <2>5. CASE k # proxy.k /\ k \notin P!Open /\ k \in Range(proxyQueue)
    <3>1. conn'[k] = CHOOSE d \in CloseOutcomes(conn[k], "server") : TRUE
      BY <2>1, <2>5
    <3> QED
      BY <3>1, <1>5, <1>7, <2>5
  <2>6. CASE k # proxy.k /\ k \notin P!Open /\ k \notin Range(proxyQueue)
    <3>1. conn'[k] = conn[k]
      BY <2>1, <2>6
    <3> QED
      BY <3>1, <2>2
  <2> QED
    BY <2>3, <2>4, <2>5, <2>6
<1>10. ConnsOK' /\ ProxyOK'
  BY <1>3, <1>4, <1>8, <1>9 DEF ConnsOK, ProxyOK
<1>11. IsSeq(proxyQueue') /\ Range(proxyQueue') = {}
  BY <1>3, EmptySeq DEF IsSeq, Range
<1>12. \A k \in Clients : ~ ForProxy(k) => conn'[k] = conn[k]
  BY <1>4, <1>5, <1>9, OriginAssumption DEF ConnsOK
<1>13. OriginKept
  <2>1. CASE conn'[Origin] = conn[Origin]
    BY <1>3, <2>1 DEF OriginKept, Holding, Grown
  <2>2. CASE conn'[Origin] = o
    BY <1>3, <1>6, <2>2 DEF OriginKept, Holding, Grown, CloseDone
  <2> QED
    BY <1>4, <1>9, <2>1, <2>2 DEF ConnsOK
<1>14. ~ ProxyBusy'
  BY <1>3 DEF ProxyBusy
<1> QED
  BY <1>3, <1>10, <1>11, <1>12, <1>13, <1>14 DEF ProxyMoves, ProxyKeeps

(* A step on the connection of the proxy's own client.                     *)
LEMMA ProxyServesOne ==
    ASSUME ServingInv, ProxyBusy, NEW c, ConnOK(c), conn' = [conn EXCEPT ![proxy.k] = c],
           ProxyOK', proxy'.k = proxy.k, UNCHANGED <<proxyQueue, tinyQueue>>,
           Holding => Holding'
    PROVE  ProxyMoves /\ conn'[proxy.k] = c /\ conn'[Origin] = conn[Origin] /\ proxy.k \in Clients
<1>1. ConnsOK /\ ForProxy(proxy.k) /\ proxy.k \in Clients /\ proxy.k # Origin
  BY OriginAssumption DEF ServingInv, ProxyServes, ForProxy
<1>2. ConnsOK' /\ conn'[proxy.k] = c /\ \A k \in DOMAIN conn : k # proxy.k => conn'[k] = conn[k]
  BY <1>1 DEF ConnsOK
<1>3. conn'[Origin] = conn[Origin]
  BY <1>1, <1>2 DEF ConnsOK
<1>4. ProxyKeeps
  BY <1>1, <1>2 DEF ProxyKeeps, ServingInv, ProxyServes, ConnsOK
<1>5. OriginKept
  BY <1>3 DEF OriginKept, Grown
<1> QED
  BY <1>1, <1>2, <1>3, <1>4, <1>5 DEF ProxyMoves

(* A step on the proxy's connection to Tiny.                               *)
LEMMA ProxyAsksTiny ==
    ASSUME ServingInv, ProxyBusy, NEW c, ConnOK(c), conn' = [conn EXCEPT ![Origin] = c],
           ProxyOK', ProxyBusy', proxy'.k = proxy.k, UNCHANGED proxyQueue
    PROVE  ProxyKeeps /\ conn'[Origin] = c
<1>1. ConnsOK /\ Origin \notin Clients
  BY OriginAssumption DEF ServingInv
<1>2. ConnsOK' /\ conn'[Origin] = c /\ \A k \in DOMAIN conn : k # Origin => conn'[k] = conn[k]
  BY <1>1 DEF ConnsOK
<1> QED
  BY <1>1, <1>2 DEF ProxyKeeps, ServingInv, ProxyServes, ConnsOK

-----------------------------------------------------------------------------
(* The parts of LinesWhole.                                                *)

ClientLine ==
    proxy.pc \in {"request line", "next", "header"} /\ proxy'.pc # "down" /\ ~ Breaks(proxy.k, "server")
        => FromClient!Next
OriginLine == proxy.pc = "forward" /\ ~ Breaks(Origin, "client") => FromOrigin!Next
TinyLine == tiny.pc \in {"request line", "headers"} /\ tiny'.pc # "down" => ToTiny!Next

LEMMA ClientNext ==
    ASSUME proxy'.k = proxy.k,
           LET w == Stream(proxy.r, conn[proxy.k].data["server"])
               w1 == Stream(proxy'.r, conn'[proxy.k].data["server"])
           IN  \/ w1 = w /\ proxy'.r.buf = proxy.r.buf
               \/ Handed(w, conn[proxy.k].peer["server"] # "open", w1, proxy'.r.buf)
    PROVE  FromClient!Next
BY DEF FromClient!Next, FromClient!Readline, FromClient!Waiting, FromClient!Hand, FromClient!Ends,
       Stream, Handed

LEMMA OriginNext ==
    ASSUME LET w == Stream(proxy.o, conn[Origin].data["client"])
               w1 == Stream(proxy'.o, conn'[Origin].data["client"])
           IN  \/ w1 = w /\ proxy'.o.buf = proxy.o.buf
               \/ Handed(w, conn[Origin].peer["client"] # "open", w1, proxy'.o.buf)
    PROVE  FromOrigin!Next
BY DEF FromOrigin!Next, FromOrigin!Readline, FromOrigin!Waiting, FromOrigin!Hand, FromOrigin!Ends,
       Stream, Handed

LEMMA TinyNext ==
    ASSUME tiny'.k = tiny.k,
           LET w == Stream(tiny.r, conn[tiny.k].data["server"])
               w1 == Stream(tiny'.r, conn'[tiny.k].data["server"])
           IN  \/ w1 = w /\ tiny'.r.buf = tiny.r.buf
               \/ Handed(w, conn[tiny.k].peer["server"] # "open", w1, tiny'.r.buf)
    PROVE  ToTiny!Next
BY DEF ToTiny!Next, ToTiny!Readline, ToTiny!Waiting, ToTiny!Hand, ToTiny!Ends, Stream, Handed

(* While a reader waits, its stream may grow.                              *)
LEMMA StreamGrows ==
    ASSUME NEW r, NEW data, NEW data1, LineOK(r), IsSeq(data), IsSeq(data1), Grown(data, data1)
    PROVE  Grown(Stream(r, data), Stream(r, data1))
<1>1. CASE data1 = data
  BY <1>1 DEF Grown
<1>2. CASE Len(data1) > Len(data) /\ SubSeq(data1, 1, Len(data)) = data
  <2> DEFINE h == r.line \o r.rio
  <2>1. IsSeq(h)
    BY ConcatIsSeq DEF LineOK
  <2> HIDE DEF h
  <2>2. PICK S : h \in Seq(S) /\ data \in Seq(S) /\ data1 \in Seq(S)
    BY <2>1, ThreeSeqsTogether
  <2> DEFINE w == h \o data
             w1 == h \o data1
             lh == Len(h)
             ld == Len(data)
             l1 == Len(data1)
  <2>3. lh \in Nat /\ ld \in Nat /\ l1 \in Nat /\ l1 > ld
    BY <2>2, <1>2, LenProperties
  <2>4. /\ w \in Seq(S) /\ Len(w) = lh + ld
        /\ \A i \in 1 .. lh + ld : w[i] = IF i <= lh THEN h[i] ELSE data[i - lh]
    BY <2>2, ConcatProperties
  <2>5. /\ w1 \in Seq(S) /\ Len(w1) = lh + l1
        /\ \A i \in 1 .. lh + l1 : w1[i] = IF i <= lh THEN h[i] ELSE data1[i - lh]
    BY <2>2, ConcatProperties
  <2>6. \A i \in 1 .. lh + l1 : w1[i] \in S
    BY <2>5, ElementOfSeq
  <2>7. \A i \in 1 .. ld : data1[i] = data[i]
    <3>1. \A i \in 1 .. l1 : data1[i] \in S
      BY <2>2, ElementOfSeq
    <3>2. \A i \in 1 .. ld : data1[i] \in S
      BY <3>1, <2>3
    <3> DEFINE p == SubSeq(data1, 1, ld)
    <3>3. \A i \in 1 .. ld - 1 + 1 : p[i] = data1[1 + i - 1]
      BY <3>2, <2>3, SubSeqProperties
    <3>4. p = data
      BY <1>2
    <3> HIDE DEF p, ld, l1
    <3>5. \A i \in 1 .. ld : p[i] = data1[i]
      BY <2>3, <3>3
    <3> QED
      BY <3>4, <3>5
  <2> DEFINE q == SubSeq(w1, 1, lh + ld)
  <2> HIDE DEF w, w1, lh, ld, l1
  <2>8. /\ q \in Seq(S) /\ Len(q) = lh + ld
        /\ \A i \in 1 .. lh + ld : q[i] = w1[i]
    <3>1. \A i \in 1 .. lh + ld : w1[i] \in S
      BY <2>3, <2>6
    <3>2. /\ q \in Seq(S) /\ Len(q) = IF 1 <= lh + ld THEN lh + ld - 1 + 1 ELSE 0
          /\ \A i \in 1 .. lh + ld - 1 + 1 : q[i] = w1[1 + i - 1]
      BY <3>1, <2>3, SubSeqProperties
    <3> HIDE DEF q
    <3>3. \A i \in 1 .. lh + ld : q[i] = w1[i]
      BY <3>2, <2>3
    <3> QED
      BY <3>2, <3>3, <2>3
  <2>9. ASSUME NEW i \in 1 .. lh + ld
        PROVE  q[i] = w[i]
    <3>1. q[i] = w1[i] /\ i \in 1 .. lh + l1 /\ i \in Int
      BY <2>3, <2>8
    <3>2. CASE i <= lh
      BY <3>1, <3>2, <2>4, <2>5
    <3>3. CASE ~ (i <= lh)
      <4>1. i - lh \in 1 .. ld
        BY <2>3, <3>1, <3>3
      <4>2. w1[i] = data1[i - lh] /\ w[i] = data[i - lh]
        BY <3>1, <3>3, <2>4, <2>5
      <4> QED
        BY <3>1, <4>1, <4>2, <2>7
    <3> QED
      BY <3>2, <3>3
  <2>10. q = w
    <3> HIDE DEF q
    <3> QED
      BY <2>4, <2>8, <2>9, SeqEqual
  <2>11. Len(w1) > Len(w) /\ SubSeq(w1, 1, Len(w)) = w
    BY <2>3, <2>4, <2>5, <2>10
  <2>12. Stream(r, data) = w /\ Stream(r, data1) = w1
    BY DEF Stream, w, w1, h
  <2> QED
    BY <2>11, <2>12 DEF Grown
<1> QED
  BY <1>1, <1>2 DEF Grown

LEMMA ClientArrive ==
    ASSUME proxy' = proxy, Grown(Stream(proxy.r, conn[proxy.k].data["server"]),
                                 Stream(proxy.r, conn'[proxy.k].data["server"]))
    PROVE  FromClient!Next
BY DEF FromClient!Next, FromClient!Arrive, FromClient!Waiting, Stream, Grown

LEMMA OriginArrive ==
    ASSUME proxy' = proxy, Grown(Stream(proxy.o, conn[Origin].data["client"]),
                                 Stream(proxy.o, conn'[Origin].data["client"]))
    PROVE  FromOrigin!Next
BY DEF FromOrigin!Next, FromOrigin!Arrive, FromOrigin!Waiting, Stream, Grown

LEMMA TinyArrive ==
    ASSUME tiny' = tiny, Grown(Stream(tiny.r, conn[tiny.k].data["server"]),
                               Stream(tiny.r, conn'[tiny.k].data["server"]))
    PROVE  ToTiny!Next
BY DEF ToTiny!Next, ToTiny!Arrive, ToTiny!Waiting, Stream, Grown

-----------------------------------------------------------------------------
(* The steps of the proxy.                                                 *)

LEMMA ProxyReads ==
    ASSUME ServingInv, proxy.pc \in {"request line", "next", "header"},
           NEW x \in rio_readlineb(conn[proxy.k], "server", proxy.r),
           conn' = [conn EXCEPT ![proxy.k] = x.c],
           DOMAIN proxy' = ProxyFields, proxy'.r = x.to.r, proxy'.o = proxy.o, proxy'.k = proxy.k,
           ProxyBusy', UNCHANGED <<proxyQueue, tinyQueue>>
    PROVE  ProxyMoves /\ ClientLine /\ OriginLine
<1>1. ProxyBusy /\ ~ Holding /\ ConnOK(conn[proxy.k]) /\ LineOK(proxy.r) /\ LineOK(proxy.o)
  BY DEF ProxyBusy, Holding, ServingInv, ProxyServes, ForProxy, ConnsOK, ProxyOK
<1>0. ReadlineDone(conn[proxy.k], "server", proxy.r, x)
  BY <1>1, ReadlineStep, TwoSides
<1>2. /\ ConnOK(x.c) /\ LineOK(x.to.r) /\ x.to.rc \in {"more", "line", "eof", "error"}
      /\ x.to.rc = "error" => conn[proxy.k].peer["server"] = "reset" /\ x.c.peer["server"] = "broken"
      /\ x.to.rc # "error" =>
             \/ /\ Stream(x.to.r, x.c.data["server"]) = Stream(proxy.r, conn[proxy.k].data["server"])
                /\ x.to.r.buf = proxy.r.buf
             \/ Handed(Stream(proxy.r, conn[proxy.k].data["server"]),
                       conn[proxy.k].peer["server"] # "open",
                       Stream(x.to.r, x.c.data["server"]), x.to.r.buf)
  BY <1>0 DEF ReadlineDone
<1>3. ProxyOK'
  BY <1>1, <1>2 DEF ProxyOK
<1>4. ProxyMoves /\ conn'[proxy.k] = x.c
  BY <1>1, <1>2, <1>3, ProxyServesOne
<1>5. CASE x.to.rc = "error"
  BY <1>2, <1>4, <1>5 DEF ClientLine, OriginLine, Breaks
<1>6. CASE x.to.rc # "error"
  <2>1. FromClient!Next
    BY <1>2, <1>4, <1>6, ClientNext
  <2> QED
    BY <1>4, <2>1 DEF ClientLine, OriginLine
<1> QED
  BY <1>5, <1>6

(* send_request and forward_response: one write.                           *)
LEMMA ProxyWrites ==
    ASSUME ServingInv, P!send_request \/ P!forward_response_write
    PROVE  ProxyMoves /\ ClientLine /\ OriginLine
<1>1. ConnsOK /\ ProxyOK /\ (ProxyBusy => ForProxy(proxy.k))
  BY DEF ServingInv, ProxyServes
<1>2. CASE P!send_request
  <2>1. proxy.pc = "send"
    BY <1>2 DEF P!send_request, P!Rio_writen, P!At
  <2>2. ProxyBusy /\ Holding
    BY <2>1 DEF ProxyBusy, Holding
  <2>3. CASE P!Exit
    BY <2>1, <2>2, <2>3, ProxyExit DEF ClientLine, OriginLine
  <2>4. CASE ~ P!Exit
    <3>1. PICK x \in rio_writen(conn[Origin], "client", Head(proxy.out)) :
              /\ conn' = [conn EXCEPT ![Origin] = x.c]
              /\ \E out : proxy' = [proxy EXCEPT !.out = out,
                              !.pc = IF out = << >> THEN "forward" ELSE "send"]
              /\ UNCHANGED <<proxyQueue, tinyQueue>>
      BY <1>2, <2>4, ProxyCalls DEF P!send_request, P!Rio_writen
    <3>2. ConnOK(conn[Origin])
      BY <1>1 DEF ConnsOK
    <3>3. WriteDone(conn[Origin], "client", x)
      BY <3>2, WriteStep, TwoSides
    <3>4. /\ DOMAIN proxy' = ProxyFields /\ proxy'.pc \in {"send", "forward"}
          /\ proxy'.k = proxy.k /\ proxy'.r = proxy.r /\ proxy'.o = proxy.o
      BY <3>1, <1>1 DEF ProxyOK, ProxyFields
    <3>5. ProxyOK' /\ ProxyBusy' /\ Holding'
      BY <3>4, <1>1 DEF ProxyOK, ProxyBusy, Holding
    <3>6. ProxyKeeps /\ conn'[Origin] = x.c
      BY <2>2, <3>1, <3>3, <3>4, <3>5, ProxyAsksTiny DEF WriteDone
    <3>7. OriginKept
      BY <3>1, <3>3, <3>5, <3>6, TwoSides DEF OriginKept, WriteDone
    <3> QED
      BY <2>1, <3>6, <3>7 DEF ProxyMoves, ClientLine, OriginLine
  <2> QED
    BY <2>3, <2>4
<1>3. CASE P!forward_response_write
  <2>1. proxy.pc = "reply"
    BY <1>3 DEF P!forward_response_write, P!Rio_writen, P!At
  <2>2. ProxyBusy /\ Holding
    BY <2>1 DEF ProxyBusy, Holding
  <2>3. CASE P!Exit
    BY <2>1, <2>2, <2>3, ProxyExit DEF ClientLine, OriginLine
  <2>4. CASE ~ P!Exit
    <3>1. PICK x \in rio_writen(conn[proxy.k], "server", Head(proxy.out)) :
              /\ conn' = [conn EXCEPT ![proxy.k] = x.c]
              /\ \E out : proxy' = [proxy EXCEPT !.out = out,
                              !.pc = IF out = << >> THEN "forward" ELSE "reply"]
              /\ UNCHANGED <<proxyQueue, tinyQueue>>
      BY <1>3, <2>4, ProxyCalls DEF P!forward_response_write, P!Rio_writen
    <3>2. ConnOK(conn[proxy.k])
      BY <1>1, <2>2 DEF ConnsOK, ForProxy
    <3>3. WriteDone(conn[proxy.k], "server", x)
      BY <3>2, WriteStep, TwoSides
    <3>4. /\ DOMAIN proxy' = ProxyFields /\ proxy'.pc \in {"reply", "forward"}
          /\ proxy'.k = proxy.k /\ proxy'.r = proxy.r /\ proxy'.o = proxy.o
      BY <3>1, <1>1 DEF ProxyOK, ProxyFields
    <3>5. ProxyOK' /\ Holding'
      BY <3>4, <1>1 DEF ProxyOK, Holding
    <3>6. ProxyMoves
      BY <2>2, <3>1, <3>3, <3>4, <3>5, ProxyServesOne DEF WriteDone
    <3> QED
      BY <2>1, <3>6 DEF ClientLine, OriginLine
  <2> QED
    BY <2>3, <2>4
<1> QED
  BY <1>2, <1>3

LEMMA ProxyForwards ==
    ASSUME ServingInv, P!forward_response_read
    PROVE  ProxyMoves /\ ClientLine /\ OriginLine
<1>1. proxy.pc = "forward" /\ ConnsOK /\ ProxyOK /\ ConnOK(conn[Origin])
  BY DEF P!forward_response_read, P!At, ServingInv, ConnsOK
<1>2. PICK x \in rio_readlineb(conn[Origin], "client", proxy.o) :
          /\ conn' = [conn EXCEPT ![Origin] = x.c]
          /\ proxy' = [proxy EXCEPT !.o = x.to.r,
                           !.out = IF x.to.rc = "line" THEN <<x.to.r.buf>> ELSE << >>,
                           !.pc = CASE x.to.rc \in {"more", "error"} -> "forward"
                                    [] x.to.rc = "line" -> "reply"
                                    [] x.to.rc = "eof" -> "close origin"]
          /\ UNCHANGED <<proxyQueue, tinyQueue>>
  BY ProxyCalls DEF P!forward_response_read
<1>0. ReadlineDone(conn[Origin], "client", proxy.o, x)
  BY <1>1, ReadlineStep, TwoSides DEF ProxyOK
<1>3. /\ ConnOK(x.c) /\ LineOK(x.to.r) /\ x.to.rc \in {"more", "line", "eof", "error"}
      /\ x.c.data["server"] = conn[Origin].data["server"]
      /\ conn[Origin].data["client"] = << >> => x.c.data["client"] = << >>
      /\ x.to.rc = "error" => conn[Origin].peer["client"] = "reset" /\ x.c.peer["client"] = "broken"
      /\ x.to.rc = "eof" => conn[Origin].peer["client"] \notin {"open", "reset"}
      /\ x.to.rc # "error" =>
             /\ x.c.peer["client"] = conn[Origin].peer["client"]
             /\ \/ /\ Stream(x.to.r, x.c.data["client"]) = Stream(proxy.o, conn[Origin].data["client"])
                   /\ x.to.r.buf = proxy.o.buf
                \/ Handed(Stream(proxy.o, conn[Origin].data["client"]),
                          conn[Origin].peer["client"] # "open",
                          Stream(x.to.r, x.c.data["client"]), x.to.r.buf)
  BY <1>0, TwoSides DEF ReadlineDone
<1>4. /\ DOMAIN proxy' = ProxyFields /\ proxy'.o = x.to.r /\ proxy'.r = proxy.r /\ proxy'.k = proxy.k
      /\ proxy'.pc = CASE x.to.rc \in {"more", "error"} -> "forward"
                       [] x.to.rc = "line" -> "reply"
                       [] x.to.rc = "eof" -> "close origin"
  <2> DEFINE out == IF x.to.rc = "line" THEN <<x.to.r.buf>> ELSE << >>
             pc == CASE x.to.rc \in {"more", "error"} -> "forward"
                     [] x.to.rc = "line" -> "reply"
                     [] x.to.rc = "eof" -> "close origin"
  <2>1. proxy' = [proxy EXCEPT !.o = x.to.r, !.out = out, !.pc = pc]
    BY <1>2
  <2> HIDE DEF out, pc
  <2>2. /\ DOMAIN proxy' = ProxyFields /\ proxy'.o = x.to.r /\ proxy'.r = proxy.r /\ proxy'.k = proxy.k
        /\ proxy'.pc = pc
    BY <2>1, <1>1 DEF ProxyOK, ProxyFields
  <2> QED
    BY <2>2 DEF pc
<1>5. /\ proxy'.pc \in {"forward", "reply", "close origin"}
      /\ proxy'.pc = "close origin" => x.to.rc = "eof"
  BY <1>3, <1>4
<1>6. ProxyOK' /\ ProxyBusy /\ ProxyBusy' /\ (x.to.rc # "eof" => Holding')
  BY <1>1, <1>3, <1>4, <1>5 DEF ProxyOK, ProxyBusy, Holding
<1>7. ProxyKeeps /\ conn'[Origin] = x.c
  BY <1>2, <1>3, <1>4, <1>6, ProxyAsksTiny
<1>8. OriginKept
  <2>1. ASSUME conn[Origin].peer["client"] = "open"
        PROVE  conn'[Origin].peer["client"] = "open" /\ Holding'
    BY <2>1, <1>3, <1>6, <1>7
  <2>2. Grown(conn[Origin].data["server"], conn'[Origin].data["server"])
    BY <1>3, <1>7 DEF Grown
  <2> QED
    BY <1>2, <1>3, <1>7, <2>1, <2>2 DEF OriginKept
<1>9. CASE x.to.rc = "error"
  BY <1>1, <1>3, <1>7, <1>8, <1>9 DEF ProxyMoves, ClientLine, OriginLine, Breaks
<1>10. CASE x.to.rc # "error"
  <2>1. FromOrigin!Next
    BY <1>3, <1>4, <1>7, <1>10, OriginNext
  <2> QED
    BY <1>1, <1>7, <1>8, <2>1 DEF ProxyMoves, ClientLine, OriginLine
<1> QED
  BY <1>9, <1>10

LEMMA ProxyCloses ==
    ASSUME ServingInv, P!doit_close \/ P!Close
    PROVE  ProxyMoves /\ ClientLine /\ OriginLine
<1>1. ConnsOK /\ ProxyOK /\ (ProxyBusy => ForProxy(proxy.k))
  BY DEF ServingInv, ProxyServes
<1>2. CASE P!doit_close
  <2>1. proxy.pc = "close origin" /\ ConnOK(conn[Origin])
    BY <1>1, <1>2 DEF P!doit_close, P!At, ConnsOK
  <2>2. PICK c \in CloseOutcomes(conn[Origin], "client") : conn' = [conn EXCEPT ![Origin] = c]
    BY <1>2, ProxyCalls DEF P!doit_close
  <2>3. CloseDone(conn[Origin], "client", c)
    BY <2>1, CloseStep, TwoSides
  <2>4. /\ DOMAIN proxy' = ProxyFields /\ proxy'.pc = "close" /\ proxy'.k = proxy.k
        /\ proxy'.r = proxy.r /\ proxy'.o = [rio |-> << >>, line |-> << >>, buf |-> Junk]
        /\ UNCHANGED <<proxyQueue, tinyQueue>>
    BY <1>1, <1>2 DEF P!doit_close, ProxyOK, ProxyFields, P!rio_readinitb, P!Junk, Junk
  <2>5. ProxyOK' /\ ProxyBusy /\ ProxyBusy' /\ ~ Holding
    BY <1>1, <2>1, <2>4, FreshReader DEF ProxyOK, ProxyBusy, Holding
  <2>6. ProxyKeeps /\ conn'[Origin] = c
    BY <2>2, <2>3, <2>4, <2>5, ProxyAsksTiny DEF CloseDone
  <2>7. OriginKept
    BY <2>3, <2>4, <2>5, <2>6 DEF OriginKept, CloseDone
  <2> QED
    BY <2>1, <2>6, <2>7 DEF ProxyMoves, ClientLine, OriginLine
<1>3. CASE P!Close
  <2>1. proxy.pc = "close"
    BY <1>3 DEF P!Close, P!At
  <2>2. ProxyBusy /\ ~ Holding /\ ConnOK(conn[proxy.k])
    BY <1>1, <2>1 DEF ProxyBusy, Holding, ConnsOK, ForProxy
  <2>3. PICK c \in CloseOutcomes(conn[proxy.k], "server") : conn' = [conn EXCEPT ![proxy.k] = c]
    BY <1>3, ProxyCalls DEF P!Close, P!Fd
  <2>4. ConnOK(c)
    BY <2>2, CloseStep, TwoSides DEF CloseDone
  <2>5. /\ DOMAIN proxy' = ProxyFields /\ proxy'.k = proxy.k /\ proxy'.r = proxy.r /\ proxy'.o = proxy.o
        /\ UNCHANGED <<proxyQueue, tinyQueue>>
    BY <1>1, <1>3 DEF P!Close, ProxyOK, ProxyFields
  <2>6. ProxyOK'
    BY <1>1, <2>5 DEF ProxyOK
  <2>7. ProxyMoves
    BY <2>2, <2>3, <2>4, <2>5, <2>6, ProxyServesOne
  <2> QED
    BY <2>1, <2>7 DEF ClientLine, OriginLine
<1> QED
  BY <1>2, <1>3

LEMMA ProxyAccepts ==
    ASSUME ServingInv, P!Accept
    PROVE  ProxyMoves /\ ClientLine /\ OriginLine
<1>1. ConnsOK /\ ProxyOK /\ IsSeq(proxyQueue)
  BY DEF ServingInv, ProxyServes
<1>2. proxy.pc = "accept" /\ proxyQueue # << >>
  BY DEF P!Accept, P!At
<1>3. /\ DOMAIN proxy' = ProxyFields /\ proxy'.pc = "request line" /\ proxy'.k = Head(proxyQueue)
      /\ proxy'.r = [rio |-> << >>, line |-> << >>, buf |-> Junk] /\ proxy'.o = proxy.o
      /\ proxyQueue' = Tail(proxyQueue) /\ UNCHANGED <<conn, tinyQueue>>
  BY <1>1 DEF P!Accept, ProxyOK, ProxyFields, P!rio_readinitb, P!Junk, Junk
<1>4. IsSeq(proxyQueue') /\ Range(proxyQueue') \subseteq Range(proxyQueue) /\ proxy'.k \in Range(proxyQueue)
  BY <1>1, <1>2, <1>3, TailIsSeq
<1>5. ProxyOK' /\ ConnsOK'
  BY <1>1, <1>3, FreshReader DEF ProxyOK, ConnsOK
<1>6. ProxyKeeps
  BY <1>3, <1>4, <1>5 DEF ProxyKeeps
<1>7. OriginKept
  BY <1>2, <1>3 DEF OriginKept, Holding, Grown
<1> QED
  BY <1>2, <1>6, <1>7 DEF ProxyMoves, ClientLine, OriginLine

(* Requests: parsing, and the connection to Tiny.                          *)
LEMMA ProxyParses ==
    ASSUME ServingInv, P!read_request_line_parse \/ P!read_request_header_parse
    PROVE  ProxyMoves /\ ClientLine /\ OriginLine
<1>1. ConnsOK /\ ProxyOK
  BY DEF ServingInv
<1>2. proxy.pc \in {"parse request", "parse header"}
  BY DEF P!read_request_line_parse, P!read_request_header_parse, P!At
<1>3. ProxyBusy /\ ~ Holding
  BY <1>2 DEF ProxyBusy, Holding
<1>4. CASE P!Exit
  BY <1>2, <1>3, <1>4, ProxyExit DEF ClientLine, OriginLine
<1>5. CASE P!read_request_line_parse /\ ~ P!Exit
  <2>1. PICK req, spoilt : proxy' = [proxy EXCEPT !.pc = "next", !.spoilt = spoilt, !.req = req]
    BY <1>5 DEF P!read_request_line_parse
  <2>2. UNCHANGED <<conn, proxyQueue, tinyQueue>>
    BY <1>5 DEF P!read_request_line_parse
  <2>3. /\ DOMAIN proxy' = ProxyFields /\ proxy'.pc = "next" /\ proxy'.k = proxy.k
        /\ proxy'.r = proxy.r /\ proxy'.o = proxy.o
    BY <1>1, <2>1 DEF ProxyOK, ProxyFields
  <2>4. ProxyOK' /\ ProxyBusy'
    BY <1>1, <2>3 DEF ProxyOK, ProxyBusy
  <2>5. ProxyMoves
    BY <1>3, <2>2, <2>3, <2>4, ProxyQuiet
  <2> QED
    BY <1>2, <2>5 DEF ClientLine, OriginLine
<1>6. CASE P!read_request_header_parse /\ ~ P!Exit
  <2> DEFINE buf1 == P!Name(proxy.r.buf)
             r1 == [proxy.r EXCEPT !.buf = buf1]
  <2>1. PICK spoilt, hs : proxy' = [proxy EXCEPT !.pc = "next", !.r.buf = buf1,
                                        !.spoilt = spoilt, !.req.headers = hs]
    BY <1>6, Zenon DEF P!read_request_header_parse
  <2>2. UNCHANGED <<conn, proxyQueue, tinyQueue>>
    BY <1>6 DEF P!read_request_header_parse
  <2>3. LineOK(r1)
    BY <1>1, BufIsFree DEF ProxyOK
  <2> DEFINE req1 == [proxy.req EXCEPT !.headers = hs]
  <2> HIDE DEF buf1
  <2>4. proxy' = [[[[proxy EXCEPT !.pc = "next"] EXCEPT !.r = r1] EXCEPT !.spoilt = spoilt] EXCEPT !.req = req1]
    BY <2>1, <1>1 DEF ProxyOK, ProxyFields
  <2> HIDE DEF r1, req1
  <2>5. /\ DOMAIN proxy' = ProxyFields /\ proxy'.pc = "next" /\ proxy'.k = proxy.k
        /\ proxy'.r = r1 /\ proxy'.o = proxy.o
    BY <1>1, <2>4 DEF ProxyOK, ProxyFields
  <2>6. ProxyOK' /\ ProxyBusy'
    BY <1>1, <2>3, <2>5 DEF ProxyOK, ProxyBusy
  <2>7. ProxyMoves
    BY <1>3, <2>2, <2>5, <2>6, ProxyQuiet
  <2> QED
    BY <1>2, <2>7 DEF ClientLine, OriginLine
<1> QED
  BY <1>4, <1>5, <1>6

LEMMA ProxyConnects ==
    ASSUME ServingInv, P!Open_clientfd
    PROVE  ProxyMoves /\ ClientLine /\ OriginLine
<1>1. ConnsOK /\ ProxyOK
  BY DEF ServingInv
<1>2. proxy.pc = "connect"
  BY DEF P!Open_clientfd, P!At
<1>3. ProxyBusy /\ ~ Holding
  BY <1>2 DEF ProxyBusy, Holding
<1>4. CASE P!Exit
  BY <1>2, <1>3, <1>4, ProxyExit DEF ClientLine, OriginLine
<1>5. CASE ~ P!Exit
  <2>1. PICK out, spoilt : proxy' = [proxy EXCEPT !.pc = "send", !.r = P!rio_readinitb(P!Junk), !.out = out,
                                         !.spoilt = spoilt]
    BY <1>5, Zenon DEF P!Open_clientfd
  <2>2. conn' = [conn EXCEPT ![Origin] = Connected] /\ tinyQueue' = Append(tinyQueue, Origin)
        /\ UNCHANGED proxyQueue
    BY <1>5 DEF P!Open_clientfd, P!Connected, Connected, P!Sides, Sides
  <2>3. P!rio_readinitb(P!Junk) = [rio |-> << >>, line |-> << >>, buf |-> Junk]
    BY DEF P!rio_readinitb, P!Junk, Junk
  <2>4. /\ DOMAIN proxy' = ProxyFields /\ proxy'.pc = "send" /\ proxy'.k = proxy.k
        /\ proxy'.r = [rio |-> << >>, line |-> << >>, buf |-> Junk] /\ proxy'.o = proxy.o
    BY <1>1, <2>1, <2>3 DEF ProxyOK, ProxyFields
  <2>5. ProxyOK' /\ ProxyBusy'
    BY <1>1, <2>4, FreshReader DEF ProxyOK, ProxyBusy
  <2>6. ProxyKeeps /\ conn'[Origin] = Connected
    BY <1>3, <2>2, <2>4, <2>5, ConnectedOK, ProxyAsksTiny
  <2>7. OriginAsked
    BY <1>3, <2>2, <2>4, <2>6 DEF OriginAsked
  <2> QED
    BY <1>2, <2>6, <2>7 DEF ProxyMoves, ClientLine, OriginLine
<1> QED
  BY <1>4, <1>5

LEMMA ProxyReadsRequest ==
    ASSUME ServingInv, P!read_request_line \/ P!read_request \/ P!read_request_header
    PROVE  ProxyMoves /\ ClientLine /\ OriginLine
<1>1. proxy.pc \in {"request line", "next", "header"}
  BY DEF P!read_request_line, P!read_request, P!read_request_header, P!Rio_readlineb, P!At
<1>2. DOMAIN proxy = ProxyFields
  BY DEF ServingInv, ProxyOK
<1> DEFINE Reads(x, pc) ==
      /\ conn' = [conn EXCEPT ![proxy.k] = x.c]
      /\ proxy' = [proxy EXCEPT !.r = x.to.r, !.pc = pc]
      /\ UNCHANGED <<proxyQueue, tinyQueue>>
<1>3. PICK x \in rio_readlineb(conn[proxy.k], "server", proxy.r) :
          \E pc \in {"request line", "parse request", "next", "connect", "header", "parse header"} : Reads(x, pc)
  <2>1. CASE P!read_request_line
    <3>1. PICK x \in rio_readlineb(conn[proxy.k], "server", proxy.r) :
              Reads(x, IF x.to.rc = "more" THEN "request line" ELSE "parse request")
      BY <2>1, ProxyCalls DEF P!read_request_line, P!Rio_readlineb, P!Fd
    <3> DEFINE pc == IF x.to.rc = "more" THEN "request line" ELSE "parse request"
    <3>2. Reads(x, pc) /\ pc \in {"request line", "parse request"}
      BY <3>1
    <3> HIDE DEF pc, Reads
    <3> QED
      BY <3>2
  <2>2. CASE P!read_request
    <3>1. PICK x \in rio_readlineb(conn[proxy.k], "server", proxy.r) :
              Reads(x, IF x.to.rc = "more" THEN "next"
                       ELSE IF x.to.r.buf = <<P!NL>> THEN "connect" ELSE "header")
      BY <2>2, ProxyCalls DEF P!read_request, P!Rio_readlineb, P!Fd
    <3> DEFINE pc == IF x.to.rc = "more" THEN "next"
                     ELSE IF x.to.r.buf = <<P!NL>> THEN "connect" ELSE "header"
    <3>2. Reads(x, pc) /\ pc \in {"next", "connect", "header"}
      BY <3>1
    <3> HIDE DEF pc, Reads
    <3> QED
      BY <3>2
  <2>3. CASE P!read_request_header
    <3>1. PICK x \in rio_readlineb(conn[proxy.k], "server", proxy.r) :
              Reads(x, IF x.to.rc = "more" THEN "header" ELSE "parse header")
      BY <2>3, ProxyCalls DEF P!read_request_header, P!Rio_readlineb, P!Fd
    <3> DEFINE pc == IF x.to.rc = "more" THEN "header" ELSE "parse header"
    <3>2. Reads(x, pc) /\ pc \in {"header", "parse header"}
      BY <3>1
    <3> HIDE DEF pc, Reads
    <3> QED
      BY <3>2
  <2> QED
    BY <2>1, <2>2, <2>3
<1>4. PICK pc \in {"request line", "parse request", "next", "connect", "header", "parse header"} : Reads(x, pc)
  BY <1>3
<1>5. /\ DOMAIN proxy' = ProxyFields /\ proxy'.pc = pc /\ proxy'.k = proxy.k
      /\ proxy'.r = x.to.r /\ proxy'.o = proxy.o
  BY <1>2, <1>4 DEF ProxyFields
<1>6. ProxyBusy'
  BY <1>4, <1>5 DEF ProxyBusy
<1> QED
  BY <1>1, <1>4, <1>5, <1>6, ProxyReads

LEMMA ProxySteps ==
    ASSUME ServingInv, P!main
    PROVE  ProxyMoves /\ ClientLine /\ OriginLine
<1>1. CASE P!Accept
  BY <1>1, ProxyAccepts
<1>2. CASE P!read_request_line \/ P!read_request \/ P!read_request_header
  BY <1>2, ProxyReadsRequest
<1>3. CASE P!read_request_line_parse \/ P!read_request_header_parse
  BY <1>3, ProxyParses
<1>4. CASE P!Open_clientfd
  BY <1>4, ProxyConnects
<1>5. CASE P!send_request \/ P!forward_response_write
  BY <1>5, ProxyWrites
<1>6. CASE P!forward_response_read
  BY <1>6, ProxyForwards
<1>7. CASE P!doit_close \/ P!Close
  BY <1>7, ProxyCloses
<1>8. CASE P!overrun
  <2>1. proxy.pc \in {"parse header", "send", "close"} /\ P!Exit
    BY <1>8 DEF P!overrun
  <2> QED
    BY <2>1, ProxyExit DEF ProxyBusy, ClientLine, OriginLine
<1> QED
  BY <1>1, <1>2, <1>3, <1>4, <1>5, <1>6, <1>7, <1>8 DEF P!main, P!doit

-----------------------------------------------------------------------------
(* What every step of Tiny leaves alone.                                   *)

TinyKeeps ==
    /\ ConnsOK' /\ TinyOK'
    /\ \A c \in Clients : ~ ForTiny(c) => conn'[c] = conn[c]
    /\ Breaks(Origin, "client") \/ Grown(conn[Origin].data["client"], conn'[Origin].data["client"])

TinyTakes ==
    /\ tinyQueue # << >> /\ tinyQueue' = Tail(tinyQueue)
    /\ tiny'.k = Head(tinyQueue) /\ ~ TinyBusy /\ conn' = conn

TinyStays ==
    /\ tinyQueue' = tinyQueue /\ TinyBusy /\ tiny'.k = tiny.k
    /\ Reading' => Reading
    /\ tiny.k # Origin => conn'[Origin] = conn[Origin]
    /\ TinyBusy' =>
           /\ conn'[Origin].peer["client"] = conn[Origin].peer["client"]
           /\ Reading' => conn'[Origin].data["client"] = conn[Origin].data["client"]

TinyEnds == tinyQueue' = << >> /\ tiny'.pc = "down"

TinyMoves == TinyKeeps /\ (TinyTakes \/ TinyStays \/ TinyEnds)

LEMMA TinyServesIts ==
    ASSUME ServingInv, TinyBusy
    PROVE  tiny.k \in Clients \cup {Origin} /\ ConnOK(conn[tiny.k]) /\ (tiny.k # Origin => ForTiny(tiny.k))
BY DEF ServingInv, TinyServes, ForTiny, ConnsOK

(* A step on the connection before it that keeps the other side's peer.    *)
LEMMA TinyServesOne ==
    ASSUME ServingInv, TinyBusy, NEW c, ConnOK(c), conn' = [conn EXCEPT ![tiny.k] = c],
           c.peer["client"] = conn[tiny.k].peer["client"],
           Grown(conn[tiny.k].data["client"], c.data["client"]),
           Reading' => Reading /\ c.data["client"] = conn[tiny.k].data["client"],
           TinyOK', tiny'.k = tiny.k, tinyQueue' = tinyQueue
    PROVE  TinyMoves /\ conn'[tiny.k] = c
<1>1. ConnsOK /\ tiny.k \in Clients \cup {Origin} /\ (tiny.k # Origin => ForTiny(tiny.k))
  BY TinyServesIts DEF ServingInv
<1>2. /\ conn'[tiny.k] = c /\ DOMAIN conn' = DOMAIN conn
      /\ \A k \in DOMAIN conn : k # tiny.k => conn'[k] = conn[k]
  BY <1>1 DEF ConnsOK
<1>3. ConnsOK'
  BY <1>1, <1>2 DEF ConnsOK
<1>4. \A k \in Clients : ~ ForTiny(k) => conn'[k] = conn[k]
  BY <1>1, <1>2, OriginAssumption DEF ConnsOK
<1>5. tiny.k # Origin => conn'[Origin] = conn[Origin]
  BY <1>1, <1>2 DEF ConnsOK
<1>6. Grown(conn[Origin].data["client"], conn'[Origin].data["client"])
  BY <1>2, <1>5 DEF Grown
<1>7. TinyKeeps
  BY <1>3, <1>4, <1>6 DEF TinyKeeps
<1>8. TinyStays
  BY <1>2, <1>5 DEF TinyStays
<1> QED
  BY <1>2, <1>7, <1>8 DEF TinyMoves

LEMMA TinyQuiet ==
    ASSUME ServingInv, TinyBusy, conn' = conn, Reading' => Reading,
           TinyOK', tiny'.k = tiny.k, tinyQueue' = tinyQueue
    PROVE  TinyMoves
<1>1. ConnsOK'
  BY DEF ServingInv, ConnsOK
<1>2. TinyKeeps
  BY <1>1 DEF TinyKeeps, Grown
<1>3. TinyStays
  BY DEF TinyStays
<1> QED
  BY <1>2, <1>3 DEF TinyMoves

(* Closing the proxy's connection is a reset for the proxy, or drops       *)
(* nothing it has not been sent.                                           *)
LEMMA TinyDrops ==
    ASSUME NEW c, ConnOK(conn[Origin]), CloseDone(conn[Origin], "server", c),
           conn[Origin].peer["client"] = "open", conn'[Origin] = c
    PROVE  Breaks(Origin, "client") \/ Grown(conn[Origin].data["client"], conn'[Origin].data["client"])
BY TwoSides DEF CloseDone, Breaks, Grown

LEMMA TinyExit ==
    ASSUME ServingInv, TinyBusy, NEW fd, T!Exit(fd), ConnOK(fd),
           fd.peer["client"] = conn[tiny.k].peer["client"],
           fd.data["client"] = conn[tiny.k].data["client"]
    PROVE  TinyMoves /\ tiny'.pc = "down"
<1>1. PICK c \in CloseOutcomes(fd, "server") :
          conn' = [k \in DOMAIN conn |->
                       CASE k = tiny.k -> c
                         [] k \in Range(tinyQueue) -> CHOOSE d \in CloseOutcomes(conn[k], "server") : TRUE
                         [] OTHER -> conn[k]]
  BY DEF T!Exit, T!Range, Range, T!CloseOutcomes, CloseOutcomes, T!Other, Other,
         T!Prefixes, Prefixes
<1>2. /\ DOMAIN tiny' = TinyFields /\ tiny'.pc = "down" /\ tiny'.r = tiny.r /\ tiny'.then = tiny.then
      /\ tinyQueue' = << >>
  BY DEF T!Exit, ServingInv, TinyOK, TinyFields
<1>3. /\ ConnsOK /\ TinyOK /\ tiny.k \in Clients \cup {Origin} /\ (tiny.k # Origin => ForTiny(tiny.k))
      /\ \A k \in Range(tinyQueue) : k \in Clients \cup {Origin} /\ (k # Origin => ForTiny(k))
  BY TinyServesIts DEF ServingInv, TinyServes, ForTiny
<1>4. CloseDone(fd, "server", c)
  BY CloseStep, TwoSides
<1>5. ASSUME NEW k \in Range(tinyQueue)
      PROVE  CloseDone(conn[k], "server", CHOOSE d \in CloseOutcomes(conn[k], "server") : TRUE)
  <2>1. ConnOK(conn[k])
    BY <1>3 DEF ConnsOK
  <2> DEFINE d == CHOOSE d \in CloseOutcomes(conn[k], "server") : TRUE
  <2>2. d \in CloseOutcomes(conn[k], "server")
    BY <2>1, CloseEnds, TwoSides
  <2> QED
    BY <2>1, <2>2, CloseStep, TwoSides
<1>6. DOMAIN conn' = DOMAIN conn
  BY <1>1
<1> DEFINE Shut(k) == CHOOSE d \in CloseOutcomes(conn[k], "server") : TRUE
<1>7. ASSUME NEW k \in DOMAIN conn
      PROVE  \/ k = tiny.k /\ conn'[k] = c
             \/ k \in Range(tinyQueue) /\ conn'[k] = Shut(k)
             \/ k # tiny.k /\ k \notin Range(tinyQueue) /\ conn'[k] = conn[k]
  <2>1. conn'[k] = CASE k = tiny.k -> c
                     [] k \in Range(tinyQueue) -> Shut(k)
                     [] OTHER -> conn[k]
    BY <1>1
  <2>2. CASE k = tiny.k /\ k \in Range(tinyQueue)
    <3> DEFINE d == Shut(k)
    <3> HIDE DEF d, Shut
    <3>1. conn'[k] = c \/ conn'[k] = Shut(k)
      BY <2>1, <2>2
    <3> QED
      BY <3>1, <2>2
  <2>3. CASE k = tiny.k /\ k \notin Range(tinyQueue)
    BY <2>1, <2>3
  <2>4. CASE k # tiny.k /\ k \in Range(tinyQueue)
    <3> HIDE DEF Shut
    <3> QED
      BY <2>1, <2>4
  <2>5. CASE k # tiny.k /\ k \notin Range(tinyQueue)
    <3> HIDE DEF Shut
    <3> QED
      BY <2>1, <2>5
  <2> QED
    BY <2>2, <2>3, <2>4, <2>5
<1>8. \A k \in Range(tinyQueue) : CloseDone(conn[k], "server", Shut(k))
  BY <1>5
<1> HIDE DEF Shut
<1>9. ConnsOK'
  <2>1. \A k \in DOMAIN conn : ConnOK(conn'[k])
    BY <1>3, <1>4, <1>7, <1>8 DEF CloseDone, ConnsOK
  <2> QED
    BY <2>1, <1>3, <1>6 DEF ConnsOK
<1>10. TinyOK'
  BY <1>2, <1>3 DEF TinyOK
<1>11. \A k \in Clients : ~ ForTiny(k) => conn'[k] = conn[k]
  <2>1. ASSUME NEW k \in Clients, ~ ForTiny(k)
        PROVE  conn'[k] = conn[k]
    <3>1. k # Origin /\ k \in DOMAIN conn
      BY <1>3, OriginAssumption DEF ConnsOK
    <3>2. k # tiny.k /\ k \notin Range(tinyQueue)
      BY <1>3, <2>1, <3>1
    <3> QED
      BY <1>7, <3>1, <3>2
  <2> QED
    BY <2>1
<1>12. Breaks(Origin, "client") \/ Grown(conn[Origin].data["client"], conn'[Origin].data["client"])
  <2>1. Origin \in DOMAIN conn /\ ConnOK(conn[Origin])
    BY <1>3 DEF ConnsOK
  <2>2. OriginWaits \/ OriginServed => conn[Origin].peer["client"] = "open"
    BY DEF ServingInv, OriginHeld
  <2>3. CASE Origin = tiny.k /\ conn'[Origin] = c
    <3>1. conn[Origin].peer["client"] = "open"
      BY <2>2, <2>3 DEF OriginServed
    <3> QED
      BY <1>4, <2>3, <3>1, TwoSides DEF CloseDone, Breaks, Grown
  <2>4. CASE Origin \in Range(tinyQueue) /\ conn'[Origin] = Shut(Origin)
    <3>1. conn[Origin].peer["client"] = "open"
      BY <2>2, <2>4 DEF OriginWaits
    <3> QED
      BY <1>8, <2>1, <2>4, <3>1, TinyDrops
  <2>5. CASE conn'[Origin] = conn[Origin]
    BY <2>5 DEF Grown
  <2> QED
    BY <1>7, <2>1, <2>3, <2>4, <2>5
<1> QED
  BY <1>2, <1>9, <1>10, <1>11, <1>12 DEF TinyMoves, TinyKeeps, TinyEnds

-----------------------------------------------------------------------------
(* The steps of Tiny.                                                      *)

LEMMA TinyReads ==
    ASSUME ServingInv, T!doit_readrequest \/ T!read_requesthdrs
    PROVE  TinyMoves /\ TinyLine
<1>1. tiny.pc \in {"request line", "headers"}
  BY DEF T!doit_readrequest, T!read_requesthdrs, T!Rio_readlineb, T!At
<1>2. TinyBusy /\ Reading /\ TinyOK
  BY <1>1 DEF TinyBusy, Reading, ServingInv
<1>3. ConnOK(conn[tiny.k]) /\ LineOK(tiny.r)
  BY <1>2, TinyServesIts DEF TinyOK
<1> DEFINE Pcs == {"request line", "parse", "close", "headers", "serve", "header eof"}
           Reads(x, pc) ==
               /\ x.to.rc # "error"
               /\ conn' = [conn EXCEPT ![tiny.k] = x.c]
               /\ tiny' = [tiny EXCEPT !.r = x.to.r, !.pc = pc]
               /\ tinyQueue' = tinyQueue
<1>4. PICK x \in rio_readlineb(conn[tiny.k], "server", tiny.r) :
          \/ x.to.rc = "error" /\ T!Exit(x.c)
          \/ x.to.rc \notin {"more", "line", "eof", "error"}
          \/ \E pc \in Pcs : Reads(x, pc)
  <2>1. CASE T!doit_readrequest
    <3>1. PICK x \in rio_readlineb(conn[tiny.k], "server", tiny.r) :
              \/ x.to.rc = "error" /\ T!Exit(x.c)
              \/ Reads(x, CASE x.to.rc = "more" -> "request line"
                            [] x.to.rc = "line" -> "parse"
                            [] x.to.rc = "eof"  -> "close")
      BY <2>1, TinyCalls DEF T!doit_readrequest, T!Rio_readlineb, T!Fd
    <3> DEFINE pc == CASE x.to.rc = "more" -> "request line"
                       [] x.to.rc = "line" -> "parse"
                       [] x.to.rc = "eof"  -> "close"
    <3>2. x.to.rc \in {"more", "line", "eof"} => pc \in Pcs
      OBVIOUS
    <3>3. (x.to.rc = "error" /\ T!Exit(x.c)) \/ (Reads(x, pc) /\ x.to.rc # "error")
      BY <3>1
    <3> HIDE DEF pc, Reads, Pcs
    <3> QED
      BY <3>2, <3>3
  <2>2. CASE T!read_requesthdrs
    <3>1. PICK x \in rio_readlineb(conn[tiny.k], "server", tiny.r) :
              \/ x.to.rc = "error" /\ T!Exit(x.c)
              \/ Reads(x, CASE x.to.rc = "more" -> "headers"
                            [] x.to.rc = "line" -> IF x.to.r.buf = <<T!NL>> THEN "serve" ELSE "headers"
                            [] x.to.rc = "eof"  -> "header eof")
      BY <2>2, TinyCalls DEF T!read_requesthdrs, T!Rio_readlineb, T!Fd
    <3> DEFINE pc == CASE x.to.rc = "more" -> "headers"
                       [] x.to.rc = "line" -> IF x.to.r.buf = <<T!NL>> THEN "serve" ELSE "headers"
                       [] x.to.rc = "eof"  -> "header eof"
    <3>2. x.to.rc \in {"more", "line", "eof"} => pc \in Pcs
      OBVIOUS
    <3>3. (x.to.rc = "error" /\ T!Exit(x.c)) \/ (Reads(x, pc) /\ x.to.rc # "error")
      BY <3>1
    <3> HIDE DEF pc, Reads, Pcs
    <3> QED
      BY <3>2, <3>3
  <2> QED
    BY <2>1, <2>2
<1>5. ReadlineDone(conn[tiny.k], "server", tiny.r, x)
  BY <1>3, ReadlineStep, TwoSides
<1>6. /\ ConnOK(x.c) /\ LineOK(x.to.r) /\ x.to.rc \in {"more", "line", "eof", "error"}
      /\ x.c.data["client"] = conn[tiny.k].data["client"]
      /\ x.c.peer["client"] = conn[tiny.k].peer["client"]
      /\ x.to.rc # "error" =>
             \/ /\ Stream(x.to.r, x.c.data["server"]) = Stream(tiny.r, conn[tiny.k].data["server"])
                /\ x.to.r.buf = tiny.r.buf
             \/ Handed(Stream(tiny.r, conn[tiny.k].data["server"]),
                       conn[tiny.k].peer["server"] # "open",
                       Stream(x.to.r, x.c.data["server"]), x.to.r.buf)
  BY <1>5, TwoSides DEF ReadlineDone
<1>7. CASE x.to.rc = "error" /\ T!Exit(x.c)
  <2>1. TinyMoves /\ tiny'.pc = "down"
    BY <1>2, <1>6, <1>7, TinyExit
  <2> QED
    BY <2>1 DEF TinyLine
<1>8. CASE \E pc \in Pcs : Reads(x, pc)
  <2>1. PICK pc \in Pcs : Reads(x, pc)
    BY <1>8
  <2>2. /\ DOMAIN tiny' = TinyFields /\ tiny'.pc = pc /\ tiny'.k = tiny.k
        /\ tiny'.r = x.to.r /\ tiny'.then = tiny.then
    BY <1>2, <2>1 DEF TinyOK, TinyFields
  <2>3. TinyOK'
    BY <1>2, <1>6, <2>2 DEF TinyOK
  <2>4. Grown(conn[tiny.k].data["client"], x.c.data["client"])
    BY <1>6 DEF Grown
  <2>5. TinyMoves /\ conn'[tiny.k] = x.c
    BY <1>2, <1>6, <2>1, <2>2, <2>3, <2>4, TinyServesOne
  <2>6. x.to.rc # "error"
    BY <2>1
  <2>7. ToTiny!Next
    BY <1>6, <2>2, <2>5, <2>6, TinyNext
  <2> QED
    BY <2>5, <2>7 DEF TinyLine
<1> QED
  BY <1>4, <1>6, <1>7, <1>8

LEMMA TinyWrites ==
    ASSUME ServingInv, T!Rio_writen \/ T!adder_write
    PROVE  TinyMoves /\ TinyLine
<1>1. tiny.pc \in {"write", "wait"}
  BY DEF T!Rio_writen, T!adder_write, T!Child, T!At
<1>2. TinyBusy /\ ~ Reading /\ TinyOK /\ TinyLine
  BY <1>1 DEF TinyBusy, Reading, TinyLine, ServingInv
<1>3. ConnOK(conn[tiny.k])
  BY <1>2, TinyServesIts
<1>4. PICK x \in rio_writen(conn[tiny.k], "server", Head(tiny.out)) :
          \/ x.errno # "OK" /\ T!Exit(x.c)
          \/ /\ conn' = [conn EXCEPT ![tiny.k] = x.c] /\ tinyQueue' = tinyQueue
             /\ \E out : \/ tiny' = [tiny EXCEPT !.out = out]
                         \/ tiny' = [tiny EXCEPT !.out = out, !.pc = IF out = << >> THEN tiny.then ELSE "write"]
  <2>1. CASE T!Rio_writen
    BY <2>1, TinyCalls DEF T!Rio_writen, T!Fd
  <2>2. CASE T!adder_write
    BY <2>2, TinyCalls DEF T!adder_write, T!Fd
  <2> QED
    BY <2>1, <2>2
<1>5. WriteDone(conn[tiny.k], "server", x)
  BY <1>3, WriteStep, TwoSides
<1>6. CASE x.errno # "OK" /\ T!Exit(x.c)
  <2>1. /\ ConnOK(x.c) /\ x.c.peer["client"] = conn[tiny.k].peer["client"]
        /\ x.c.data["client"] = conn[tiny.k].data["client"]
    BY <1>5, <1>6, TwoSides DEF WriteDone
  <2>2. T!Exit(x.c)
    BY <1>6
  <2>3. TinyMoves
    BY <1>2, <2>1, <2>2, TinyExit
  <2> QED
    BY <1>2, <2>3
<1>7. CASE /\ conn' = [conn EXCEPT ![tiny.k] = x.c] /\ tinyQueue' = tinyQueue
           /\ \E out : \/ tiny' = [tiny EXCEPT !.out = out]
                       \/ tiny' = [tiny EXCEPT !.out = out, !.pc = IF out = << >> THEN tiny.then ELSE "write"]
  <2>1. /\ DOMAIN tiny' = TinyFields /\ tiny'.k = tiny.k /\ tiny'.r = tiny.r /\ tiny'.then = tiny.then
        /\ tiny'.pc \in {tiny.pc, tiny.then, "write"}
    BY <1>2, <1>7 DEF TinyOK, TinyFields
  <2>2. TinyOK' /\ ~ Reading'
    BY <1>1, <1>2, <2>1 DEF TinyOK, Reading
  <2>3. /\ ConnOK(x.c) /\ x.c.peer["client"] = conn[tiny.k].peer["client"]
        /\ Grown(conn[tiny.k].data["client"], x.c.data["client"])
    BY <1>5, TwoSides DEF WriteDone
  <2>4. TinyMoves
    BY <1>2, <1>7, <2>1, <2>2, <2>3, TinyServesOne
  <2> QED
    BY <1>2, <2>4
<1> QED
  BY <1>4, <1>6, <1>7

LEMMA TinyAccepts ==
    ASSUME ServingInv, T!Accept
    PROVE  TinyMoves /\ TinyLine
<1>1. tiny.pc = "accept" /\ tinyQueue # << >> /\ TinyOK
  BY DEF T!Accept, T!At, ServingInv
<1>2. /\ DOMAIN tiny' = TinyFields /\ tiny'.k = Head(tinyQueue) /\ tiny'.then = tiny.then
      /\ tiny'.r = [rio |-> << >>, line |-> << >>, buf |-> Junk]
      /\ tinyQueue' = Tail(tinyQueue) /\ conn' = conn
  BY <1>1 DEF T!Accept, TinyOK, TinyFields, T!rio_readinitb, T!Junk, Junk
<1>3. TinyOK' /\ ConnsOK'
  BY <1>1, <1>2, FreshReader DEF TinyOK, ServingInv, ConnsOK
<1>4. TinyKeeps
  BY <1>2, <1>3 DEF TinyKeeps, Grown
<1>5. TinyTakes
  BY <1>1, <1>2 DEF TinyTakes, TinyBusy
<1> QED
  BY <1>1, <1>4, <1>5 DEF TinyMoves, TinyLine

LEMMA TinyCloses ==
    ASSUME ServingInv, T!Close
    PROVE  TinyMoves /\ TinyLine
<1>1. tiny.pc = "close" /\ TinyOK
  BY DEF T!Close, T!At, ServingInv
<1>2. TinyBusy /\ TinyLine
  BY <1>1 DEF TinyBusy, TinyLine
<1>3. tiny.k \in Clients \cup {Origin} /\ ConnOK(conn[tiny.k]) /\ (tiny.k # Origin => ForTiny(tiny.k))
  BY <1>2, TinyServesIts
<1>4. PICK c \in CloseOutcomes(conn[tiny.k], "server") : conn' = [conn EXCEPT ![tiny.k] = c]
  BY TinyCalls DEF T!Close, T!Fd
<1>5. CloseDone(conn[tiny.k], "server", c)
  BY <1>3, CloseStep, TwoSides
<1>6. /\ DOMAIN tiny' = TinyFields /\ tiny'.pc = "accept" /\ tiny'.k = tiny.k /\ tiny'.then = "close"
      /\ tiny'.r = [rio |-> << >>, line |-> << >>, buf |-> Junk]
      /\ tinyQueue' = tinyQueue
  BY <1>1 DEF T!Close, TinyOK, TinyFields, T!rio_readinitb, T!Junk, Junk
<1>7. TinyOK' /\ ~ TinyBusy' /\ ~ Reading'
  BY <1>6, FreshReader DEF TinyOK, TinyBusy, Reading
<1>8. ConnsOK
  BY DEF ServingInv
<1>9. /\ conn'[tiny.k] = c /\ DOMAIN conn' = DOMAIN conn
      /\ \A k \in DOMAIN conn : k # tiny.k => conn'[k] = conn[k]
  BY <1>3, <1>4, <1>8 DEF ConnsOK
<1>10. ConnsOK' /\ \A k \in Clients : ~ ForTiny(k) => conn'[k] = conn[k]
  BY <1>3, <1>5, <1>8, <1>9, OriginAssumption DEF ConnsOK, CloseDone
<1>11. tiny.k # Origin => conn'[Origin] = conn[Origin]
  BY <1>8, <1>9 DEF ConnsOK
<1>12. Breaks(Origin, "client") \/ Grown(conn[Origin].data["client"], conn'[Origin].data["client"])
  <2>1. CASE tiny.k = Origin
    <3>1. conn[Origin].peer["client"] = "open"
      BY <1>2, <2>1 DEF ServingInv, OriginHeld, OriginServed
    <3> QED
      BY <1>3, <1>5, <1>9, <2>1, <3>1, TinyDrops
  <2>2. CASE tiny.k # Origin
    BY <1>11, <2>2 DEF Grown
  <2> QED
    BY <2>1, <2>2
<1>13. TinyStays
  BY <1>2, <1>6, <1>7, <1>11 DEF TinyStays
<1> QED
  BY <1>2, <1>7, <1>10, <1>12, <1>13 DEF TinyMoves, TinyKeeps

(* What Tiny does between its reads and its writes.                        *)
LEMMA ParseIs ==
    ASSUME T!doit_parserequest
    PROVE  \E method, uri, pc, out :
               tiny' = [tiny EXCEPT !.method = method, !.uri = uri, !.r.buf = Junk,
                            !.pc = pc, !.out = out, !.then = "close"]
<1>1. T!Junk = Junk
  BY DEF T!Junk, Junk
<1>2. \E method, uri : tiny' = [tiny EXCEPT !.method = method, !.uri = uri, !.r.buf = T!Junk,
                          !.pc = IF method = <<"GET">> THEN "headers" ELSE "write",
                          !.out = IF method = <<"GET">> THEN << >> ELSE T!clienterror("501 Not Implemented"),
                          !.then = "close"]
  BY Zenon DEF T!doit_parserequest
<1>3. PICK method, uri : tiny' = [tiny EXCEPT !.method = method, !.uri = uri, !.r.buf = Junk,
                          !.pc = IF method = <<"GET">> THEN "headers" ELSE "write",
                          !.out = IF method = <<"GET">> THEN << >> ELSE T!clienterror("501 Not Implemented"),
                          !.then = "close"]
  BY <1>1, <1>2, Zenon
<1> DEFINE pc == IF method = <<"GET">> THEN "headers" ELSE "write"
           out == IF method = <<"GET">> THEN << >> ELSE T!clienterror("501 Not Implemented")
<1>4. tiny' = [tiny EXCEPT !.method = method, !.uri = uri, !.r.buf = Junk,
                   !.pc = pc, !.out = out, !.then = "close"]
  BY <1>3, Zenon
<1> HIDE DEF pc, out
<1> QED
  BY <1>4, Zenon

LEMMA TinyParses ==
    ASSUME ServingInv, T!doit_parserequest
    PROVE  TinyMoves /\ TinyLine
<1>1. tiny.pc = "parse" /\ TinyOK
  BY DEF T!doit_parserequest, T!At, ServingInv
<1>2. TinyBusy /\ Reading /\ TinyLine
  BY <1>1 DEF TinyBusy, Reading, TinyLine
<1>3. PICK method, uri, pc, out :
          tiny' = [tiny EXCEPT !.method = method, !.uri = uri, !.r.buf = Junk,
                       !.pc = pc, !.out = out, !.then = "close"]
  BY ParseIs
<1>4. conn' = conn /\ tinyQueue' = tinyQueue
  BY DEF T!doit_parserequest
<1> DEFINE r1 == [tiny.r EXCEPT !.buf = Junk]
<1>5. LineOK(r1)
  BY <1>1, BufIsFree DEF TinyOK
<1>6. tiny' = [[[[[[tiny EXCEPT !.method = method] EXCEPT !.uri = uri] EXCEPT !.r = r1]
                    EXCEPT !.pc = pc] EXCEPT !.out = out] EXCEPT !.then = "close"]
  BY <1>1, <1>3 DEF TinyOK, TinyFields
<1> HIDE DEF r1
<1>7. /\ DOMAIN tiny' = TinyFields /\ tiny'.k = tiny.k /\ tiny'.r = r1 /\ tiny'.then = "close"
  BY <1>1, <1>6 DEF TinyOK, TinyFields
<1>8. TinyOK'
  BY <1>5, <1>7 DEF TinyOK
<1> QED
  BY <1>2, <1>4, <1>7, <1>8, TinyQuiet

LEMMA TinyWorks ==
    ASSUME ServingInv,
           \/ T!read_requesthdrs_eof
           \/ T!doit_serve
           \/ T!serve_static_body
           \/ T!serve_dynamic_fork
           \/ T!serve_dynamic_wait
    PROVE  TinyMoves /\ TinyLine
<1>1. tiny.pc \in {"header eof", "serve", "map", "fork", "wait"} /\ TinyOK
  BY DEF T!read_requesthdrs_eof, T!doit_serve, T!serve_static_body, T!serve_dynamic_fork,
         T!serve_dynamic_wait, T!At, ServingInv
<1>2. TinyBusy /\ ~ Reading /\ TinyLine
  BY <1>1 DEF TinyBusy, Reading, TinyLine
<1>3. CASE T!serve_static_body /\ T!Exit(T!Fd)
  <2>1. T!Fd = conn[tiny.k] /\ ConnOK(conn[tiny.k])
    BY <1>2, TinyServesIts DEF T!Fd
  <2>2. T!Exit(conn[tiny.k])
    BY <1>3, <2>1
  <2> QED
    BY <1>2, <2>1, <2>2, TinyExit
<1>4. ASSUME conn' = conn, tinyQueue' = tinyQueue, DOMAIN tiny' = TinyFields,
             tiny'.k = tiny.k, tiny'.r = tiny.r, tiny'.then \in {"close", "map", "fork"},
             tiny'.pc \in {"loop", "serve", "write", "wait", "close"}
      PROVE  TinyMoves
  <2>1. TinyOK' /\ ~ Reading'
    BY <1>1, <1>4 DEF TinyOK, Reading
  <2> QED
    BY <1>2, <1>4, <2>1, TinyQuiet
<1>5. CASE T!read_requesthdrs_eof
  <2>1. PICK pc \in {"loop", "serve"} : tiny' = [tiny EXCEPT !.pc = pc]
    BY <1>5 DEF T!read_requesthdrs_eof
  <2>2. /\ DOMAIN tiny' = TinyFields /\ tiny'.k = tiny.k /\ tiny'.r = tiny.r
        /\ tiny'.then = tiny.then /\ tiny'.pc = pc
    BY <1>1, <2>1 DEF TinyOK, TinyFields
  <2>3. conn' = conn /\ tinyQueue' = tinyQueue
    BY <1>5 DEF T!read_requesthdrs_eof
  <2> QED
    BY <1>1, <1>2, <1>4, <2>2, <2>3 DEF TinyOK
<1>6. CASE T!doit_serve
  <2> DEFINE answer == T!Answer(T!parse_uri(tiny.uri), files)
  <2>1. answer.then \in {"close", "map", "fork"}
    <3> DEFINE u == T!parse_uri(tiny.uri)
               mode == Files[u.filename].mode
               wanted == IF u.static THEN "readable" ELSE "executable"
    <3> HIDE DEF u
    <3>1. CASE u.filename \notin files
      BY <3>1 DEF T!Answer, u
    <3>2. CASE u.filename \in files /\ mode # wanted
      <4>1. answer = [out |-> T!clienterror("403 Forbidden"), then |-> "close"]
        BY <3>2 DEF T!Answer, u
      <4> DEFINE page == T!clienterror("403 Forbidden")
      <4> HIDE DEF page, answer
      <4>2. answer = [out |-> page, then |-> "close"]
        BY <4>1 DEF page
      <4> QED
        BY <4>2
    <3>3. CASE u.filename \in files /\ mode = wanted /\ u.static
      <4>1. answer = [out |-> T!serve_static_headers(u.filename), then |-> "map"]
        BY <3>3 DEF T!Answer, u
      <4> QED
        BY <4>1
    <3>4. CASE u.filename \in files /\ mode = wanted /\ ~ u.static
      <4>1. answer = [out |-> T!serve_dynamic_headers, then |-> "fork"]
        BY <3>4 DEF T!Answer, u
      <4> QED
        BY <4>1
    <3> DEFINE static == u.static
    <3> HIDE DEF mode, wanted, answer, static
    <3> QED
      BY <3>1, <3>2, <3>3, <3>4, Zenon DEF static
  <2>2. PICK uri, filename, cgiargs :
            tiny' = [tiny EXCEPT !.pc = "write", !.out = answer.out, !.then = answer.then,
                         !.uri = uri, !.filename = filename, !.cgiargs = cgiargs]
    BY <1>6, Zenon DEF T!doit_serve
  <2> DEFINE out == answer.out
             then == answer.then
  <2> HIDE DEF out, then
  <2>3. tiny' = [tiny EXCEPT !.pc = "write", !.out = out, !.then = then,
                     !.uri = uri, !.filename = filename, !.cgiargs = cgiargs]
    BY <2>2 DEF out, then
  <2>4. /\ DOMAIN tiny' = TinyFields /\ tiny'.k = tiny.k /\ tiny'.r = tiny.r
        /\ tiny'.then = then /\ tiny'.pc = "write"
    BY <1>1, <2>3 DEF TinyOK, TinyFields
  <2>5. conn' = conn /\ tinyQueue' = tinyQueue
    BY <1>6 DEF T!doit_serve
  <2> QED
    BY <1>2, <1>4, <2>1, <2>4, <2>5 DEF then
<1>7. CASE T!serve_static_body /\ ~ T!Exit(T!Fd)
  <2>1. PICK out : tiny' = [tiny EXCEPT !.pc = "write", !.then = "close", !.out = out]
    BY <1>7, Zenon DEF T!serve_static_body
  <2>2. conn' = conn /\ tinyQueue' = tinyQueue
    BY <1>7, Zenon DEF T!serve_static_body
  <2>3. /\ DOMAIN tiny' = TinyFields /\ tiny'.k = tiny.k /\ tiny'.r = tiny.r
        /\ tiny'.then = "close" /\ tiny'.pc = "write"
    BY <1>1, <2>1 DEF TinyOK, TinyFields
  <2> QED
    BY <1>2, <1>4, <2>2, <2>3
<1>8. CASE T!serve_dynamic_fork \/ T!serve_dynamic_wait
  <2>1. PICK pc \in {"wait", "close"} : \E out : tiny' = [tiny EXCEPT !.pc = pc, !.out = out]
    BY <1>8, Zenon DEF T!serve_dynamic_fork, T!serve_dynamic_wait
  <2>2. conn' = conn /\ tinyQueue' = tinyQueue
    BY <1>8 DEF T!serve_dynamic_fork, T!serve_dynamic_wait
  <2>3. /\ DOMAIN tiny' = TinyFields /\ tiny'.k = tiny.k /\ tiny'.r = tiny.r
        /\ tiny'.then = tiny.then /\ tiny'.pc = pc
    BY <1>1, <2>1 DEF TinyOK, TinyFields
  <2> QED
    BY <1>1, <1>2, <1>4, <2>2, <2>3 DEF TinyOK
<1> QED
  BY <1>3, <1>5, <1>6, <1>7, <1>8

LEMMA TinySteps ==
    ASSUME ServingInv, T!main \/ T!adder_write
    PROVE  TinyMoves /\ TinyLine
<1>1. CASE T!Accept
  BY <1>1, TinyAccepts
<1>2. CASE T!doit_readrequest \/ T!read_requesthdrs
  BY <1>2, TinyReads
<1>3. CASE T!doit_parserequest
  BY <1>3, TinyParses
<1>4. CASE T!Rio_writen \/ T!adder_write
  BY <1>4, TinyWrites
<1>5. CASE \/ T!read_requesthdrs_eof
           \/ T!doit_serve
           \/ T!serve_static_body
           \/ T!serve_dynamic_fork
           \/ T!serve_dynamic_wait
  BY <1>5, TinyWorks
<1>6. CASE T!Close
  BY <1>6, TinyCloses
<1> QED
  BY <1>1, <1>2, <1>3, <1>4, <1>5, <1>6 DEF T!main, T!doit

-----------------------------------------------------------------------------
(* The invariant is inductive.                                             *)

LEMMA AppendIsSeq ==
    ASSUME NEW w, NEW e, IsSeq(w)
    PROVE  /\ IsSeq(Append(w, e)) /\ Range(Append(w, e)) = Range(w) \cup {e}
           /\ \A i \in DOMAIN Append(w, e) :
                  \/ i \in DOMAIN w /\ Append(w, e)[i] = w[i]
                  \/ i = Len(w) + 1 /\ Append(w, e)[i] = e
<1>1. PICK S : w \in Seq(S)
  BY DEF IsSeq
<1>2. w \in Seq(S \cup {e})
  BY <1>1, SeqMonotonic
<1>3. Len(w) \in Nat /\ DOMAIN w = 1 .. Len(w)
  BY <1>1, LenProperties
<1> DEFINE w1 == Append(w, e)
<1>4. /\ w1 \in Seq(S \cup {e}) /\ Len(w1) = Len(w) + 1
      /\ \A i \in 1 .. Len(w) : w1[i] = w[i]
      /\ w1[Len(w) + 1] = e
  BY <1>2, AppendProperties
<1>5. DOMAIN w1 = 1 .. Len(w) + 1
  BY <1>4, LenProperties
<1> HIDE DEF w1
<1>6. \A i \in DOMAIN w1 : \/ i \in DOMAIN w /\ w1[i] = w[i]
                           \/ i = Len(w) + 1 /\ w1[i] = e
  BY <1>3, <1>4, <1>5
<1>7. Range(w1) = Range(w) \cup {e}
  <2>1. DOMAIN w \subseteq DOMAIN w1 /\ Len(w) + 1 \in DOMAIN w1
    BY <1>3, <1>5
  <2>2. \A i \in DOMAIN w : w1[i] = w[i]
    BY <1>3, <1>4
  <2> QED
    BY <2>1, <2>2, <1>4, <1>6 DEF Range
<1>8. IsSeq(w1)
  BY <1>4 DEF IsSeq
<1> QED
  BY <1>6, <1>7, <1>8 DEF w1

LEMMA StartsRight ==
    ASSUME Init
    PROVE  ServingInv
<1>1. IsSeq(<< >>) /\ Range(<< >>) = {} /\ DOMAIN << >> = {}
  BY EmptySeq DEF IsSeq, Range
<1>2. /\ conn = [k \in Clients \cup {Origin} |-> Connected]
      /\ plan \in [Clients -> Plans] /\ state = [c \in Clients |-> "new"]
  BY ScenariosAssumption DEF Init
<1>3. proxyQueue = << >> /\ proxy.pc = "accept" /\ DOMAIN proxy = ProxyFields
      /\ proxy.r = [rio |-> << >>, line |-> << >>, buf |-> Junk]
      /\ proxy.o = [rio |-> << >>, line |-> << >>, buf |-> Junk]
  BY DEF Init, P!Init, P!rio_readinitb, P!Junk, Junk, ProxyFields
<1>4. tinyQueue = << >> /\ tiny.pc = "accept" /\ DOMAIN tiny = TinyFields /\ tiny.then = "close"
      /\ tiny.r = [rio |-> << >>, line |-> << >>, buf |-> Junk]
  BY DEF Init, T!Init, T!rio_readinitb, T!Junk, Junk, TinyFields
<1>5. ConnsOK
  BY <1>2, ConnectedOK DEF ConnsOK
<1>6. ProxyOK /\ TinyOK /\ ClientsOK
  BY <1>2, <1>3, <1>4, FreshReader DEF ProxyOK, TinyOK, ClientsOK
<1>7. ~ ProxyBusy /\ ~ TinyBusy /\ ~ OriginWaits /\ ~ OriginServed
  BY <1>1, <1>3, <1>4 DEF ProxyBusy, TinyBusy, OriginWaits, OriginServed
<1>8. ProxyServes /\ TinyServes
  BY <1>1, <1>3, <1>4, <1>7 DEF ProxyServes, TinyServes
<1>9. OriginOnce /\ OriginHeld /\ NotAnswered
  BY <1>1, <1>4, <1>7 DEF OriginOnce, OriginHeld, NotAnswered
<1> QED
  BY <1>5, <1>6, <1>8, <1>9 DEF ServingInv

LEMMA ProxyStaysRight ==
    ASSUME ServingInv, ProxyMoves, UNCHANGED <<tiny, plan, state>>
    PROVE  ServingInv'
<1>1. /\ ConnsOK' /\ ProxyOK' /\ ProxyKeeps
      /\ IsSeq(proxyQueue') /\ Range(proxyQueue') \subseteq Range(proxyQueue)
      /\ ProxyBusy' => (ProxyBusy /\ proxy'.k = proxy.k) \/ proxy'.k \in Range(proxyQueue)
  BY DEF ProxyMoves, ProxyKeeps
<1>2. /\ ProxyServes /\ TinyServes /\ OriginOnce /\ OriginHeld /\ NotAnswered
      /\ TinyOK /\ ClientsOK
  BY DEF ServingInv
<1>3. TinyOK' /\ ClientsOK'
  BY <1>2 DEF TinyOK, ClientsOK
<1>4. (\A c : ForProxy(c)' <=> ForProxy(c)) /\ (\A c : ForTiny(c)' <=> ForTiny(c))
  BY DEF ForProxy, ForTiny
<1>5. ProxyServes'
  BY <1>1, <1>2, <1>4 DEF ProxyServes
<1>6. TinyBusy' = TinyBusy /\ OriginServed' = OriginServed /\ Reading' = Reading
  BY DEF TinyBusy, OriginServed, Reading
<1>7. CASE OriginAsked
  <2>1. ~ OriginWaits /\ ~ OriginServed
    BY <1>2, <1>7 DEF OriginHeld, OriginAsked
  <2>2. /\ IsSeq(tinyQueue') /\ Range(tinyQueue') = Range(tinyQueue) \cup {Origin}
        /\ \A i \in DOMAIN tinyQueue' :
               \/ i \in DOMAIN tinyQueue /\ tinyQueue'[i] = tinyQueue[i]
               \/ i = Len(tinyQueue) + 1 /\ tinyQueue'[i] = Origin
    BY <1>2, <1>7, AppendIsSeq DEF OriginAsked, TinyServes
  <2>3. \A i \in DOMAIN tinyQueue : tinyQueue[i] # Origin
    BY <2>1 DEF OriginWaits, Range
  <2>4. TinyServes'
    BY <1>2, <1>4, <1>6, <2>2 DEF TinyServes
  <2>5. OriginOnce'
    BY <1>6, <2>1, <2>2, <2>3 DEF OriginOnce
  <2>6. conn'[Origin] = Connected /\ Holding'
    BY <1>7 DEF OriginAsked, Holding
  <2>7. OriginHeld' /\ NotAnswered'
    BY <2>6 DEF OriginHeld, NotAnswered, Connected, Sides
  <2> QED
    BY <1>1, <1>3, <1>5, <2>4, <2>5, <2>7 DEF ServingInv
<1>8. CASE OriginKept
  <2>1. tinyQueue' = tinyQueue /\ OriginWaits' = OriginWaits
    BY <1>8 DEF OriginKept, OriginWaits
  <2>2. TinyServes' /\ OriginOnce'
    BY <1>2, <1>4, <1>6, <2>1 DEF TinyServes, OriginOnce
  <2>3. OriginHeld'
    BY <1>2, <1>6, <1>8, <2>1 DEF OriginHeld, OriginKept
  <2>4. NotAnswered'
    BY <1>2, <1>6, <1>8, <2>1 DEF NotAnswered, OriginKept
  <2> QED
    BY <1>1, <1>3, <1>5, <2>2, <2>3, <2>4 DEF ServingInv
<1> QED
  BY <1>7, <1>8 DEF ProxyMoves

LEMMA TinyStaysRight ==
    ASSUME ServingInv, TinyMoves, UNCHANGED <<proxyQueue, proxy, plan, state>>
    PROVE  ServingInv'
<1>1. ConnsOK' /\ TinyOK'
  BY DEF TinyMoves, TinyKeeps
<1>2. /\ ProxyServes /\ TinyServes /\ OriginOnce /\ OriginHeld /\ NotAnswered
      /\ ProxyOK /\ ClientsOK
  BY DEF ServingInv
<1>3. ProxyOK' /\ ClientsOK'
  BY <1>2 DEF ProxyOK, ClientsOK
<1>4. (\A c : ForProxy(c)' <=> ForProxy(c)) /\ (\A c : ForTiny(c)' <=> ForTiny(c))
  BY DEF ForProxy, ForTiny
<1>5. ProxyServes' /\ Holding' = Holding
  BY <1>2, <1>4 DEF ProxyServes, ProxyBusy, Holding
<1>6. CASE TinyEnds
  <2>1. IsSeq(<< >>) /\ Range(<< >>) = {} /\ DOMAIN << >> = {}
    BY EmptySeq DEF IsSeq, Range
  <2>2. tinyQueue' = << >> /\ ~ TinyBusy' /\ ~ OriginWaits' /\ ~ OriginServed'
    BY <1>6, <2>1 DEF TinyEnds, TinyBusy, OriginWaits, OriginServed
  <2>3. TinyServes' /\ OriginOnce' /\ OriginHeld' /\ NotAnswered'
    BY <2>1, <2>2 DEF TinyServes, OriginOnce, OriginHeld, NotAnswered
  <2> QED
    BY <1>1, <1>3, <1>5, <2>3 DEF ServingInv
<1>7. CASE TinyTakes
  <2>1. /\ tinyQueue # << >> /\ tinyQueue' = Tail(tinyQueue) /\ tiny'.k = Head(tinyQueue)
        /\ ~ TinyBusy /\ conn' = conn
    BY <1>7 DEF TinyTakes
  <2>2. /\ IsSeq(tinyQueue') /\ Range(tinyQueue') \subseteq Range(tinyQueue)
        /\ tiny'.k \in Range(tinyQueue)
        /\ \A i \in DOMAIN tinyQueue' : i + 1 \in DOMAIN tinyQueue /\ tinyQueue'[i] = tinyQueue[i + 1]
        /\ tiny'.k = tinyQueue[1] /\ 1 \in DOMAIN tinyQueue
    BY <1>2, <2>1, TailIsSeq DEF TinyServes
  <2>3. TinyServes'
    BY <1>2, <1>4, <2>2 DEF TinyServes
  <2>4. \A i \in DOMAIN tinyQueue' : i \in Nat \ {0}
    <3>1. DOMAIN tinyQueue' = 1 .. Len(tinyQueue')
      BY <2>2, LenProperties DEF IsSeq
    <3> QED
      BY <3>1
  <2>5. OriginWaits' => OriginWaits
    BY <2>2 DEF OriginWaits
  <2>6. OriginServed' => OriginWaits /\ ~ OriginWaits'
    <3>1. ASSUME tiny'.k = Origin
          PROVE  Origin \notin Range(tinyQueue')
      <4>1. ASSUME NEW i \in DOMAIN tinyQueue'
            PROVE  tinyQueue'[i] # Origin
        <5>1. i + 1 # 1
          BY <2>4
        <5> QED
          BY <3>1, <5>1, <1>2, <2>2 DEF OriginOnce
      <4> QED
        BY <4>1 DEF Range
    <3> QED
      BY <2>2, <3>1 DEF OriginServed, OriginWaits
  <2>7. OriginOnce'
    <3>1. ASSUME NEW i \in DOMAIN tinyQueue', NEW j \in DOMAIN tinyQueue',
                 tinyQueue'[i] = Origin, tinyQueue'[j] = Origin
          PROVE  i = j
      <4>1. i + 1 = j + 1
        BY <3>1, <1>2, <2>2 DEF OriginOnce
      <4> QED
        BY <4>1, <2>4
    <3> QED
      BY <3>1, <2>6 DEF OriginOnce
  <2>8. OriginHeld' /\ NotAnswered'
    BY <1>2, <1>5, <2>1, <2>5, <2>6 DEF OriginHeld, NotAnswered
  <2> QED
    BY <1>1, <1>3, <1>5, <2>3, <2>7, <2>8 DEF ServingInv
<1>8. CASE TinyStays
  <2>1. /\ tinyQueue' = tinyQueue /\ TinyBusy /\ tiny'.k = tiny.k
        /\ Reading' => Reading
        /\ tiny.k # Origin => conn'[Origin] = conn[Origin]
        /\ TinyBusy' =>
               /\ conn'[Origin].peer["client"] = conn[Origin].peer["client"]
               /\ Reading' => conn'[Origin].data["client"] = conn[Origin].data["client"]
    BY <1>8 DEF TinyStays
  <2>2. OriginWaits' = OriginWaits /\ (OriginServed' <=> TinyBusy' /\ tiny.k = Origin)
    BY <2>1 DEF OriginWaits, OriginServed
  <2>3. TinyServes'
    BY <1>2, <1>4, <2>1 DEF TinyServes
  <2>4. OriginServed' => OriginServed
    BY <2>1, <2>2 DEF OriginServed
  <2>5. OriginOnce'
    BY <1>2, <2>1, <2>2, <2>4 DEF OriginOnce
  <2>6. OriginWaits' => conn'[Origin] = conn[Origin]
    BY <1>2, <2>1, <2>2 DEF OriginOnce, OriginServed
  <2>7. OriginHeld'
    BY <1>2, <1>5, <2>1, <2>2, <2>4, <2>6 DEF OriginHeld
  <2>8. NotAnswered'
    BY <1>2, <2>1, <2>2, <2>4, <2>6 DEF NotAnswered
  <2> QED
    BY <1>1, <1>3, <1>5, <2>3, <2>5, <2>7, <2>8 DEF ServingInv
<1> QED
  BY <1>6, <1>7, <1>8 DEF TinyMoves

LEMMA ConnectIs ==
    ASSUME NEW c \in Clients, ServingInv, Connect(c)
    PROVE  /\ ServingInv' /\ UNCHANGED <<proxy, tiny>>
           /\ \A k \in DOMAIN conn : k # c => conn'[k] = conn[k]
           /\ c # Origin /\ (ProxyBusy => c # proxy.k) /\ (TinyBusy => c # tiny.k)
<1>1. /\ ConnsOK /\ ProxyOK /\ TinyOK /\ ClientsOK /\ ProxyServes /\ TinyServes
      /\ OriginOnce /\ OriginHeld /\ NotAnswered
  BY DEF ServingInv
<1>2. /\ state[c] = "new" /\ c # Origin
      /\ UNCHANGED <<proxy, tiny, plan>>
  BY OriginAssumption DEF Connect
<1>3. (ProxyBusy => c # proxy.k) /\ (TinyBusy => c # tiny.k)
  BY <1>1, <1>2 DEF ProxyServes, TinyServes, ForProxy, ForTiny
<1>4. /\ ProxyOK' /\ TinyOK'
      /\ ProxyBusy' = ProxyBusy /\ TinyBusy' = TinyBusy /\ Holding' = Holding /\ Reading' = Reading
      /\ OriginServed' = OriginServed
  BY <1>1, <1>2 DEF ProxyOK, TinyOK, ProxyBusy, TinyBusy, Holding, Reading, OriginServed
<1>5. plan[c].to \in {"proxy", "tiny"} /\ IsSeq(plan[c].words) /\ plan[c].takes \in Nat
  BY <1>1 DEF ClientsOK, Plans, Lines, IsSeq
<1>6. PICK s \in {"connected", "refused"} : state' = [state EXCEPT ![c] = s]
  BY DEF Connect
<1>7. /\ ClientsOK'
      /\ \A k : ForProxy(k) => ForProxy(k)'
      /\ \A k : ForTiny(k) => ForTiny(k)'
      /\ plan[c].to = "proxy" => ForProxy(c)'
      /\ plan[c].to = "tiny" => ForTiny(c)'
  BY <1>1, <1>2, <1>6 DEF ClientsOK, ForProxy, ForTiny
<1>8. CASE Up(plan[c].to)
  <2>1. /\ conn' = [conn EXCEPT ![c] = [Connected EXCEPT !.data["server"] = plan[c].words, !.room = plan[c].takes]]
        /\ proxyQueue' = IF plan[c].to = "proxy" THEN Append(proxyQueue, c) ELSE proxyQueue
        /\ tinyQueue' = IF plan[c].to = "tiny" THEN Append(tinyQueue, c) ELSE tinyQueue
    BY <1>8, Zenon DEF Connect
  <2>2. ConnOK([Connected EXCEPT !.data["server"] = plan[c].words, !.room = plan[c].takes])
    <3> DEFINE new == [Connected EXCEPT !.data["server"] = plan[c].words, !.room = plan[c].takes]
    <3>1. /\ DOMAIN new = {"data", "peer", "lost", "room"} /\ DOMAIN new.data = Sides
          /\ new.room = plan[c].takes
          /\ new.data["server"] = plan[c].words /\ new.data["client"] = << >>
          /\ new.peer = Connected.peer /\ new.lost = Connected.lost
      BY DEF Connected, Sides
    <3>2. Connected.peer \in [Sides -> PeerStates] /\ Connected.lost \in [Sides -> BOOLEAN]
      BY ConnectedOK DEF ConnOK
    <3>3. IsSeq(<< >>)
      BY EmptySeq DEF IsSeq
    <3> HIDE DEF new
    <3>4. ConnOK(new)
      BY <1>5, <3>1, <3>2, <3>3 DEF ConnOK, Sides
    <3> QED
      BY <3>4 DEF new
  <2>3. ConnsOK' /\ \A k \in DOMAIN conn : k # c => conn'[k] = conn[k]
    BY <1>1, <2>1, <2>2 DEF ConnsOK
  <2>4. conn'[Origin] = conn[Origin]
    BY <1>1, <1>2, <2>3 DEF ConnsOK
  <2>5. /\ IsSeq(proxyQueue') /\ \A k \in Range(proxyQueue') : k \in Range(proxyQueue) \/ ForProxy(k)'
    <3>1. CASE plan[c].to = "proxy"
      <4>1. /\ proxyQueue' = Append(proxyQueue, c) /\ IsSeq(proxyQueue')
            /\ Range(proxyQueue') = Range(proxyQueue) \cup {c}
        BY <1>1, <2>1, <3>1, AppendIsSeq DEF ProxyServes
      <4> QED
        BY <4>1, <1>7, <3>1
    <3>2. CASE plan[c].to # "proxy"
      BY <1>1, <2>1, <3>2 DEF ProxyServes
    <3> QED
      BY <3>1, <3>2
  <2>6. ProxyServes'
    BY <1>1, <1>2, <1>4, <1>7, <2>5 DEF ProxyServes
  <2>7. /\ IsSeq(tinyQueue') /\ \A k \in Range(tinyQueue') : k \in Range(tinyQueue) \/ ForTiny(k)'
        /\ OriginWaits' => OriginWaits
        /\ \A i \in DOMAIN tinyQueue' :
               tinyQueue'[i] = Origin => i \in DOMAIN tinyQueue /\ tinyQueue[i] = Origin
    <3>1. CASE plan[c].to = "tiny"
      <4>1. /\ tinyQueue' = Append(tinyQueue, c) /\ IsSeq(tinyQueue')
            /\ Range(tinyQueue') = Range(tinyQueue) \cup {c}
            /\ \A i \in DOMAIN tinyQueue' :
                   \/ i \in DOMAIN tinyQueue /\ tinyQueue'[i] = tinyQueue[i]
                   \/ i = Len(tinyQueue) + 1 /\ tinyQueue'[i] = c
        BY <1>1, <2>1, <3>1, AppendIsSeq DEF TinyServes
      <4> QED
        BY <4>1, <1>2, <1>7, <3>1 DEF OriginWaits
    <3>2. CASE plan[c].to # "tiny"
      BY <1>1, <2>1, <3>2 DEF TinyServes, OriginWaits
    <3> QED
      BY <3>1, <3>2
  <2>8. TinyServes'
    BY <1>1, <1>2, <1>4, <1>7, <2>7 DEF TinyServes
  <2>9. OriginOnce'
    BY <1>1, <1>4, <2>7 DEF OriginOnce
  <2>10. OriginHeld' /\ NotAnswered'
    BY <1>1, <1>4, <2>4, <2>7 DEF OriginHeld, NotAnswered
  <2> QED
    BY <1>2, <1>3, <1>4, <1>7, <2>3, <2>6, <2>8, <2>9, <2>10 DEF ServingInv
<1>9. CASE ~ Up(plan[c].to)
  <2>1. UNCHANGED <<conn, proxyQueue, tinyQueue>>
    BY <1>9, Zenon DEF Connect
  <2>2. ConnsOK' /\ OriginWaits' = OriginWaits
    BY <1>1, <2>1 DEF ConnsOK, OriginWaits
  <2>3. ProxyServes' /\ TinyServes'
    BY <1>1, <1>2, <1>4, <1>7, <2>1 DEF ProxyServes, TinyServes
  <2>4. OriginOnce' /\ OriginHeld' /\ NotAnswered'
    BY <1>1, <1>4, <2>1, <2>2 DEF OriginOnce, OriginHeld, NotAnswered
  <2> QED
    BY <1>2, <1>3, <1>4, <1>7, <2>1, <2>2, <2>3, <2>4 DEF ServingInv
<1> QED
  BY <1>8, <1>9

LEMMA LeaveIs ==
    ASSUME NEW c \in Clients, ServingInv, Leave(c)
    PROVE  /\ ServingInv' /\ UNCHANGED <<proxy, tiny>>
           /\ \A k \in DOMAIN conn : conn'[k].data = conn[k].data
<1>1. /\ ConnsOK /\ ProxyOK /\ TinyOK /\ ClientsOK /\ ProxyServes /\ TinyServes
      /\ OriginOnce /\ OriginHeld /\ NotAnswered
  BY DEF ServingInv
<1>2. /\ c # Origin /\ state' = [state EXCEPT ![c] = "left"]
      /\ UNCHANGED <<proxyQueue, tinyQueue, proxy, tiny, plan>>
  BY OriginAssumption DEF Leave
<1>3. PICK how \in plan[c].leaves : conn' = [conn EXCEPT ![c].peer["server"] = how]
  BY Zenon DEF Leave
<1>4. how \in PeerStates
  <2>1. plan[c].leaves \in SUBSET {"closed", "reset"}
    BY <1>1 DEF ClientsOK, Plans
  <2> QED
    BY <2>1 DEF PeerStates
<1> DEFINE c1 == [conn[c] EXCEPT !.peer["server"] = how]
<1>5. c \in DOMAIN conn /\ ConnOK(conn[c])
  BY <1>1 DEF ConnsOK
<1>6. conn' = [conn EXCEPT ![c] = c1]
  BY <1>3
<1>7. ConnOK(c1) /\ c1.data = conn[c].data
  <2> DEFINE p == [conn[c].peer EXCEPT !["server"] = how]
  <2>1. p \in [Sides -> PeerStates]
    BY <1>4, <1>5 DEF ConnOK
  <2>2. c1 = [conn[c] EXCEPT !.peer = p]
    OBVIOUS
  <2> HIDE DEF p, c1
  <2>3. DOMAIN c1 = DOMAIN conn[c] /\ c1.peer = p /\ c1.data = conn[c].data /\ c1.lost = conn[c].lost
        /\ c1.room = conn[c].room
    BY <1>5, <2>2 DEF ConnOK
  <2> QED
    BY <1>5, <2>1, <2>3 DEF ConnOK
<1> HIDE DEF c1
<1>8. /\ DOMAIN conn' = DOMAIN conn /\ conn'[c] = c1
      /\ \A k \in DOMAIN conn : k # c => conn'[k] = conn[k]
  BY <1>5, <1>6
<1>9. ConnsOK' /\ conn'[Origin] = conn[Origin]
  BY <1>1, <1>2, <1>7, <1>8 DEF ConnsOK
<1>10. \A k \in DOMAIN conn : conn'[k].data = conn[k].data
  BY <1>7, <1>8
<1>11. /\ ProxyOK' /\ TinyOK' /\ ClientsOK'
       /\ ProxyBusy' = ProxyBusy /\ TinyBusy' = TinyBusy /\ Holding' = Holding /\ Reading' = Reading
       /\ OriginServed' = OriginServed /\ OriginWaits' = OriginWaits
  BY <1>1, <1>2 DEF ProxyOK, TinyOK, ClientsOK, ProxyBusy, TinyBusy, Holding, Reading,
                    OriginServed, OriginWaits
<1>12. (\A k : ForProxy(k) => ForProxy(k)') /\ (\A k : ForTiny(k) => ForTiny(k)')
  BY <1>1, <1>2 DEF ForProxy, ForTiny, ClientsOK
<1>13. ProxyServes' /\ TinyServes'
  BY <1>1, <1>2, <1>11, <1>12 DEF ProxyServes, TinyServes
<1>14. OriginOnce' /\ OriginHeld' /\ NotAnswered'
  BY <1>1, <1>2, <1>9, <1>11 DEF OriginOnce, OriginHeld, NotAnswered
<1> QED
  BY <1>2, <1>9, <1>10, <1>11, <1>13, <1>14 DEF ServingInv

(* Nothing happens to the streams.                                         *)
LEMMA StreamsStay ==
    ASSUME UNCHANGED <<proxy, tiny>>,
           ProxyBusy => conn'[proxy.k].data = conn[proxy.k].data,
           TinyBusy => conn'[tiny.k].data = conn[tiny.k].data,
           conn'[Origin].data = conn[Origin].data
    PROVE  ClientLine /\ OriginLine /\ TinyLine
<1>1. ASSUME proxy.pc \in {"request line", "next", "header"}
      PROVE  FromClient!Next
  <2>1. ProxyBusy
    BY <1>1 DEF ProxyBusy
  <2> QED
    BY <2>1, ClientArrive DEF Grown
<1>2. FromOrigin!Next
  BY OriginArrive DEF Grown
<1>3. ASSUME tiny.pc \in {"request line", "headers"}
      PROVE  ToTiny!Next
  <2>1. TinyBusy
    BY <1>3 DEF TinyBusy
  <2> QED
    BY <2>1, TinyArrive DEF Grown
<1> QED
  BY <1>1, <1>2, <1>3 DEF ClientLine, OriginLine, TinyLine

LEMMA NextKeeps ==
    ASSUME ServingInv, [Next]_vars
    PROVE  ServingInv' /\ ClientLine /\ OriginLine /\ TinyLine
<1>1. ConnsOK /\ ProxyServes /\ TinyServes
  BY DEF ServingInv
<1>2. Origin \in DOMAIN conn /\ (ProxyBusy => proxy.k \in DOMAIN conn) /\ (TinyBusy => tiny.k \in DOMAIN conn)
  BY <1>1 DEF ConnsOK, ProxyServes, TinyServes, ForProxy, ForTiny
<1>3. ASSUME NEW c \in Clients, Connect(c)
      PROVE  ServingInv' /\ ClientLine /\ OriginLine /\ TinyLine
  <2>1. /\ ServingInv' /\ UNCHANGED <<proxy, tiny>>
        /\ \A k \in DOMAIN conn : k # c => conn'[k] = conn[k]
        /\ c # Origin /\ (ProxyBusy => c # proxy.k) /\ (TinyBusy => c # tiny.k)
    BY <1>3, ConnectIs
  <2>2. /\ ProxyBusy => conn'[proxy.k] = conn[proxy.k]
        /\ TinyBusy => conn'[tiny.k] = conn[tiny.k]
        /\ conn'[Origin] = conn[Origin]
    BY <1>2, <2>1
  <2> QED
    BY <2>1, <2>2, StreamsStay
<1>4. ASSUME NEW c \in Clients, Leave(c)
      PROVE  ServingInv' /\ ClientLine /\ OriginLine /\ TinyLine
  <2>1. /\ ServingInv' /\ UNCHANGED <<proxy, tiny>>
        /\ \A k \in DOMAIN conn : conn'[k].data = conn[k].data
    BY <1>4, LeaveIs
  <2> QED
    BY <1>2, <2>1, StreamsStay
<1>5. CASE ProxyStep
  <2>1. P!main /\ UNCHANGED <<tiny, plan, state>>
    BY <1>5 DEF ProxyStep
  <2>2. ProxyMoves /\ ClientLine /\ OriginLine
    BY <2>1, ProxySteps
  <2>3. ServingInv'
    BY <2>1, <2>2, ProxyStaysRight
  <2>4. ASSUME tiny.pc \in {"request line", "headers"}
        PROVE  ToTiny!Next
    <3>1. TinyBusy /\ Reading
      BY <2>4 DEF TinyBusy, Reading
    <3>2. Grown(conn[tiny.k].data["server"], conn'[tiny.k].data["server"])
      <4>1. CASE tiny.k = Origin
        <5>1. OriginServed
          BY <3>1, <4>1 DEF OriginServed
        <5>2. /\ conn[Origin].peer["client"] = "open" /\ Holding
              /\ conn[Origin].data["client"] = << >>
          BY <3>1, <5>1 DEF ServingInv, OriginHeld, NotAnswered
        <5>3. OriginKept
          BY <2>2, <5>2 DEF ProxyMoves, OriginAsked
        <5> QED
          BY <4>1, <5>2, <5>3 DEF OriginKept
      <4>2. CASE tiny.k # Origin
        <5>1. ForTiny(tiny.k) /\ tiny.k \in Clients
          BY <1>1, <3>1, <4>2 DEF TinyServes, ForTiny
        <5>2. ~ ForProxy(tiny.k)
          BY <5>1 DEF ForTiny, ForProxy
        <5>3. conn'[tiny.k] = conn[tiny.k]
          BY <2>2, <5>1, <5>2 DEF ProxyMoves, ProxyKeeps
        <5> QED
          BY <5>3 DEF Grown
      <4> QED
        BY <4>1, <4>2
    <3>3. ConnOK(conn[tiny.k]) /\ ConnOK(conn'[tiny.k]) /\ LineOK(tiny.r)
      BY <1>1, <1>2, <2>3, <3>1 DEF ServingInv, ConnsOK, TinyOK
    <3>4. IsSeq(conn[tiny.k].data["server"]) /\ IsSeq(conn'[tiny.k].data["server"])
      BY <3>3, TwoSides DEF ConnOK
    <3>5. Grown(Stream(tiny.r, conn[tiny.k].data["server"]), Stream(tiny.r, conn'[tiny.k].data["server"]))
      BY <3>2, <3>3, <3>4, StreamGrows
    <3> QED
      BY <2>1, <3>5, TinyArrive
  <2> QED
    BY <2>2, <2>3, <2>4 DEF TinyLine
<1>6. CASE TinyStep \/ ChildStep
  <2>1. (T!main \/ T!adder_write) /\ UNCHANGED <<proxyQueue, proxy, plan, state>>
    BY <1>6 DEF TinyStep, ChildStep
  <2>2. TinyMoves /\ TinyLine
    BY <2>1, TinySteps
  <2>3. ServingInv'
    BY <2>1, <2>2, TinyStaysRight
  <2>4. ASSUME proxy.pc \in {"request line", "next", "header"}
        PROVE  FromClient!Next
    <3>1. ForProxy(proxy.k) /\ proxy.k \in Clients
      BY <1>1, <2>4 DEF ProxyServes, ProxyBusy, ForProxy
    <3>2. ~ ForTiny(proxy.k)
      BY <3>1 DEF ForTiny, ForProxy
    <3>3. conn'[proxy.k] = conn[proxy.k]
      BY <2>2, <3>1, <3>2 DEF TinyMoves, TinyKeeps
    <3> QED
      BY <2>1, <3>3, ClientArrive DEF Grown
  <2>5. ASSUME ~ Breaks(Origin, "client")
        PROVE  FromOrigin!Next
    <3>1. Grown(conn[Origin].data["client"], conn'[Origin].data["client"])
      BY <2>2, <2>5 DEF TinyMoves, TinyKeeps
    <3>2. ConnOK(conn[Origin]) /\ ConnOK(conn'[Origin]) /\ LineOK(proxy.o)
      BY <1>1, <2>3 DEF ServingInv, ConnsOK, ProxyOK
    <3>3. IsSeq(conn[Origin].data["client"]) /\ IsSeq(conn'[Origin].data["client"])
      BY <3>2, TwoSides DEF ConnOK
    <3>4. Grown(Stream(proxy.o, conn[Origin].data["client"]), Stream(proxy.o, conn'[Origin].data["client"]))
      BY <3>1, <3>2, <3>3, StreamGrows
    <3> QED
      BY <2>1, <3>4, OriginArrive
  <2> QED
    BY <2>2, <2>3, <2>4, <2>5 DEF ClientLine, OriginLine
<1>7. CASE Vanish \/ UNCHANGED vars
  <2>1. UNCHANGED <<conn, proxyQueue, tinyQueue, proxy, tiny, plan, state>>
    BY <1>7 DEF Vanish, vars, T!Unlink
  <2>2. ServingInv'
    BY <2>1 DEF ServingInv, ConnsOK, ProxyOK, TinyOK, ClientsOK, ProxyServes, TinyServes,
                OriginOnce, OriginHeld, NotAnswered, ProxyBusy, TinyBusy, Holding, Reading,
                ForProxy, ForTiny, OriginWaits, OriginServed
  <2> QED
    BY <2>1, <2>2, StreamsStay
<1> QED
  BY <1>3, <1>4, <1>5, <1>6, <1>7 DEF Next

(* However the words of its peer arrive, and whatever the clients and the  *)
(* other server do meanwhile, every reader of the two programs is handed   *)
(* its stream line by line; only a reset drops words.                      *)
THEOREM LinesAlwaysWhole == Spec => LinesWhole
<1>1. Init => ServingInv
  BY StartsRight
<1>2. ServingInv /\ [Next]_vars => ServingInv'
  BY NextKeeps
<1>3. ServingInv /\ [Next]_vars =>
          [/\ proxy.pc \in {"request line", "next", "header"} /\ proxy'.pc # "down" /\ ~ Breaks(proxy.k, "server")
                  => FromClient!Next
           /\ proxy.pc = "forward" /\ ~ Breaks(Origin, "client")
                  => FromOrigin!Next
           /\ tiny.pc \in {"request line", "headers"} /\ tiny'.pc # "down"
                  => ToTiny!Next]_vars
  BY NextKeeps DEF ClientLine, OriginLine, TinyLine
<1> QED
  BY <1>1, <1>2, <1>3, PTL DEF Spec, LinesWhole

-----------------------------------------------------------------------------
(* The type invariant: what fits into the arrays, and what the proxy has   *)
(* to write.  The headers of a request are kept as read, and become the    *)
(* lines that are sent on.                                                 *)

Fits(r) == IsSeq(r.buf) /\ Len(r.rio) <= RIO_BUFSIZE /\ Len(r.buf) < MAXLINE

Texts(out) == IsSeq(out) /\ \A i \in DOMAIN out : IsSeq(out[i]) /\ out[i] # << >>

AreHeaders(hs) == IsSeq(hs) /\ \A i \in DOMAIN hs : IsSeq(hs[i].name) /\ IsSeq(hs[i].value)

Sending ==
    /\ "headers" \in DOMAIN proxy.req /\ AreHeaders(proxy.req.headers)
    /\ Texts(proxy.out)
    /\ proxy.pc \in {"send", "reply"} => proxy.out # << >>
    /\ proxy.k \in Clients \cup {Origin}

ArraysInv ==
    /\ Fits(proxy.r) /\ Fits(proxy.o) /\ Fits(tiny.r)
    /\ Sending
    /\ files \subseteq DOMAIN Files

(* Sequences. *)
LEMMA OneIsSeq ==
    ASSUME NEW x
    PROVE  IsSeq(<<x>>) /\ Len(<<x>>) = 1 /\ <<x>> # << >>
<1>1. <<x>> \in Seq({x}) /\ Len(<<x>>) = 1
  OBVIOUS
<1> QED
  BY <1>1 DEF IsSeq

LEMMA SeqHas ==
    ASSUME NEW w, IsSeq(w)
    PROVE  Len(w) \in Nat /\ DOMAIN w = 1 .. Len(w) /\ (w # << >> <=> Len(w) > 0)
<1>1. PICK S : w \in Seq(S)
  BY DEF IsSeq
<1>2. Len(w) \in Nat /\ DOMAIN w = 1 .. Len(w)
  BY <1>1, LenProperties
<1>3. w # << >> <=> Len(w) > 0
  BY <1>1, <1>2, EmptySeq
<1> QED
  BY <1>2, <1>3

LEMMA ConcatHas ==
    ASSUME NEW u, NEW v, IsSeq(u), IsSeq(v)
    PROVE  /\ IsSeq(u \o v) /\ Len(u \o v) = Len(u) + Len(v)
           /\ \A i \in 1 .. Len(u) + Len(v) :
                  (u \o v)[i] = IF i <= Len(u) THEN u[i] ELSE v[i - Len(u)]
<1>1. PICK S : u \in Seq(S) /\ v \in Seq(S)
  BY SeqsTogether
<1> QED
  BY <1>1, ConcatProperties, ConcatIsSeq

LEMMA TextsTogether ==
    ASSUME NEW u, NEW v, Texts(u), Texts(v)
    PROVE  Texts(u \o v) /\ (u # << >> \/ v # << >> => u \o v # << >>)
<1> DEFINE uv == u \o v
<1>1. /\ Len(u) \in Nat /\ DOMAIN u = 1 .. Len(u) /\ (u # << >> <=> Len(u) > 0)
      /\ Len(v) \in Nat /\ DOMAIN v = 1 .. Len(v) /\ (v # << >> <=> Len(v) > 0)
  BY SeqHas DEF Texts
<1>2. /\ IsSeq(uv) /\ Len(uv) = Len(u) + Len(v)
      /\ \A i \in 1 .. Len(u) + Len(v) : uv[i] = IF i <= Len(u) THEN u[i] ELSE v[i - Len(u)]
  BY ConcatHas DEF Texts
<1> HIDE DEF uv
<1>3. DOMAIN uv = 1 .. Len(u) + Len(v) /\ (uv # << >> <=> Len(uv) > 0)
  BY <1>2, SeqHas
<1>4. ASSUME NEW i \in DOMAIN uv
      PROVE  IsSeq(uv[i]) /\ uv[i] # << >>
  <2>1. CASE i <= Len(u)
    <3>1. i \in DOMAIN u /\ uv[i] = u[i]
      BY <1>1, <1>2, <1>3, <2>1
    <3> QED
      BY <3>1 DEF Texts
  <2>2. CASE ~ (i <= Len(u))
    <3>1. i - Len(u) \in DOMAIN v /\ uv[i] = v[i - Len(u)]
      BY <1>1, <1>2, <1>3, <2>2
    <3> QED
      BY <3>1 DEF Texts
  <2> QED
    BY <2>1, <2>2
<1> QED
  BY <1>1, <1>2, <1>3, <1>4 DEF Texts, uv

LEMMA OneText ==
    ASSUME NEW w, IsSeq(w), w # << >>
    PROVE  Texts(<<w>>) /\ <<w>> # << >>
<1>1. IsSeq(<<w>>) /\ Len(<<w>>) = 1 /\ <<w>> # << >>
  BY OneIsSeq
<1>2. DOMAIN <<w>> = 1 .. 1 /\ <<w>>[1] = w
  OBVIOUS
<1>3. \A i \in 1 .. 1 : i = 1
  OBVIOUS
<1> QED
  BY <1>1, <1>2, <1>3 DEF Texts

LEMMA NoText == Texts(<< >>)
<1>1. IsSeq(<< >>) /\ DOMAIN << >> = {}
  BY EmptySeq DEF IsSeq
<1> QED
  BY <1>1 DEF Texts

LEMMA TuplesAreSeqs ==
    ASSUME NEW x, NEW y, NEW z, NEW u, NEW v
    PROVE  /\ IsSeq(<<x, y, z>>) /\ <<x, y, z>> # << >>
           /\ IsSeq(<<x, y, z, u>>) /\ <<x, y, z, u>> # << >>
           /\ IsSeq(<<x, y, z, u, v>>) /\ <<x, y, z, u, v>> # << >>
<1>1. <<x, y, z>> \in Seq({x, y, z}) /\ <<x, y, z>> # << >>
  OBVIOUS
<1>2. <<x, y, z, u>> \in Seq({x, y, z, u}) /\ <<x, y, z, u>> # << >>
  OBVIOUS
<1>3. <<x, y, z, u, v>> \in Seq({x, y, z, u, v}) /\ <<x, y, z, u, v>> # << >>
  OBVIOUS
<1> QED
  BY <1>1, <1>2, <1>3 DEF IsSeq

LEMMA RestIsTexts ==
    ASSUME NEW out, Texts(out), out # << >>
    PROVE  IsSeq(Head(out)) /\ Head(out) # << >> /\ Texts(Tail(out))
<1>1. PICK S : out \in Seq(S)
  BY DEF Texts, IsSeq
<1>2. Len(out) \in Nat /\ Len(out) > 0 /\ DOMAIN out = 1 .. Len(out)
  BY SeqHas DEF Texts
<1>3. Head(out) = out[1] /\ 1 \in DOMAIN out
  BY <1>1, <1>2, HeadTailProperties
<1>4. /\ Tail(out) \in Seq(S) /\ Len(Tail(out)) = Len(out) - 1
      /\ \A i \in 1 .. Len(Tail(out)) : Tail(out)[i] = out[i + 1]
  BY <1>1, HeadTailProperties
<1>5. ASSUME NEW i \in DOMAIN Tail(out)
      PROVE  IsSeq(Tail(out)[i]) /\ Tail(out)[i] # << >>
  <2>1. i \in 1 .. Len(Tail(out)) /\ i + 1 \in DOMAIN out
    BY <1>2, <1>4, LenProperties
  <2> QED
    BY <2>1, <1>4 DEF Texts
<1> QED
  BY <1>3, <1>4, <1>5 DEF Texts, IsSeq

LEMMA TextsAppend ==
    ASSUME NEW u, NEW w, Texts(u), IsSeq(w), w # << >>
    PROVE  Texts(Append(u, w)) /\ Append(u, w) # << >>
<1>1. PICK S : u \in Seq(S)
  BY DEF Texts, IsSeq
<1>2. u \in Seq(S \cup {w})
  BY <1>1, SeqMonotonic
<1>3. Append(u, w) = u \o <<w>>
  BY <1>2, AppendIsConcat
<1> QED
  BY <1>3, OneText, TextsTogether

(* rio_readlineb: a buffer holds no more than was read into it at once,    *)
(* and a line leaves room for the terminator.                              *)
LEMMA ReadBounded ==
    ASSUME NEW c, NEW s \in Sides, NEW rio, ConnOK(c), IsSeq(rio), Len(rio) <= RIO_BUFSIZE,
           NEW y \in rio_read(c, s, rio), y.rc = "data"
    PROVE  IsSeq(y.rio) /\ Len(y.rio) <= RIO_BUFSIZE
<1>1. IsSeq(y.rio)
  BY ReadStep DEF ReadDone
<1>2. CASE rio # << >>
  BY <1>1, <1>2 DEF rio_read
<1>3. CASE rio = << >>
  <2>1. PICK x \in ReadOutcomes(c, s, RIO_BUFSIZE) :
            y = [c |-> x.c, rio |-> x.got,
                 rc |-> CASE x.errno # "OK" -> "error"
                          [] x.errno = "OK" /\ x.got = << >> -> "eof"
                          [] OTHER -> "data"]
    BY <1>3, Zenon DEF rio_read
  <2>2. y.rio = x.got /\ x.errno = "OK" /\ x.got # << >>
    BY <2>1
  <2>3. c.data[s] # << >>
    <3>1. CASE c.peer[s] = "reset" /\ c.data[s] = << >>
      <4>1. x = [c |-> [c EXCEPT !.peer[s] = "broken"], got |-> << >>, errno |-> "ECONNRESET"]
        BY <3>1 DEF ReadOutcomes
      <4> QED
        BY <4>1, <2>2
    <3>2. CASE c.peer[s] # "reset" /\ c.data[s] = << >>
      <4>1. x = [c |-> c, got |-> << >>, errno |-> "OK"]
        BY <3>2 DEF ReadOutcomes
      <4> QED
        BY <4>1, <2>2
    <3> QED
      BY <3>1, <3>2
  <2>4. PICK got \in {ws \in Prefixes(c.data[s]) : Len(ws) \in 1 .. RIO_BUFSIZE} :
            x = [c |-> [c EXCEPT !.data[s] = SubSeq(@, Len(got) + 1, Len(@))],
                 got |-> got, errno |-> "OK"]
    BY <2>3, Zenon DEF ReadOutcomes
  <2>5. x.got = got /\ Len(got) \in 1 .. RIO_BUFSIZE
    BY <2>4
  <2> QED
    BY <1>1, <2>2, <2>5, RioAssumption
<1> QED
  BY <1>2, <1>3

LEMMA TakenFits ==
    ASSUME NEW r, NEW rio, LineOK(r), Fits(r), IsSeq(rio), Len(rio) <= RIO_BUFSIZE
    PROVE  LET t == Taken(r, rio)
           IN  Fits(t.r) /\ (t.rc = "line" => t.r.buf # << >>)
<1> DEFINE u == r.line
           n == LineEnd(u, rio)
           t == Taken(r, rio)
<1>1. /\ IsSeq(u) /\ Len(u) \in Nat /\ Len(u) < MAXLINE - 1
      /\ Len(rio) \in Nat /\ RIO_BUFSIZE \in Nat /\ MAXLINE \in Nat
      /\ DOMAIN r = {"rio", "line", "buf"}
  BY SeqHas, RioAssumption DEF LineOK
<1>2. \/ n = 0
      \/ /\ n \in 1 .. Len(rio)
         /\ \A i \in 1 .. n - 1 : Len(u) + i # MAXLINE - 1
  BY EndOfLine DEF LineOK
<1>3. IsSeq(<< >>) /\ Len(<< >>) = 0
  BY EmptySeq DEF IsSeq
<1>4. CASE n = 0
  <2> DEFINE ur == u \o rio
  <2>1. t = [r |-> [r EXCEPT !.rio = << >>, !.line = ur], rc |-> "more"]
    BY <1>4 DEF Taken
  <2> HIDE DEF ur, t, u
  <2>2. t.r.rio = << >> /\ t.r.buf = r.buf /\ t.rc = "more"
    BY <2>1, <1>1
  <2> QED
    BY <1>1, <1>3, <2>2 DEF Fits, t
<1>5. CASE n \in 1 .. Len(rio) /\ \A i \in 1 .. n - 1 : Len(u) + i # MAXLINE - 1
  <2> DEFINE head == SubSeq(rio, 1, n)
             rest == SubSeq(rio, n + 1, Len(rio))
             line == u \o head
  <2>1. t = [r |-> [rio |-> rest, line |-> << >>, buf |-> line], rc |-> "line"]
    BY <1>5 DEF Taken
  <2>2. Len(u) + n <= MAXLINE - 1
    <3> SUFFICES ASSUME Len(u) + n > MAXLINE - 1 PROVE FALSE
      BY <1>1, <1>5
    <3> DEFINE i == MAXLINE - 1 - Len(u)
    <3>1. i \in 1 .. n - 1 /\ Len(u) + i = MAXLINE - 1
      BY <1>1, <1>5
    <3> QED
      BY <3>1, <1>5
  <2> HIDE DEF n
  <2>3. IsSeq(head) /\ Len(head) = n
    <3>1. IsSeq(head) /\ Len(head) = IF 1 <= n THEN n - 1 + 1 ELSE 0
      BY <1>5, PartIsSeq
    <3> QED
      BY <3>1, <1>5
  <2>4. IsSeq(rest) /\ Len(rest) <= RIO_BUFSIZE
    <3>1. n + 1 \in Nat \ {0} /\ Len(rio) \in Int
      BY <1>1, <1>5
    <3>2. Len(rest) = IF n + 1 <= Len(rio) THEN Len(rio) - (n + 1) + 1 ELSE 0
      BY <3>1, PartIsSeq
    <3>3. IsSeq(rest)
      BY <3>1, PartIsSeq
    <3> HIDE DEF rest
    <3> QED
      BY <1>1, <1>5, <3>2, <3>3
  <2> HIDE DEF head, rest
  <2>5. IsSeq(line) /\ Len(line) = Len(u) + n
    BY <1>1, <2>3, ConcatHas
  <2> HIDE DEF line, t
  <2>6. line # << >> /\ Len(line) < MAXLINE
    BY <1>1, <1>5, <2>2, <2>5, SeqHas
  <2>7. t.r.rio = rest /\ t.r.buf = line
    BY <2>1
  <2> QED
    BY <2>4, <2>5, <2>6, <2>7 DEF Fits, t
<1> QED
  BY <1>2, <1>4, <1>5

LEMMA ReadlineFits ==
    ASSUME NEW c, NEW s \in Sides, NEW r, ConnOK(c), LineOK(r), Fits(r),
           NEW x \in rio_readlineb(c, s, r)
    PROVE  Fits(x.to.r) /\ (x.to.rc = "line" => IsSeq(x.to.r.buf) /\ x.to.r.buf # << >>)
<1>1. PICK y \in rio_read(c, s, r.rio) :
          x = [c |-> y.c, to |-> CASE y.rc = "data"  -> Taken(r, y.rio)
                                   [] y.rc = "eof"   -> AtEof(r)
                                   [] y.rc = "error" -> AtError(r)]
  BY Zenon DEF rio_readlineb
<1>2. /\ DOMAIN r = {"rio", "line", "buf"} /\ IsSeq(r.rio) /\ IsSeq(r.line) /\ IsSeq(r.buf)
      /\ Len(r.line) \in Nat /\ Len(r.line) < MAXLINE - 1 /\ Len(r.buf) \in Nat /\ Len(r.buf) < MAXLINE
      /\ Len(r.rio) <= RIO_BUFSIZE /\ MAXLINE \in Nat
  BY SeqHas, RioAssumption DEF LineOK, Fits
<1>0. ReadDone(c, s, r.rio, y)
  BY <1>2, ReadStep
<1>3. y.rc \in {"data", "eof", "error"}
  BY <1>0 DEF ReadDone
<1>4. CASE y.rc = "data"
  <2>1. IsSeq(y.rio) /\ Len(y.rio) <= RIO_BUFSIZE
    BY <1>2, <1>4, ReadBounded
  <2>2. x.to = Taken(r, y.rio)
    BY <1>1, <1>4
  <2> QED
    BY <2>1, <2>2, TakenFits DEF Fits
<1>5. CASE y.rc = "eof"
  <2>1. x.to = AtEof(r)
    BY <1>1, <1>5
  <2>2. CASE r.line = << >>
    <3>1. x.to.r = r /\ x.to.rc = "eof"
      BY <2>1, <2>2 DEF AtEof
    <3> QED
      BY <3>1
  <2>3. CASE r.line # << >>
    <3> DEFINE q == x.to.r
    <3>1. q = [r EXCEPT !.line = << >>, !.buf = r.line]
      BY <2>1, <2>3 DEF AtEof
    <3> HIDE DEF q
    <3>2. q.rio = r.rio /\ q.buf = r.line
      BY <3>1, <1>2
    <3> QED
      BY <1>2, <2>3, <3>2 DEF Fits, q
  <2> QED
    BY <2>2, <2>3
<1>6. CASE y.rc = "error"
  <2> DEFINE rest == SubSeq(r.buf, Len(r.line) + 1, Len(r.buf))
             over == r.line \o rest
             q == x.to.r
  <2>1. x.to = AtError(r)
    BY <1>1, <1>6
  <2>2. q = [r EXCEPT !.line = << >>, !.buf = over] /\ x.to.rc = "error"
    BY <2>1 DEF AtError
  <2>3. IsSeq(rest) /\ Len(rest) = IF Len(r.line) + 1 <= Len(r.buf)
                                   THEN Len(r.buf) - (Len(r.line) + 1) + 1 ELSE 0
    <3>1. Len(r.line) + 1 \in Nat \ {0} /\ Len(r.buf) \in Int
      BY <1>2
    <3> QED
      BY <3>1, PartIsSeq
  <2> HIDE DEF rest
  <2>4. IsSeq(over) /\ Len(over) = Len(r.line) + Len(rest)
    BY <1>2, <2>3, ConcatHas
  <2> HIDE DEF over, q
  <2>5. Len(over) < MAXLINE
    BY <1>2, <2>3, <2>4
  <2>6. q.rio = r.rio /\ q.buf = over
    BY <2>2, <1>2
  <2> QED
    BY <1>2, <2>2, <2>4, <2>5, <2>6 DEF Fits, q
<1> QED
  BY <1>3, <1>4, <1>5, <1>6

(* rio_writen: what is left of a text, and the texts behind it.            *)
LEMMA LeftIsTexts ==
    ASSUME NEW c, NEW s \in Sides, NEW out, ConnOK(c), Texts(out), out # << >>,
           NEW x \in rio_writen(c, s, Head(out))
    PROVE  Texts((IF x.left = << >> THEN << >> ELSE <<x.left>>) \o Tail(out))
<1> DEFINE ws == Head(out)
<1>1. IsSeq(ws) /\ Len(ws) \in Nat /\ Texts(Tail(out))
  BY RestIsTexts, SeqHas
<1> HIDE DEF ws
<1>2. PICK y \in WriteOutcomes(c, s, ws) :
          x = [c |-> y.c, errno |-> y.errno,
               left |-> IF y.errno = "OK" THEN SubSeq(ws, y.n + 1, Len(ws)) ELSE << >>]
  BY Zenon DEF rio_writen, ws
<1>3. y.n \in Nat
  <2>1. CASE c.peer[s] = "open"
    <3>1. PICK k \in {n \in 1 .. Len(ws) : Len(c.data[Other(s)]) + n <= c.room} :
              y = [c |-> [c EXCEPT !.data[Other(s)] = @ \o SubSeq(ws, 1, k)], n |-> k, errno |-> "OK"]
      BY <2>1, Zenon DEF WriteOutcomes
    <3>2. y.n = k
      BY <3>1
    <3> QED
      BY <3>2
  <2>2. CASE c.peer[s] \in {"closed", "late", "reset", "broken"}
    <3>1. \/ \E d : y = [c |-> d, n |-> Len(ws), errno |-> "OK"]
          \/ \E d, e : y = [c |-> d, n |-> 0, errno |-> e]
      <4>1. CASE c.peer[s] = "closed"
        BY <4>1 DEF WriteOutcomes
      <4>2. CASE c.peer[s] = "late"
        BY <4>2 DEF WriteOutcomes
      <4>3. CASE c.peer[s] = "reset"
        BY <4>3 DEF WriteOutcomes
      <4>4. CASE c.peer[s] = "broken"
        BY <4>4 DEF WriteOutcomes
      <4> QED
        BY <2>2, <4>1, <4>2, <4>3, <4>4
    <3> QED
      BY <1>1, <3>1
  <2> QED
    BY <2>1, <2>2 DEF ConnOK, PeerStates
<1>4. IsSeq(SubSeq(ws, y.n + 1, Len(ws)))
  <2>1. y.n + 1 \in Nat \ {0} /\ Len(ws) \in Int
    BY <1>1, <1>3
  <2> QED
    BY <2>1, PartIsSeq
<1>5. IsSeq(x.left)
  <2>1. IsSeq(<< >>)
    BY EmptySeq DEF IsSeq
  <2>2. x.left = IF y.errno = "OK" THEN SubSeq(ws, y.n + 1, Len(ws)) ELSE << >>
    BY <1>2
  <2> QED
    BY <1>4, <2>1, <2>2
<1>6. CASE x.left = << >>
  BY <1>1, <1>6, NoText, TextsTogether
<1>7. CASE x.left # << >>
  BY <1>1, <1>5, <1>7, OneText, TextsTogether
<1> QED
  BY <1>6, <1>7

(* send_request: the texts of the headers, one call after the other.       *)
Text(h) == P!HeaderLine(h)

FirstCall == << << <<"Proxy-Connection", ": ">>, <<"close">>, NL>> >>

NextCalls(hs, kept, i, calls) ==
    IF hs[i].name \in P!OwnHeaders THEN calls
    ELSE Append(calls, (IF kept THEN P!Last(calls) ELSE << >>) \o Text(hs[i]))

AreCalls(f, hs, kept, n) ==
    f = [i \in 0 .. n |-> IF i = 0 THEN FirstCall ELSE NextCalls(hs, kept, i, f[i - 1])]

LEMMA ContentsByCalls ==
    ASSUME NEW req, NEW kept
    PROVE  P!Contents(req, kept) =
               (CHOOSE f : AreCalls(f, req.headers, kept, Len(req.headers)))[Len(req.headers)]
BY Zenon DEF P!Contents, AreCalls, FirstCall, NextCalls, Text, P!NL, NL

LEMMA TextIs ==
    ASSUME NEW h, IsSeq(h.name), IsSeq(h.value)
    PROVE  IsSeq(Text(h)) /\ Text(h) # << >>
<1> DEFINE front == P!Front(h.name)
           colon == << P!Last(h.name) \o <<": ">> >>
           alone == << <<": ">> >>
           one == IF P!Last(h.name) = P!NL THEN h.name \o alone ELSE front \o colon
           two == one \o h.value
<1>1. Len(h.name) \in Nat /\ Len(h.name) - 1 \in Int /\ 1 \in Nat \ {0}
  BY SeqHas
<1>2. IsSeq(front)
  BY <1>1, PartIsSeq DEF P!Front
<1>3. IsSeq(colon) /\ IsSeq(alone) /\ IsSeq(<<P!NL>>) /\ Len(<<P!NL>>) = 1
  BY OneIsSeq
<1>4. Text(h) = two \o <<P!NL>>
  BY Zenon DEF Text, P!HeaderLine
<1> HIDE DEF front, colon, alone
<1>5. IsSeq(one)
  BY <1>2, <1>3, ConcatIsSeq
<1> HIDE DEF one
<1>6. IsSeq(two) /\ Len(two) \in Nat
  BY <1>5, ConcatIsSeq, SeqHas
<1> HIDE DEF two
<1>7. IsSeq(two \o <<P!NL>>) /\ Len(two \o <<P!NL>>) = Len(two) + 1
  BY <1>3, <1>6, ConcatHas
<1> QED
  BY <1>4, <1>6, <1>7, SeqHas

LEMMA FirstCallIs == Texts(FirstCall) /\ FirstCall # << >>
BY TuplesAreSeqs, OneText DEF FirstCall

LEMMA NextCallsAre ==
    ASSUME NEW hs, AreHeaders(hs), NEW i \in 1 .. Len(hs), NEW kept \in BOOLEAN,
           NEW calls, Texts(calls), calls # << >>
    PROVE  Texts(NextCalls(hs, kept, i, calls)) /\ NextCalls(hs, kept, i, calls) # << >>
<1>1. i \in DOMAIN hs
  BY SeqHas DEF AreHeaders
<1>2. IsSeq(Text(hs[i])) /\ Text(hs[i]) # << >>
  BY <1>1, TextIs DEF AreHeaders
<1> DEFINE before == IF kept THEN P!Last(calls) ELSE << >>
           text == before \o Text(hs[i])
<1>3. IsSeq(before)
  <2>1. IsSeq(<< >>)
    BY EmptySeq DEF IsSeq
  <2>2. Len(calls) \in DOMAIN calls
    BY SeqHas DEF Texts
  <2>3. IsSeq(P!Last(calls))
    BY <2>2 DEF P!Last, Texts
  <2> QED
    BY <2>1, <2>3
<1> HIDE DEF before
<1>4. IsSeq(text) /\ text # << >>
  <2>1. IsSeq(text) /\ Len(text) = Len(before) + Len(Text(hs[i]))
    BY <1>2, <1>3, ConcatHas
  <2>2. Len(before) \in Nat /\ Len(Text(hs[i])) \in Nat /\ Len(Text(hs[i])) > 0
    BY <1>2, <1>3, SeqHas
  <2> HIDE DEF text
  <2>3. Len(text) > 0
    BY <2>1, <2>2
  <2> QED
    BY <2>1, <2>3, SeqHas
<1> HIDE DEF text
<1>5. NextCalls(hs, kept, i, calls) = IF hs[i].name \in P!OwnHeaders THEN calls ELSE Append(calls, text)
  BY DEF NextCalls, text, before
<1> QED
  BY <1>4, <1>5, TextsAppend

(* The recursion of Contents: there is such a table, for as many headers   *)
(* as there are, and each of its entries is a list of texts.               *)
LEMMA CallsExist ==
    ASSUME NEW hs, NEW kept, NEW n \in Nat
    PROVE  \E f : AreCalls(f, hs, kept, n)
<1> DEFINE without == {m \in Nat : ~ \E f : AreCalls(f, hs, kept, m)}
<1>1. ASSUME without # {}
      PROVE  FALSE
  <2>1. PICK m \in without : \A j \in without : m <= j
    <3>1. without \subseteq Nat
      OBVIOUS
    <3> HIDE DEF without
    <3> QED
      BY <1>1, <3>1, NatLeast
  <2>2. m \in Nat /\ ~ \E f : AreCalls(f, hs, kept, m)
    BY <2>1
  <2>3. CASE m = 0
    <3> DEFINE f == [i \in 0 .. 0 |-> FirstCall]
    <3>1. f = [i \in 0 .. 0 |-> IF i = 0 THEN FirstCall ELSE NextCalls(hs, kept, i, f[i - 1])]
      OBVIOUS
    <3> QED
      BY <2>2, <2>3, <3>1 DEF AreCalls
  <2>4. CASE m # 0
    <3>1. m - 1 \in Nat /\ m - 1 \notin without
      BY <2>1, <2>2, <2>4
    <3>2. PICK g : AreCalls(g, hs, kept, m - 1)
      BY <3>1
    <3> DEFINE f == [i \in 0 .. m |-> IF i = m THEN NextCalls(hs, kept, m, g[m - 1]) ELSE g[i]]
    <3>3. g = [i \in 0 .. m - 1 |-> IF i = 0 THEN FirstCall ELSE NextCalls(hs, kept, i, g[i - 1])]
      BY <3>2 DEF AreCalls
    <3>4. ASSUME NEW i \in 0 .. m
          PROVE  f[i] = IF i = 0 THEN FirstCall ELSE NextCalls(hs, kept, i, f[i - 1])
      <4>1. CASE i = m
        <5>1. m - 1 \in 0 .. m /\ m - 1 # m /\ i # 0
          BY <2>2, <2>4, <4>1
        <5>2. f[m - 1] = g[m - 1] /\ f[i] = NextCalls(hs, kept, m, g[m - 1])
          BY <4>1, <5>1
        <5> QED
          BY <4>1, <5>1, <5>2
      <4>2. CASE i # m
        <5>1. i \in 0 .. m - 1
          BY <2>2, <4>2
        <5>2. f[i] = g[i]
          BY <4>2
        <5>3. g[i] = IF i = 0 THEN FirstCall ELSE NextCalls(hs, kept, i, g[i - 1])
          BY <3>3, <5>1, Zenon
        <5>4. CASE i = 0
          BY <5>2, <5>3, <5>4
        <5>5. CASE i # 0
          <6>1. i - 1 \in 0 .. m /\ i - 1 # m
            BY <2>2, <5>1, <5>5
          <6>2. f[i - 1] = g[i - 1]
            BY <6>1
          <6> HIDE DEF f
          <6> QED
            BY <5>2, <5>3, <5>5, <6>2
        <5> QED
          BY <5>4, <5>5
      <4> QED
        BY <4>1, <4>2
    <3>5. f = [i \in 0 .. m |-> f[i]]
      OBVIOUS
    <3> HIDE DEF f
    <3>6. f = [i \in 0 .. m |-> IF i = 0 THEN FirstCall ELSE NextCalls(hs, kept, i, f[i - 1])]
      BY <3>4, <3>5, Zenon
    <3> QED
      BY <2>2, <3>6 DEF AreCalls
  <2> QED
    BY <2>3, <2>4
<1>2. n \notin without
  BY <1>1
<1> QED
  BY <1>2

LEMMA CallsAre ==
    ASSUME NEW hs, AreHeaders(hs), NEW kept \in BOOLEAN, NEW f, AreCalls(f, hs, kept, Len(hs))
    PROVE  Texts(f[Len(hs)]) /\ f[Len(hs)] # << >>
<1> DEFINE N == Len(hs)
           good(i) == Texts(f[i]) /\ f[i] # << >>
           wrong == {i \in 0 .. N : ~ good(i)}
<1>1. N \in Nat
  BY SeqHas DEF AreHeaders
<1>2. f = [i \in 0 .. N |-> IF i = 0 THEN FirstCall ELSE NextCalls(hs, kept, i, f[i - 1])]
  BY DEF AreCalls
<1>3. ASSUME wrong # {}
      PROVE  FALSE
  <2>1. PICK m \in wrong : \A j \in wrong : m <= j
    <3>1. wrong \subseteq Nat
      BY <1>1
    <3> HIDE DEF wrong
    <3> QED
      BY <1>3, <3>1, NatLeast
  <2>2. m \in 0 .. N /\ ~ good(m)
    BY <2>1
  <2> HIDE DEF N
  <2>3. f[m] = IF m = 0 THEN FirstCall ELSE NextCalls(hs, kept, m, f[m - 1])
    BY <1>2, <2>2, Zenon
  <2>4. CASE m = 0
    BY <2>2, <2>3, <2>4, FirstCallIs
  <2>5. CASE m # 0
    <3>1. m - 1 \in 0 .. N /\ m \in 1 .. N /\ ~ (m <= m - 1)
      BY <1>1, <2>2, <2>5
    <3>2. good(m - 1)
      BY <2>1, <3>1
    <3>3. Texts(NextCalls(hs, kept, m, f[m - 1])) /\ NextCalls(hs, kept, m, f[m - 1]) # << >>
      BY <3>1, <3>2, NextCallsAre DEF N
    <3> QED
      BY <2>2, <2>3, <2>5, <3>3
  <2> QED
    BY <2>4, <2>5
<1>4. N \in 0 .. N
  BY <1>1
<1>5. good(N)
  BY <1>3, <1>4
<1> QED
  BY <1>5

LEMMA ContentsAre ==
    ASSUME NEW req, AreHeaders(req.headers), NEW kept \in BOOLEAN
    PROVE  Texts(P!Contents(req, kept)) /\ P!Contents(req, kept) # << >>
<1> DEFINE hs == req.headers
           f == CHOOSE f : AreCalls(f, hs, kept, Len(hs))
<1>1. Len(hs) \in Nat
  BY SeqHas DEF AreHeaders
<1>2. AreCalls(f, hs, kept, Len(hs))
  BY <1>1, CallsExist
<1>3. P!Contents(req, kept) = f[Len(hs)]
  BY ContentsByCalls
<1> HIDE DEF f
<1> QED
  BY <1>2, <1>3, CallsAre

LEMMA RequestIsTexts ==
    ASSUME NEW req, AreHeaders(req.headers), NEW kept \in BOOLEAN
    PROVE  Texts(P!RequestLines(req, kept)) /\ P!RequestLines(req, kept) # << >>
<1> DEFINE a == << <<"GET">>, req.path, <<"HTTP/1.0">>, P!NL>>
           b == << <<"Host", ": ">>, req.host \o <<":">> \o req.port, P!NL>>
           d == << P!UserAgent, P!UserAgent, <<"Mozilla/5.0">>, P!NL, P!NL>>
           e == << <<"Connection", ": ">>, <<"close">>, P!NL>>
           own == <<a, b, d, e>>
           end == << <<P!NL>> >>
           contents == P!Contents(req, kept)
<1>1. P!RequestLines(req, kept) = own \o contents \o end
  BY DEF P!RequestLines
<1>2. Texts(own) /\ own # << >>
  <2>1. IsSeq(a) /\ a # << >>
    BY TuplesAreSeqs, Zenon
  <2>2. IsSeq(b) /\ b # << >>
    BY TuplesAreSeqs, Zenon
  <2>3. IsSeq(d) /\ d # << >>
    BY TuplesAreSeqs, Zenon
  <2>4. IsSeq(e) /\ e # << >>
    BY TuplesAreSeqs, Zenon
  <2> HIDE DEF a, b, d, e
  <2>5. /\ own \in Seq({a, b, d, e}) /\ Len(own) = 4
        /\ \A i \in 1 .. 4 : own[i] \in {a, b, d, e}
    OBVIOUS
  <2> HIDE DEF own
  <2>6. IsSeq(own)
    BY <2>5 DEF IsSeq
  <2>7. DOMAIN own = 1 .. 4 /\ own # << >>
    BY <2>5, <2>6, SeqHas
  <2> QED
    BY <2>1, <2>2, <2>3, <2>4, <2>5, <2>6, <2>7 DEF Texts
<1>3. Texts(end)
  BY OneIsSeq, OneText
<1>4. Texts(contents)
  BY ContentsAre
<1> HIDE DEF own, contents, end
<1>5. Texts(own \o contents) /\ own \o contents # << >>
  BY <1>2, <1>4, TextsTogether
<1>6. Texts(own \o contents \o end) /\ own \o contents \o end # << >>
  BY <1>3, <1>5, TextsTogether
<1> QED
  BY <1>1, <1>6

-----------------------------------------------------------------------------
(* Each step of the proxy leaves its arrays and texts in order.            *)

ProxyHolds == Fits(proxy.r) /\ Fits(proxy.o) /\ Sending

LEMMA FreshFits == Fits([rio |-> << >>, line |-> << >>, buf |-> Junk])
<1>1. IsSeq(Junk) /\ Len(Junk) = 1
  BY OneIsSeq DEF Junk
<1>2. Len(<< >>) = 0
  OBVIOUS
<1> QED
  BY <1>1, <1>2, RioAssumption DEF Fits

(* The request and the texts as they were, or nothing to send. *)
LEMMA SendsOn ==
    ASSUME ArraysInv, DOMAIN proxy' = ProxyFields,
           proxy'.r = proxy.r \/ Fits(proxy'.r), proxy'.o = proxy.o \/ Fits(proxy'.o),
           proxy'.k \in Clients \cup {Origin}, proxy'.req = proxy.req,
           \/ proxy'.out = proxy.out /\ proxy'.pc \notin {"send", "reply"}
           \/ proxy'.out = << >> /\ proxy'.pc \notin {"send", "reply"}
           \/ Texts(proxy'.out) /\ proxy'.out # << >>
    PROVE  ProxyHolds'
BY NoText DEF ArraysInv, ProxyHolds, Sending

LEMMA ExitHolds ==
    ASSUME ServingInv, ArraysInv, P!Exit
    PROVE  ProxyHolds'
<1>1. DOMAIN proxy = ProxyFields /\ proxy.k \in Clients \cup {Origin}
  BY DEF ServingInv, ProxyOK, ArraysInv, Sending
<1>2. proxy' = [proxy EXCEPT !.pc = "down", !.was = proxy.pc, !.out = << >>]
  BY DEF P!Exit
<1>3. /\ DOMAIN proxy' = ProxyFields /\ proxy'.pc = "down" /\ proxy'.out = << >>
      /\ proxy'.r = proxy.r /\ proxy'.o = proxy.o /\ proxy'.k = proxy.k /\ proxy'.req = proxy.req
  BY <1>1, <1>2 DEF ProxyFields
<1> QED
  BY <1>1, <1>3, SendsOn

LEMMA AcceptHolds ==
    ASSUME ServingInv, ArraysInv, P!Accept
    PROVE  ProxyHolds'
<1>1. DOMAIN proxy = ProxyFields
  BY DEF ServingInv, ProxyOK
<1>2. proxyQueue # << >> /\ IsSeq(proxyQueue) /\ \A c \in Range(proxyQueue) : c \in Clients
  BY DEF P!Accept, ServingInv, ProxyServes, ForProxy
<1>3. Head(proxyQueue) \in Clients
  BY <1>2, TailIsSeq
<1>4. /\ DOMAIN proxy' = ProxyFields /\ proxy'.pc = "request line" /\ proxy'.k = Head(proxyQueue)
      /\ proxy'.r = [rio |-> << >>, line |-> << >>, buf |-> Junk]
      /\ proxy'.o = proxy.o /\ proxy'.req = proxy.req /\ proxy'.out = proxy.out
  BY <1>1 DEF P!Accept, ProxyFields, P!rio_readinitb, P!Junk, Junk
<1> QED
  BY <1>3, <1>4, FreshFits, SendsOn

LEMMA RequestReadIs ==
    ASSUME P!read_request_line \/ P!read_request \/ P!read_request_header
    PROVE  \E x \in rio_readlineb(conn[proxy.k], "server", proxy.r) :
               \E pc \in {"request line", "parse request", "next", "connect", "header", "parse header"} :
                   /\ proxy' = [proxy EXCEPT !.r = x.to.r, !.pc = pc]
                   /\ conn' = [conn EXCEPT ![proxy.k] = x.c]
<1>1. CASE P!read_request_line
  <2>1. PICK x \in rio_readlineb(conn[proxy.k], "server", proxy.r) :
            /\ conn' = [conn EXCEPT ![proxy.k] = x.c]
            /\ proxy' = [proxy EXCEPT !.r = x.to.r,
                             !.pc = IF x.to.rc = "more" THEN "request line" ELSE "parse request"]
    BY <1>1, ProxyCalls DEF P!read_request_line, P!Rio_readlineb, P!Fd
  <2> DEFINE pc == IF x.to.rc = "more" THEN "request line" ELSE "parse request"
  <2>2. proxy' = [proxy EXCEPT !.r = x.to.r, !.pc = pc] /\ pc \in {"request line", "parse request"}
    BY <2>1
  <2> HIDE DEF pc
  <2> QED
    BY <2>1, <2>2
<1>2. CASE P!read_request
  <2>1. PICK x \in rio_readlineb(conn[proxy.k], "server", proxy.r) :
            /\ conn' = [conn EXCEPT ![proxy.k] = x.c]
            /\ proxy' = [proxy EXCEPT !.r = x.to.r,
                             !.pc = IF x.to.rc = "more" THEN "next"
                                    ELSE IF x.to.r.buf = <<P!NL>> THEN "connect" ELSE "header"]
    BY <1>2, ProxyCalls DEF P!read_request, P!Rio_readlineb, P!Fd
  <2> DEFINE pc == IF x.to.rc = "more" THEN "next"
                   ELSE IF x.to.r.buf = <<P!NL>> THEN "connect" ELSE "header"
  <2>2. proxy' = [proxy EXCEPT !.r = x.to.r, !.pc = pc] /\ pc \in {"next", "connect", "header"}
    BY <2>1
  <2> HIDE DEF pc
  <2> QED
    BY <2>1, <2>2
<1>3. CASE P!read_request_header
  <2>1. PICK x \in rio_readlineb(conn[proxy.k], "server", proxy.r) :
            /\ conn' = [conn EXCEPT ![proxy.k] = x.c]
            /\ proxy' = [proxy EXCEPT !.r = x.to.r,
                             !.pc = IF x.to.rc = "more" THEN "header" ELSE "parse header"]
    BY <1>3, ProxyCalls DEF P!read_request_header, P!Rio_readlineb, P!Fd
  <2> DEFINE pc == IF x.to.rc = "more" THEN "header" ELSE "parse header"
  <2>2. proxy' = [proxy EXCEPT !.r = x.to.r, !.pc = pc] /\ pc \in {"header", "parse header"}
    BY <2>1
  <2> HIDE DEF pc
  <2> QED
    BY <2>1, <2>2
<1> QED
  BY <1>1, <1>2, <1>3

LEMMA ReadsHold ==
    ASSUME ServingInv, ArraysInv, P!read_request_line \/ P!read_request \/ P!read_request_header
    PROVE  ProxyHolds'
<1>1. proxy.pc \in {"request line", "next", "header"}
  BY DEF P!read_request_line, P!read_request, P!read_request_header, P!Rio_readlineb, P!At
<1>2. /\ DOMAIN proxy = ProxyFields /\ LineOK(proxy.r) /\ ConnOK(conn[proxy.k])
      /\ Fits(proxy.r) /\ proxy.k \in Clients \cup {Origin}
  BY <1>1 DEF ServingInv, ProxyOK, ProxyServes, ProxyBusy, ForProxy, ConnsOK, ArraysInv, Sending
<1>3. PICK x \in rio_readlineb(conn[proxy.k], "server", proxy.r) :
          \E pc \in {"request line", "parse request", "next", "connect", "header", "parse header"} :
              proxy' = [proxy EXCEPT !.r = x.to.r, !.pc = pc]
  BY RequestReadIs
<1>4. Fits(x.to.r)
  BY <1>2, ReadlineFits, TwoSides
<1>5. PICK pc \in {"request line", "parse request", "next", "connect", "header", "parse header"} :
          proxy' = [proxy EXCEPT !.r = x.to.r, !.pc = pc]
  BY <1>3
<1>6. /\ DOMAIN proxy' = ProxyFields /\ proxy'.pc \notin {"send", "reply"} /\ proxy'.out = proxy.out
      /\ proxy'.r = x.to.r /\ proxy'.o = proxy.o /\ proxy'.k = proxy.k /\ proxy'.req = proxy.req
  BY <1>2, <1>5 DEF ProxyFields
<1> QED
  BY <1>2, <1>4, <1>6, SendsOn

LEMMA NoHeaders == AreHeaders(<< >>)
<1>1. IsSeq(<< >>) /\ DOMAIN << >> = {}
  BY EmptySeq DEF IsSeq
<1> QED
  BY <1>1 DEF AreHeaders

LEMMA OneMore ==
    ASSUME NEW old, AreHeaders(old), NEW h, IsSeq(h.name), IsSeq(h.value)
    PROVE  AreHeaders(Append(old, h))
<1>1. IsSeq(old) /\ \A i \in DOMAIN old : IsSeq(old[i].name) /\ IsSeq(old[i].value)
  BY DEF AreHeaders
<1>3. PICK S : old \in Seq(S)
  BY <1>1 DEF IsSeq
<1>4. old \in Seq(S \cup {h})
  BY <1>3, SeqMonotonic
<1> DEFINE new == Append(old, h)
<1>5. /\ new \in Seq(S \cup {h}) /\ Len(new) = Len(old) + 1
      /\ \A i \in 1 .. Len(old) : new[i] = old[i]
      /\ new[Len(old) + 1] = h
  BY <1>4, AppendProperties
<1> HIDE DEF new
<1>6. IsSeq(new)
  BY <1>5 DEF IsSeq
<1>7. /\ Len(old) \in Nat /\ DOMAIN old = 1 .. Len(old) /\ DOMAIN new = 1 .. Len(new)
  BY <1>1, <1>6, SeqHas
<1>8. \A i \in DOMAIN new : i \in DOMAIN old \/ i = Len(old) + 1
  BY <1>5, <1>7
<1>9. \A i \in DOMAIN new : IsSeq(new[i].name) /\ IsSeq(new[i].value)
  BY <1>1, <1>5, <1>7, <1>8
<1> QED
  BY <1>6, <1>9 DEF AreHeaders, new

(* Whatever is read from the arrays of a header is a text.                 *)
LEMMA StoredIs ==
    ASSUME NEW name, NEW value, IsSeq(name), IsSeq(value), NEW h \in P!StoredHeaders(name, value)
    PROVE  IsSeq(h.name) /\ IsSeq(h.value)
<1> DEFINE cut == SubSeq(value, 1, HEADER_VALUE_MAX_LEN) \o P!Junk
           begin == SubSeq(name, 1, HEADER_NAME_MAX_LEN)
<1>1. HEADER_VALUE_MAX_LEN \in Int /\ HEADER_NAME_MAX_LEN \in Int /\ 1 \in Nat \ {0}
  BY ArraysAssumption
<1>2. IsSeq(cut)
  <2>1. IsSeq(P!Junk) /\ IsSeq(SubSeq(value, 1, HEADER_VALUE_MAX_LEN))
    BY <1>1, OneIsSeq, PartIsSeq DEF P!Junk
  <2> QED
    BY <2>1, ConcatIsSeq
<1>3. IsSeq(begin)
  BY <1>1, PartIsSeq
<1> HIDE DEF begin, cut
<1>4. PICK v \in {value, cut} :
          h = [value |-> v, name |-> IF Len(name) < HEADER_NAME_MAX_LEN THEN name ELSE begin \o v]
  BY DEF P!StoredHeaders, begin, cut
<1>5. IsSeq(v)
  BY <1>2, <1>4
<1>6. IsSeq(begin \o v)
  BY <1>3, <1>5, ConcatIsSeq
<1>7. h.value = v /\ h.name \in {name, begin \o v}
  BY <1>4
<1> QED
  BY <1>5, <1>6, <1>7

LEMMA UnknownIs == IsSeq(P!Unknown.name) /\ IsSeq(P!Unknown.value)
<1>1. P!Unknown.name = << <<"junk">> >> /\ P!Unknown.value = << >>
  BY DEF P!Unknown, P!Junk
<1>2. IsSeq(<< >>)
  BY EmptySeq DEF IsSeq
<1> QED
  BY <1>1, <1>2, OneIsSeq

LEMMA ParsesHold ==
    ASSUME ServingInv, ArraysInv, P!read_request_line_parse \/ P!read_request_header_parse
    PROVE  ProxyHolds'
<1>1. /\ DOMAIN proxy = ProxyFields /\ Fits(proxy.r) /\ Fits(proxy.o) /\ DOMAIN proxy.r = {"rio", "line", "buf"}
      /\ Texts(proxy.out) /\ proxy.k \in Clients \cup {Origin}
      /\ "headers" \in DOMAIN proxy.req /\ AreHeaders(proxy.req.headers)
  BY DEF ServingInv, ProxyOK, LineOK, ArraysInv, Sending
<1>2. CASE P!Exit
  BY <1>2, ExitHolds
<1>3. CASE P!read_request_line_parse /\ ~ P!Exit
  <2> DEFINE uri == P!parse_uri(proxy.r.buf[2])
             Req(path) == [host |-> uri.host, port |-> uri.port, path |-> path, headers |-> << >>]
  <2>5. PICK path, spoilt : proxy' = [proxy EXCEPT !.pc = "next", !.spoilt = spoilt, !.req = Req(path)]
    BY <1>3, Zenon DEF P!read_request_line_parse
  <2> DEFINE req == Req(path)
  <2>4. "headers" \in DOMAIN req /\ req.headers = << >>
    OBVIOUS
  <2>1. proxy' = [proxy EXCEPT !.pc = "next", !.spoilt = spoilt, !.req = req]
    BY <2>5
  <2> HIDE DEF req
  <2>2. /\ DOMAIN proxy' = ProxyFields /\ proxy'.pc = "next" /\ proxy'.out = proxy.out
        /\ proxy'.r = proxy.r /\ proxy'.o = proxy.o /\ proxy'.k = proxy.k
        /\ "headers" \in DOMAIN proxy'.req /\ proxy'.req.headers = << >>
    BY <1>1, <2>1, <2>4 DEF ProxyFields
  <2> QED
    BY <1>1, <2>2, NoHeaders DEF ProxyHolds, Sending
<1>4. CASE P!read_request_header_parse /\ ~ P!Exit
  <2> DEFINE buf == proxy.r.buf
             colon == P!Colon(buf)
             name == P!Name(buf)
             value == P!Value(buf)
             r1 == [proxy.r EXCEPT !.buf = name]
  <2>0. colon # 0
    BY <1>4, Zenon DEF P!read_request_header_parse
  <2>1. PICK h \in P!StoredHeaders(name, value) : \E spoilt :
            \E hs \in {Append(proxy.req.headers, h), << >>, Append(Append(proxy.req.headers, h), P!Unknown)} :
                proxy' = [proxy EXCEPT !.pc = "next", !.r.buf = name, !.spoilt = spoilt, !.req.headers = hs]
    BY <1>4, Zenon DEF P!read_request_header_parse
  <2>2. colon \in 1 .. Len(buf) /\ Len(buf) \in Nat
    <3> DEFINE at == {i \in DOMAIN buf : P!Has(buf[i], ": ")}
               Least(i) == i \in at /\ \A j \in at : i <= j
    <3>1. IsSeq(buf) /\ DOMAIN buf = 1 .. Len(buf) /\ Len(buf) \in Nat
      BY <1>1, SeqHas DEF Fits
    <3>2. at # {} /\ colon = CHOOSE i \in at : \A j \in at : i <= j
      BY <2>0, Zenon DEF P!Colon
    <3>4. at \subseteq DOMAIN buf
      OBVIOUS
    <3> HIDE DEF at, colon, buf
    <3>3. at \subseteq Nat
      BY <3>1, <3>4
    <3>5. \E i \in at : \A j \in at : i <= j
      BY <3>2, <3>3, NatLeast
    <3>6. colon \in at
      BY <3>2, <3>5
    <3> QED
      BY <3>1, <3>4, <3>6
  <2>3. IsSeq(name) /\ Len(name) = colon
    <3> DEFINE front == SubSeq(buf, 1, colon - 1)
               end == <<P!UpTo(buf[colon], ": ")>>
    <3>1. name = front \o end
      BY DEF P!Name
    <3>2. IsSeq(end) /\ Len(end) = 1
      BY OneIsSeq
    <3> HIDE DEF colon
    <3>3. 1 \in Nat \ {0} /\ colon - 1 \in Int
      BY <2>2
    <3>4. IsSeq(front) /\ Len(front) = IF 1 <= colon - 1 THEN colon - 1 - 1 + 1 ELSE 0
      BY <3>3, PartIsSeq
    <3> HIDE DEF front, end, name
    <3>5. IsSeq(front \o end) /\ Len(front \o end) = Len(front) + 1
      BY <3>2, <3>4, ConcatHas
    <3> QED
      BY <2>2, <3>1, <3>4, <3>5
  <2>4. IsSeq(value)
    <3> HIDE DEF colon
    <3>1. colon + 1 \in Nat \ {0} /\ Len(buf) \in Int
      BY <2>2
    <3> QED
      BY <3>1, PartIsSeq DEF P!Value, colon
  <2> HIDE DEF colon, name, value
  <2>10. PICK spoilt, hs :
             /\ hs \in {Append(proxy.req.headers, h), << >>, Append(Append(proxy.req.headers, h), P!Unknown)}
             /\ proxy' = [proxy EXCEPT !.pc = "next", !.r.buf = name, !.spoilt = spoilt, !.req.headers = hs]
    BY <2>1
  <2>5. AreHeaders(hs)
    <3>1. IsSeq(h.name) /\ IsSeq(h.value)
      BY <2>3, <2>4, StoredIs
    <3>2. AreHeaders(Append(proxy.req.headers, h))
      BY <1>1, <3>1, OneMore
    <3>3. AreHeaders(Append(Append(proxy.req.headers, h), P!Unknown))
      BY <3>2, UnknownIs, OneMore
    <3> QED
      BY <2>10, <3>2, <3>3, NoHeaders
  <2> DEFINE req1 == [proxy.req EXCEPT !.headers = hs]
  <2>6. Fits(r1)
    <3>1. r1.rio = proxy.r.rio /\ r1.buf = name
      BY <1>1
    <3> HIDE DEF r1
    <3>2. Len(buf) < MAXLINE /\ Len(proxy.r.rio) <= RIO_BUFSIZE /\ MAXLINE \in Nat
      BY <1>1, RioAssumption DEF Fits
    <3> HIDE DEF buf
    <3> QED
      BY <2>2, <2>3, <3>1, <3>2 DEF Fits
  <2>7. proxy' = [[[[proxy EXCEPT !.pc = "next"] EXCEPT !.r = r1] EXCEPT !.spoilt = spoilt] EXCEPT !.req = req1]
    BY <2>10, <1>1 DEF ProxyFields
  <2>8. "headers" \in DOMAIN req1 /\ req1.headers = hs
    BY <1>1
  <2> HIDE DEF r1, req1
  <2>9. /\ DOMAIN proxy' = ProxyFields /\ proxy'.pc = "next" /\ proxy'.out = proxy.out
        /\ proxy'.r = r1 /\ proxy'.o = proxy.o /\ proxy'.k = proxy.k /\ proxy'.req = req1
    BY <1>1, <2>7 DEF ProxyFields
  <2> QED
    BY <1>1, <2>5, <2>6, <2>8, <2>9 DEF ProxyHolds, Sending
<1> QED
  BY <1>2, <1>3, <1>4

LEMMA ConnectHolds ==
    ASSUME ServingInv, ArraysInv, P!Open_clientfd
    PROVE  ProxyHolds'
<1>1. /\ DOMAIN proxy = ProxyFields /\ Fits(proxy.o) /\ proxy.k \in Clients \cup {Origin}
      /\ AreHeaders(proxy.req.headers)
  BY DEF ServingInv, ProxyOK, ArraysInv, Sending
<1>2. CASE P!Exit
  BY <1>2, ExitHolds
<1>3. CASE ~ P!Exit
  <2>1. PICK kept \in BOOLEAN : \E spoilt :
            proxy' = [proxy EXCEPT !.pc = "send", !.r = P!rio_readinitb(P!Junk),
                                      !.out = P!RequestLines(proxy.req, kept), !.spoilt = spoilt]
    BY <1>3, Zenon DEF P!Open_clientfd
  <2> DEFINE out == P!RequestLines(proxy.req, kept)
             r == P!rio_readinitb(P!Junk)
  <2>2. Texts(out) /\ out # << >>
    BY <1>1, RequestIsTexts
  <2>3. Fits(r)
    BY FreshFits DEF P!rio_readinitb, P!Junk, Junk
  <2> HIDE DEF out, r
  <2>4. \E spoilt : proxy' = [proxy EXCEPT !.pc = "send", !.r = r, !.out = out, !.spoilt = spoilt]
    BY <2>1 DEF r, out
  <2>5. /\ DOMAIN proxy' = ProxyFields /\ proxy'.r = r /\ proxy'.out = out
        /\ proxy'.o = proxy.o /\ proxy'.k = proxy.k /\ proxy'.req = proxy.req
    BY <1>1, <2>4 DEF ProxyFields
  <2> QED
    BY <1>1, <2>2, <2>3, <2>5, SendsOn
<1> QED
  BY <1>2, <1>3

(* One write of a text, and what follows the last one.                     *)
LEMMA WriteHolds ==
    ASSUME ServingInv, ArraysInv, NEW k, NEW s \in Sides, ConnOK(conn[k]),
           NEW from \in {"send", "reply"}, P!Rio_writen(from, k, s, "forward")
    PROVE  ProxyHolds'
<1>1. /\ DOMAIN proxy = ProxyFields /\ proxy.k \in Clients \cup {Origin}
      /\ proxy.pc = from /\ Texts(proxy.out) /\ proxy.out # << >>
  BY DEF ServingInv, ProxyOK, ArraysInv, Sending, P!Rio_writen, P!At
<1>2. CASE P!Exit
  BY <1>2, ExitHolds
<1>3. CASE ~ P!Exit
  <2>1. PICK x \in rio_writen(conn[k], s, Head(proxy.out)) :
            proxy' = [proxy EXCEPT !.out = (IF x.left = << >> THEN << >> ELSE <<x.left>>) \o Tail(proxy.out),
                          !.pc = IF (IF x.left = << >> THEN << >> ELSE <<x.left>>) \o Tail(proxy.out) = << >>
                                 THEN "forward" ELSE from]
    BY <1>3, ProxyCalls DEF P!Rio_writen
  <2> DEFINE out == (IF x.left = << >> THEN << >> ELSE <<x.left>>) \o Tail(proxy.out)
             pc == IF out = << >> THEN "forward" ELSE from
  <2>2. Texts(out)
    BY <1>1, LeftIsTexts
  <2>3. proxy' = [proxy EXCEPT !.out = out, !.pc = pc]
    BY <2>1
  <2> HIDE DEF out
  <2>4. \/ out = << >> /\ pc = "forward"
        \/ out # << >> /\ pc = from
    OBVIOUS
  <2> HIDE DEF pc
  <2>5. /\ DOMAIN proxy' = ProxyFields /\ proxy'.pc = pc /\ proxy'.out = out
        /\ proxy'.r = proxy.r /\ proxy'.o = proxy.o /\ proxy'.k = proxy.k /\ proxy'.req = proxy.req
    BY <1>1, <2>3 DEF ProxyFields
  <2> QED
    BY <1>1, <2>2, <2>4, <2>5, SendsOn
<1> QED
  BY <1>2, <1>3

LEMMA WritesHold ==
    ASSUME ServingInv, ArraysInv, P!send_request \/ P!forward_response_write
    PROVE  ProxyHolds'
<1>1. ConnsOK /\ (ProxyBusy => ForProxy(proxy.k))
  BY DEF ServingInv, ProxyServes
<1>2. CASE P!send_request
  <2>1. ConnOK(conn[Origin])
    BY <1>1 DEF ConnsOK
  <2> QED
    BY <1>2, <2>1, TwoSides, WriteHolds DEF P!send_request
<1>3. CASE P!forward_response_write
  <2>1. proxy.pc = "reply"
    BY <1>3 DEF P!forward_response_write, P!Rio_writen, P!At
  <2>2. ConnOK(conn[proxy.k])
    BY <1>1, <2>1 DEF ProxyBusy, ForProxy, ConnsOK
  <2> QED
    BY <1>3, <2>2, TwoSides, WriteHolds DEF P!forward_response_write
<1> QED
  BY <1>2, <1>3

LEMMA ForwardHolds ==
    ASSUME ServingInv, ArraysInv, P!forward_response_read
    PROVE  ProxyHolds'
<1>1. /\ DOMAIN proxy = ProxyFields /\ LineOK(proxy.o) /\ ConnOK(conn[Origin])
      /\ Fits(proxy.o) /\ proxy.k \in Clients \cup {Origin}
  BY DEF ServingInv, ProxyOK, ConnsOK, ArraysInv, Sending
<1>2. PICK x \in rio_readlineb(conn[Origin], "client", proxy.o) :
          proxy' = [proxy EXCEPT !.o = x.to.r,
                        !.out = IF x.to.rc = "line" THEN <<x.to.r.buf>> ELSE << >>,
                        !.pc = CASE x.to.rc \in {"more", "error"} -> "forward"
                                 [] x.to.rc = "line" -> "reply"
                                 [] x.to.rc = "eof" -> "close origin"]
  BY ProxyCalls DEF P!forward_response_read
<1>3. Fits(x.to.r) /\ (x.to.rc = "line" => IsSeq(x.to.r.buf) /\ x.to.r.buf # << >>)
  BY <1>1, ReadlineFits, TwoSides
<1>4. x.to.rc \in {"more", "line", "eof", "error"}
  BY <1>1, ReadlineStep, TwoSides DEF ReadlineDone
<1> DEFINE out == IF x.to.rc = "line" THEN <<x.to.r.buf>> ELSE << >>
           pc == CASE x.to.rc \in {"more", "error"} -> "forward"
                   [] x.to.rc = "line" -> "reply"
                   [] x.to.rc = "eof" -> "close origin"
<1>5. \/ out = << >> /\ pc \notin {"send", "reply"}
      \/ Texts(out) /\ out # << >>
  <2>1. CASE x.to.rc = "line"
    <3>1. Texts(<<x.to.r.buf>>) /\ <<x.to.r.buf>> # << >>
      BY <1>3, <2>1, OneText, OneIsSeq
    <3> QED
      BY <2>1, <3>1
  <2>2. CASE x.to.rc # "line"
    BY <1>4, <2>2
  <2> QED
    BY <2>1, <2>2
<1>6. proxy' = [proxy EXCEPT !.o = x.to.r, !.out = out, !.pc = pc]
  BY <1>2
<1> HIDE DEF out, pc
<1>7. /\ DOMAIN proxy' = ProxyFields /\ proxy'.pc = pc /\ proxy'.out = out
      /\ proxy'.r = proxy.r /\ proxy'.o = x.to.r /\ proxy'.k = proxy.k /\ proxy'.req = proxy.req
  BY <1>1, <1>6 DEF ProxyFields
<1> QED
  BY <1>1, <1>3, <1>5, <1>7, SendsOn

LEMMA ClosesHold ==
    ASSUME ServingInv, ArraysInv, P!doit_close \/ P!Close
    PROVE  ProxyHolds'
<1>1. DOMAIN proxy = ProxyFields /\ proxy.k \in Clients \cup {Origin}
  BY DEF ServingInv, ProxyOK, ArraysInv, Sending
<1>2. CASE P!doit_close
  <2>1. /\ DOMAIN proxy' = ProxyFields /\ proxy'.pc = "close" /\ proxy'.out = proxy.out
        /\ proxy'.r = proxy.r /\ proxy'.o = [rio |-> << >>, line |-> << >>, buf |-> Junk]
        /\ proxy'.k = proxy.k /\ proxy'.req = proxy.req
    BY <1>1, <1>2 DEF P!doit_close, ProxyFields, P!rio_readinitb, P!Junk, Junk
  <2> QED
    BY <1>1, <2>1, FreshFits, SendsOn
<1>3. CASE P!Close
  <2>1. /\ DOMAIN proxy' = ProxyFields /\ proxy'.pc = "accept" /\ proxy'.out = proxy.out
        /\ proxy'.r = proxy.r /\ proxy'.o = proxy.o
        /\ proxy'.k = proxy.k /\ proxy'.req = P!NoRequest
    BY <1>1, <1>3 DEF P!Close, ProxyFields
  <2>2. "headers" \in DOMAIN P!NoRequest /\ AreHeaders(P!NoRequest.headers)
    BY NoHeaders DEF P!NoRequest
  <2> QED
    BY <1>1, <2>1, <2>2 DEF ProxyHolds, Sending, ArraysInv
<1> QED
  BY <1>2, <1>3

LEMMA ProxyKeepsArrays ==
    ASSUME ServingInv, ArraysInv, P!main
    PROVE  ProxyHolds'
<1>1. CASE P!Accept
  BY <1>1, AcceptHolds
<1>2. CASE P!read_request_line \/ P!read_request \/ P!read_request_header
  BY <1>2, ReadsHold
<1>3. CASE P!read_request_line_parse \/ P!read_request_header_parse
  BY <1>3, ParsesHold
<1>4. CASE P!Open_clientfd
  BY <1>4, ConnectHolds
<1>5. CASE P!send_request \/ P!forward_response_write
  BY <1>5, WritesHold
<1>6. CASE P!forward_response_read
  BY <1>6, ForwardHolds
<1>7. CASE P!doit_close \/ P!Close
  BY <1>7, ClosesHold
<1>8. CASE P!overrun
  BY <1>8, ExitHolds DEF P!overrun
<1> QED
  BY <1>1, <1>2, <1>3, <1>4, <1>5, <1>6, <1>7, <1>8 DEF P!main, P!doit

-----------------------------------------------------------------------------
(* So does each step of Tiny.                                              *)

LEMMA TinyReadsFit ==
    ASSUME ServingInv, ArraysInv, T!doit_readrequest \/ T!read_requesthdrs
    PROVE  Fits(tiny'.r) /\ files' = files
<1>1. tiny.pc \in {"request line", "headers"} /\ TinyOK /\ Fits(tiny.r)
  BY DEF T!doit_readrequest, T!read_requesthdrs, T!Rio_readlineb, T!At, ServingInv, ArraysInv
<1>2. ConnOK(conn[tiny.k]) /\ LineOK(tiny.r) /\ DOMAIN tiny = TinyFields
  BY <1>1, TinyServesIts DEF TinyOK, TinyBusy
<1>3. PICK x \in rio_readlineb(conn[tiny.k], "server", tiny.r) :
          \/ T!Exit(x.c)
          \/ files' = files /\ \E pc : tiny' = [tiny EXCEPT !.r = x.to.r, !.pc = pc]
  BY TinyCalls DEF T!doit_readrequest, T!read_requesthdrs, T!Rio_readlineb, T!Fd
<1>4. Fits(x.to.r)
  BY <1>1, <1>2, ReadlineFits, TwoSides
<1>5. CASE T!Exit(x.c)
  BY <1>1, <1>2, <1>5 DEF T!Exit, TinyFields
<1>6. CASE files' = files /\ \E pc : tiny' = [tiny EXCEPT !.r = x.to.r, !.pc = pc]
  <2>1. tiny'.r = x.to.r
    BY <1>2, <1>6 DEF TinyFields
  <2> QED
    BY <1>4, <1>6, <2>1
<1> QED
  BY <1>3, <1>5, <1>6

LEMMA TinyParseFits ==
    ASSUME ServingInv, ArraysInv, T!doit_parserequest
    PROVE  Fits(tiny'.r) /\ files' = files
<1>1. TinyOK /\ Fits(tiny.r) /\ DOMAIN tiny = TinyFields /\ DOMAIN tiny.r = {"rio", "line", "buf"}
  BY DEF ServingInv, ArraysInv, TinyOK, LineOK
<1>2. PICK method, uri, pc, out :
          tiny' = [tiny EXCEPT !.method = method, !.uri = uri, !.r.buf = Junk,
                       !.pc = pc, !.out = out, !.then = "close"]
  BY ParseIs
<1> DEFINE r1 == [tiny.r EXCEPT !.buf = Junk]
<1>3. tiny' = [[[[[[tiny EXCEPT !.method = method] EXCEPT !.uri = uri] EXCEPT !.r = r1]
                    EXCEPT !.pc = pc] EXCEPT !.out = out] EXCEPT !.then = "close"]
  BY <1>1, <1>2 DEF TinyFields
<1>4. r1.rio = tiny.r.rio /\ r1.buf = Junk
  BY <1>1
<1> HIDE DEF r1
<1>5. tiny'.r = r1
  BY <1>1, <1>3 DEF TinyFields
<1>6. IsSeq(Junk) /\ Len(Junk) = 1 /\ MAXLINE \in Nat /\ MAXLINE > 1
  BY OneIsSeq, RioAssumption DEF Junk
<1>7. Fits(r1)
  BY <1>1, <1>4, <1>6 DEF Fits
<1>8. files' = files
  BY DEF T!doit_parserequest
<1> QED
  BY <1>5, <1>7, <1>8

LEMMA TinyKeepsArrays ==
    ASSUME ServingInv, ArraysInv, T!main \/ T!adder_write
    PROVE  Fits(tiny'.r) /\ files' = files
<1>1. DOMAIN tiny = TinyFields /\ Fits(tiny.r)
  BY DEF ServingInv, TinyOK, ArraysInv
<1>2. CASE T!Accept \/ T!Close
  <2>1. tiny'.r = [rio |-> << >>, line |-> << >>, buf |-> Junk] /\ files' = files
    BY <1>1, <1>2 DEF T!Accept, T!Close, TinyFields, T!rio_readinitb, T!Junk, Junk
  <2> QED
    BY <2>1, FreshFits
<1>3. CASE T!doit_readrequest \/ T!read_requesthdrs
  BY <1>3, TinyReadsFit
<1>4. CASE T!doit_parserequest
  BY <1>4, TinyParseFits
<1>5. ASSUME NEW fd, T!Exit(fd)
      PROVE  tiny'.r = tiny.r /\ files' = files
  BY <1>1, <1>5 DEF T!Exit, TinyFields
<1>6. CASE T!Rio_writen \/ T!adder_write
  <2>1. \/ \E fd : T!Exit(fd)
        \/ /\ files' = files
           /\ \E out : \/ tiny' = [tiny EXCEPT !.out = out]
                       \/ tiny' = [tiny EXCEPT !.out = out, !.pc = IF out = << >> THEN tiny.then ELSE "write"]
    BY <1>6 DEF T!Rio_writen, T!adder_write
  <2>2. tiny'.r = tiny.r /\ files' = files
    BY <1>1, <1>5, <2>1 DEF TinyFields
  <2> QED
    BY <1>1, <2>2
<1>7. CASE T!read_requesthdrs_eof
  <2>1. tiny'.r = tiny.r /\ files' = files
    BY <1>1, <1>7 DEF T!read_requesthdrs_eof, TinyFields
  <2> QED
    BY <1>1, <2>1
<1>8. CASE T!doit_serve
  <2>1. PICK out, then, uri, filename, cgiargs :
            tiny' = [tiny EXCEPT !.pc = "write", !.out = out, !.then = then,
                         !.uri = uri, !.filename = filename, !.cgiargs = cgiargs]
    BY <1>8, Zenon DEF T!doit_serve
  <2>2. tiny'.r = tiny.r
    BY <1>1, <2>1 DEF TinyFields
  <2>3. files' = files
    BY <1>8 DEF T!doit_serve
  <2> QED
    BY <1>1, <2>2, <2>3
<1>9. CASE T!serve_static_body
  <2>1. \/ T!Exit(T!Fd)
        \/ files' = files /\ \E out : tiny' = [tiny EXCEPT !.pc = "write", !.then = "close", !.out = out]
    BY <1>9, Zenon DEF T!serve_static_body
  <2>2. tiny'.r = tiny.r /\ files' = files
    BY <1>1, <1>5, <2>1 DEF TinyFields
  <2> QED
    BY <1>1, <2>2
<1>10. CASE T!serve_dynamic_fork \/ T!serve_dynamic_wait
  <2>1. PICK pc, out : tiny' = [tiny EXCEPT !.pc = pc, !.out = out]
    BY <1>10, Zenon DEF T!serve_dynamic_fork, T!serve_dynamic_wait
  <2>2. tiny'.r = tiny.r /\ files' = files
    BY <1>1, <1>10, <2>1 DEF T!serve_dynamic_fork, T!serve_dynamic_wait, TinyFields
  <2> QED
    BY <1>1, <2>2
<1> QED
  BY <1>2, <1>3, <1>4, <1>6, <1>7, <1>8, <1>9, <1>10 DEF T!main, T!doit

-----------------------------------------------------------------------------
(* The arrays stay in order.                                               *)

LEMMA ArraysStart ==
    ASSUME Init
    PROVE  ArraysInv
<1>1. /\ proxy = [pc |-> "accept", was |-> "accept", k |-> Origin,
                  r |-> P!rio_readinitb(P!Junk), o |-> P!rio_readinitb(P!Junk), out |-> << >>,
                  req |-> P!NoRequest, spoilt |-> FALSE]
      /\ tiny.r = T!rio_readinitb(T!Junk) /\ files = DOMAIN Files
  BY DEF Init, P!Init, T!Init
<1>2. /\ proxy.r = [rio |-> << >>, line |-> << >>, buf |-> Junk] /\ proxy.o = proxy.r
      /\ tiny.r = [rio |-> << >>, line |-> << >>, buf |-> Junk]
  BY <1>1 DEF P!rio_readinitb, P!Junk, T!rio_readinitb, T!Junk, Junk
<1>3. "headers" \in DOMAIN P!NoRequest /\ AreHeaders(P!NoRequest.headers)
  BY NoHeaders DEF P!NoRequest
<1>4. proxy.pc = "accept" /\ proxy.k = Origin /\ proxy.out = << >> /\ proxy.req = P!NoRequest
  BY <1>1
<1>5. Sending
  BY <1>3, <1>4, NoText DEF Sending
<1> QED
  BY <1>1, <1>2, <1>5, FreshFits DEF ArraysInv

LEMMA ArraysKeep ==
    ASSUME ServingInv, ArraysInv, [Next]_vars
    PROVE  ArraysInv'
<1>1. CASE ProxyStep
  <2>1. ProxyHolds' /\ tiny' = tiny /\ files' = files
    BY <1>1, ProxyKeepsArrays DEF ProxyStep
  <2> QED
    BY <2>1 DEF ProxyHolds, ArraysInv
<1>2. CASE TinyStep \/ ChildStep
  <2>1. Fits(tiny'.r) /\ files' = files /\ proxy' = proxy
    BY <1>2, TinyKeepsArrays DEF TinyStep, ChildStep
  <2> QED
    BY <2>1 DEF ArraysInv, Sending
<1>3. CASE Vanish
  <2>1. files' \subseteq files /\ proxy' = proxy /\ tiny' = tiny
    BY <1>3 DEF Vanish, T!Unlink
  <2> QED
    BY <2>1 DEF ArraysInv, Sending
<1>4. CASE (\E c \in Clients : Connect(c) \/ Leave(c)) \/ UNCHANGED vars
  <2>1. proxy' = proxy /\ tiny' = tiny /\ files' = files
    BY <1>4 DEF Connect, Leave, vars
  <2> QED
    BY <2>1 DEF ArraysInv, Sending
<1> QED
  BY <1>1, <1>2, <1>3, <1>4 DEF Next

LEMMA QueueIsTyped ==
    ASSUME NEW q, NEW S, IsSeq(q), \A e \in Range(q) : e \in S
    PROVE  q \in Seq(S)
<1>1. PICK R : q \in Seq(R)
  BY DEF IsSeq
<1>2. Len(q) \in Nat /\ q \in [1 .. Len(q) -> R] /\ DOMAIN q = 1 .. Len(q)
  BY <1>1, SeqDef, LenProperties
<1>3. \A i \in 1 .. Len(q) : q[i] \in S
  BY <1>2 DEF Range
<1>4. q \in [1 .. Len(q) -> S]
  BY <1>2, <1>3
<1> QED
  BY <1>2, <1>4, SeqDef

LEMMA TypesFollow ==
    ASSUME ServingInv, ArraysInv
    PROVE  ServingTypeOK
<1>1. /\ ConnsOK /\ ProxyOK /\ TinyOK /\ ClientsOK /\ ProxyServes /\ TinyServes
      /\ Fits(proxy.r) /\ Fits(proxy.o) /\ Fits(tiny.r) /\ Sending /\ files \subseteq DOMAIN Files
  BY DEF ServingInv, ArraysInv
<1>2. ASSUME NEW k \in Clients \cup {Origin}
      PROVE  /\ DOMAIN conn[k].data = Sides /\ DOMAIN conn[k].peer = Sides
             /\ \A s \in Sides : conn[k].peer[s] \in PeerStates /\ conn[k].lost[s] \in BOOLEAN
             /\ conn[k].room \in Nat
  BY <1>1 DEF ConnsOK, ConnOK
<1>3. proxyQueue \in Seq(Clients)
  <2>1. IsSeq(proxyQueue) /\ \A e \in Range(proxyQueue) : e \in Clients
    BY <1>1 DEF ProxyServes, ForProxy
  <2> QED
    BY <2>1, QueueIsTyped
<1>4. tinyQueue \in Seq(Clients \cup {Origin})
  <2>1. IsSeq(tinyQueue) /\ \A e \in Range(tinyQueue) : e \in Clients \cup {Origin}
    BY <1>1 DEF TinyServes, ForTiny
  <2> QED
    BY <2>1, QueueIsTyped
<1>5. ReaderOK(proxy.r) /\ ReaderOK(proxy.o) /\ ReaderOK(tiny.r)
  BY <1>1 DEF ReaderOK, Fits, LineOK, ProxyOK, TinyOK
<1>6. /\ \A i \in DOMAIN proxy.out : proxy.out[i] # << >>
      /\ proxy.k \in Clients \cup {Origin}
  BY <1>1 DEF Sending, Texts
<1>7. state \in [Clients -> {"new", "connected", "left", "refused"}]
  BY <1>1 DEF ClientsOK
<1> QED
  BY <1>1, <1>2, <1>3, <1>4, <1>5, <1>6, <1>7 DEF ServingTypeOK

(* The two buffers of the proxy and the one of Tiny never hold more than   *)
(* their arrays do, whatever arrives and however it is cut up; no call of  *)
(* Rio_writen is made with nothing to write; and the programs' queues hold *)
(* connections only.                                                       *)
THEOREM ServingTypeCorrect == Spec => []ServingTypeOK
<1> DEFINE Inv == ServingInv /\ ArraysInv
<1>1. Init => Inv
  BY StartsRight, ArraysStart
<1>2. Inv /\ [Next]_vars => Inv'
  BY NextKeeps, ArraysKeep
<1>3. Inv => ServingTypeOK
  BY TypesFollow
<1> QED
  BY <1>1, <1>2, <1>3, PTL DEF Spec

-----------------------------------------------------------------------------
(* What ends the servers.  A server's side of a connection finds out       *)
(* something about the other one only when that has gone.                  *)

PeersTrue ==
    /\ \A c \in Clients : conn[c].peer["server"] # "open" => state[c] = "left"
    /\ (OriginWaits \/ OriginServed) /\ conn[Origin].peer["server"] # "open" => proxy.pc = "down"

NoFile == tiny.filename \notin files \/ Files[tiny.filename].body = << >>

TinyFate ==
    /\ tiny.pc \in {"header eof", "loop"} => Gone(tiny.k)
    /\ tiny.pc = "down" => /\ tiny.k \in Clients \cup {Origin}
                           /\ Gone(tiny.k) \/ (tiny.was = "map" /\ NoFile)

ProxyFate ==
    proxy.pc = "down" => proxy.k \in Clients /\ (Excused \/ Unreadable \/ Unreachable \/ Overrun)

(* A step of Tiny does not change what it knows of a peer that is there,   *)
(* nor a connection that is not its own; and how it gets to a bad end.     *)
KnowsPeers ==
    \A k \in Clients \cup {Origin} :
        /\ conn[k].peer["server"] = "open" => conn'[k].peer["server"] = "open"
        /\ (~ TinyBusy \/ k # tiny.k) /\ k \notin Range(tinyQueue) => conn'[k] = conn[k]

TinyGoes ==
    /\ tiny'.pc = "header eof" => conn[tiny.k].peer["server"] # "open"
    /\ tiny'.pc = "loop" => tiny.pc = "header eof"
    /\ tiny'.pc = "down" => conn[tiny.k].peer["server"] # "open" \/ (tiny'.was = "map" /\ NoFile')

LEMMA ServedKnown ==
    ASSUME ServingInv, TinyBusy, NEW c, conn' = [conn EXCEPT ![tiny.k] = c],
           conn[tiny.k].peer["server"] = "open" => c.peer["server"] = "open"
    PROVE  KnowsPeers
BY TinyServesIts DEF KnowsPeers, ServingInv, ConnsOK

LEMMA ExitKnown ==
    ASSUME ServingInv, TinyBusy, NEW fd, T!Exit(fd), ConnOK(fd),
           fd.peer["server"] = "open" \/ conn[tiny.k].peer["server"] # "open"
    PROVE  /\ KnowsPeers /\ tiny'.pc = "down" /\ tiny'.was = tiny.pc /\ tiny'.k = tiny.k
           /\ tiny'.filename = tiny.filename /\ files' = files
<1>1. PICK c \in CloseOutcomes(fd, "server") :
          conn' = [k \in DOMAIN conn |->
                       CASE k = tiny.k -> c
                         [] k \in Range(tinyQueue) -> CHOOSE d \in CloseOutcomes(conn[k], "server") : TRUE
                         [] OTHER -> conn[k]]
  BY DEF T!Exit, T!Range, Range, T!CloseOutcomes, CloseOutcomes, T!Other, Other,
         T!Prefixes, Prefixes
<1>2. /\ tiny'.pc = "down" /\ tiny'.was = tiny.pc /\ tiny'.k = tiny.k
      /\ tiny'.filename = tiny.filename /\ files' = files
  BY DEF T!Exit, ServingInv, TinyOK, TinyFields
<1>3. ConnsOK
  BY DEF ServingInv
<1>4. CloseDone(fd, "server", c)
  BY CloseStep, TwoSides
<1> DEFINE Shut(k) == CHOOSE d \in CloseOutcomes(conn[k], "server") : TRUE
<1>5. ASSUME NEW k \in Clients \cup {Origin}
      PROVE  /\ conn[k].peer["server"] = "open" => conn'[k].peer["server"] = "open"
             /\ k # tiny.k /\ k \notin Range(tinyQueue) => conn'[k] = conn[k]
  <2>1. k \in DOMAIN conn /\ ConnOK(conn[k])
    BY <1>3 DEF ConnsOK
  <2>2. CloseDone(conn[k], "server", Shut(k))
    <3> DEFINE d == Shut(k)
    <3>1. d \in CloseOutcomes(conn[k], "server")
      BY <2>1, CloseEnds, TwoSides
    <3> QED
      BY <2>1, <3>1, CloseStep, TwoSides
  <2>3. conn'[k] = CASE k = tiny.k -> c
                     [] k \in Range(tinyQueue) -> Shut(k)
                     [] OTHER -> conn[k]
    BY <1>1, <2>1
  <2> HIDE DEF Shut
  <2>4. \/ k = tiny.k /\ conn'[k] = c
        \/ (k = tiny.k \/ k \in Range(tinyQueue)) /\ conn'[k] = Shut(k)
        \/ conn'[k] = conn[k]
    <3>1. CASE k = tiny.k
      BY <2>3, <3>1
    <3>2. CASE k # tiny.k /\ k \in Range(tinyQueue)
      BY <2>3, <3>2
    <3>3. CASE k # tiny.k /\ k \notin Range(tinyQueue)
      BY <2>3, <3>3
    <3> QED
      BY <3>1, <3>2, <3>3
  <2> QED
    BY <1>4, <2>2, <2>4 DEF CloseDone
<1> QED
  BY <1>2, <1>5 DEF KnowsPeers

LEMMA TinyReadsOn ==
    ASSUME ServingInv, T!doit_readrequest \/ T!read_requesthdrs
    PROVE  KnowsPeers /\ TinyGoes /\ tiny'.k = tiny.k /\ files' = files
<1>1. tiny.pc \in {"request line", "headers"}
  BY DEF T!doit_readrequest, T!read_requesthdrs, T!Rio_readlineb, T!At
<1>2. TinyBusy /\ TinyOK
  BY <1>1 DEF TinyBusy, ServingInv
<1>3. ConnOK(conn[tiny.k]) /\ LineOK(tiny.r) /\ tiny.k \in Clients \cup {Origin} /\ DOMAIN tiny = TinyFields
  BY <1>2, TinyServesIts DEF TinyOK
<1> DEFINE Reads(x, pc) ==
               /\ x.to.rc # "error" /\ files' = files
               /\ conn' = [conn EXCEPT ![tiny.k] = x.c]
               /\ tiny' = [tiny EXCEPT !.r = x.to.r, !.pc = pc]
               /\ pc \in {"request line", "parse", "close", "headers", "serve", "header eof"}
               /\ pc = "header eof" => x.to.rc = "eof"
<1>4. PICK x \in rio_readlineb(conn[tiny.k], "server", tiny.r) :
          \/ x.to.rc = "error" /\ T!Exit(x.c)
          \/ x.to.rc \notin {"more", "line", "eof", "error"}
          \/ \E pc : Reads(x, pc)
  <2>1. CASE T!doit_readrequest
    <3>1. PICK x \in rio_readlineb(conn[tiny.k], "server", tiny.r) :
              \/ x.to.rc = "error" /\ T!Exit(x.c)
              \/ /\ x.to.rc # "error" /\ files' = files
                 /\ conn' = [conn EXCEPT ![tiny.k] = x.c]
                 /\ tiny' = [tiny EXCEPT !.r = x.to.r,
                                 !.pc = CASE x.to.rc = "more" -> "request line"
                                          [] x.to.rc = "line" -> "parse"
                                          [] x.to.rc = "eof"  -> "close"]
      BY <2>1, TinyCalls DEF T!doit_readrequest, T!Rio_readlineb, T!Fd
    <3> DEFINE pc == CASE x.to.rc = "more" -> "request line"
                       [] x.to.rc = "line" -> "parse"
                       [] x.to.rc = "eof"  -> "close"
    <3>2. x.to.rc \in {"more", "line", "eof"} => pc \in {"request line", "parse", "close"}
      OBVIOUS
    <3>3. \/ x.to.rc = "error" /\ T!Exit(x.c)
          \/ /\ x.to.rc # "error" /\ files' = files
             /\ conn' = [conn EXCEPT ![tiny.k] = x.c]
             /\ tiny' = [tiny EXCEPT !.r = x.to.r, !.pc = pc]
      BY <3>1
    <3> HIDE DEF pc
    <3>4. x.to.rc \in {"more", "line", "eof"} => (x.to.rc = "error" /\ T!Exit(x.c)) \/ Reads(x, pc)
      BY <3>2, <3>3
    <3> QED
      BY <3>3, <3>4
  <2>2. CASE T!read_requesthdrs
    <3>1. PICK x \in rio_readlineb(conn[tiny.k], "server", tiny.r) :
              \/ x.to.rc = "error" /\ T!Exit(x.c)
              \/ /\ x.to.rc # "error" /\ files' = files
                 /\ conn' = [conn EXCEPT ![tiny.k] = x.c]
                 /\ tiny' = [tiny EXCEPT !.r = x.to.r,
                                 !.pc = CASE x.to.rc = "more" -> "headers"
                                          [] x.to.rc = "line" ->
                                                 IF x.to.r.buf = <<T!NL>> THEN "serve" ELSE "headers"
                                          [] x.to.rc = "eof"  -> "header eof"]
      BY <2>2, TinyCalls DEF T!read_requesthdrs, T!Rio_readlineb, T!Fd
    <3> DEFINE pc == CASE x.to.rc = "more" -> "headers"
                       [] x.to.rc = "line" -> IF x.to.r.buf = <<T!NL>> THEN "serve" ELSE "headers"
                       [] x.to.rc = "eof"  -> "header eof"
    <3>2. x.to.rc \in {"more", "line", "eof"} =>
              /\ pc \in {"headers", "serve", "header eof"}
              /\ pc = "header eof" => x.to.rc = "eof"
      OBVIOUS
    <3>3. \/ x.to.rc = "error" /\ T!Exit(x.c)
          \/ /\ x.to.rc # "error" /\ files' = files
             /\ conn' = [conn EXCEPT ![tiny.k] = x.c]
             /\ tiny' = [tiny EXCEPT !.r = x.to.r, !.pc = pc]
      BY <3>1
    <3> HIDE DEF pc
    <3>4. x.to.rc \in {"more", "line", "eof"} => (x.to.rc = "error" /\ T!Exit(x.c)) \/ Reads(x, pc)
      BY <3>2, <3>3
    <3> QED
      BY <3>3, <3>4
  <2> QED
    BY <2>1, <2>2
<1>5. ReadlineDone(conn[tiny.k], "server", tiny.r, x)
  BY <1>3, ReadlineStep, TwoSides
<1>6. /\ ConnOK(x.c) /\ x.to.rc \in {"more", "line", "eof", "error"}
      /\ x.to.rc = "error" => conn[tiny.k].peer["server"] = "reset"
      /\ x.to.rc = "eof" => conn[tiny.k].peer["server"] # "open"
      /\ x.to.rc # "error" => x.c.peer["server"] = conn[tiny.k].peer["server"]
  BY <1>5 DEF ReadlineDone
<1>7. CASE x.to.rc = "error" /\ T!Exit(x.c)
  <2>1. conn[tiny.k].peer["server"] # "open" /\ T!Exit(x.c)
    BY <1>6, <1>7
  <2>2. KnowsPeers /\ tiny'.pc = "down" /\ tiny'.k = tiny.k /\ files' = files
    BY <1>2, <1>6, <2>1, ExitKnown
  <2> QED
    BY <2>1, <2>2 DEF TinyGoes
<1>8. CASE \E pc : Reads(x, pc)
  <2>1. PICK pc : Reads(x, pc)
    BY <1>8
  <2>2. tiny'.pc = pc /\ tiny'.k = tiny.k
    BY <1>3, <2>1 DEF TinyFields
  <2>3. KnowsPeers
    BY <1>2, <1>6, <2>1, ServedKnown
  <2>4. TinyGoes
    BY <1>6, <2>1, <2>2 DEF TinyGoes
  <2> QED
    BY <2>1, <2>2, <2>3, <2>4
<1> QED
  BY <1>4, <1>6, <1>7, <1>8

LEMMA TinyWritesOn ==
    ASSUME ServingInv, T!Rio_writen \/ T!adder_write
    PROVE  KnowsPeers /\ TinyGoes /\ tiny'.k = tiny.k /\ files' = files
<1>1. tiny.pc \in {"write", "wait"}
  BY DEF T!Rio_writen, T!adder_write, T!Child, T!At
<1>2. TinyBusy /\ TinyOK
  BY <1>1 DEF TinyBusy, ServingInv
<1>3. ConnOK(conn[tiny.k]) /\ tiny.k \in Clients \cup {Origin} /\ DOMAIN tiny = TinyFields
      /\ tiny.then \in {"close", "map", "fork"}
  BY <1>2, TinyServesIts DEF TinyOK
<1>4. PICK x \in rio_writen(conn[tiny.k], "server", Head(tiny.out)) :
          \/ x.errno # "OK" /\ T!Exit(x.c)
          \/ /\ conn' = [conn EXCEPT ![tiny.k] = x.c] /\ files' = files
             /\ \E out : \/ tiny' = [tiny EXCEPT !.out = out]
                         \/ tiny' = [tiny EXCEPT !.out = out, !.pc = IF out = << >> THEN tiny.then ELSE "write"]
  <2>1. CASE T!Rio_writen
    BY <2>1, TinyCalls DEF T!Rio_writen, T!Fd
  <2>2. CASE T!adder_write
    BY <2>2, TinyCalls DEF T!adder_write, T!Fd
  <2> QED
    BY <2>1, <2>2
<1>5. /\ ConnOK(x.c)
      /\ conn[tiny.k].peer["server"] = "open" => x.c.peer["server"] = "open" /\ x.errno = "OK"
  BY <1>3, WriteStep, TwoSides DEF WriteDone
<1>6. CASE x.errno # "OK" /\ T!Exit(x.c)
  <2>1. conn[tiny.k].peer["server"] # "open" /\ T!Exit(x.c)
    BY <1>5, <1>6
  <2>2. KnowsPeers /\ tiny'.pc = "down" /\ tiny'.k = tiny.k /\ files' = files
    BY <1>2, <1>5, <2>1, ExitKnown
  <2> QED
    BY <2>1, <2>2 DEF TinyGoes
<1>7. CASE /\ conn' = [conn EXCEPT ![tiny.k] = x.c] /\ files' = files
           /\ \E out : \/ tiny' = [tiny EXCEPT !.out = out]
                       \/ tiny' = [tiny EXCEPT !.out = out, !.pc = IF out = << >> THEN tiny.then ELSE "write"]
  <2>1. tiny'.k = tiny.k /\ tiny'.pc \in {tiny.pc, tiny.then, "write"}
    BY <1>3, <1>7 DEF TinyFields
  <2>2. KnowsPeers
    BY <1>2, <1>5, <1>7, ServedKnown
  <2>3. TinyGoes
    BY <1>1, <1>3, <2>1 DEF TinyGoes
  <2> QED
    BY <1>7, <2>1, <2>2, <2>3
<1> QED
  BY <1>4, <1>6, <1>7

(* The steps in which nothing is read or written.                          *)
LEMMA TinyWorksOn ==
    ASSUME ServingInv,
           \/ T!doit_parserequest
           \/ T!read_requesthdrs_eof
           \/ T!doit_serve
           \/ T!serve_static_body
           \/ T!serve_dynamic_fork
           \/ T!serve_dynamic_wait
    PROVE  KnowsPeers /\ TinyGoes /\ tiny'.k = tiny.k /\ files' = files
<1>1. tiny.pc \in {"parse", "header eof", "serve", "map", "fork", "wait"}
  BY DEF T!doit_parserequest, T!read_requesthdrs_eof, T!doit_serve, T!serve_static_body,
         T!serve_dynamic_fork, T!serve_dynamic_wait, T!At
<1>2. TinyBusy /\ DOMAIN tiny = TinyFields
  BY <1>1 DEF TinyBusy, ServingInv, TinyOK
<1>3. ASSUME conn' = conn
      PROVE  KnowsPeers
  BY <1>3 DEF KnowsPeers
<1>4. CASE T!doit_parserequest
  <2>1. PICK method, uri : tiny' = [tiny EXCEPT !.method = method, !.uri = uri, !.r.buf = T!Junk,
                            !.pc = IF method = <<"GET">> THEN "headers" ELSE "write",
                            !.out = IF method = <<"GET">> THEN << >> ELSE T!clienterror("501 Not Implemented"),
                            !.then = "close"]
    BY <1>4, Zenon DEF T!doit_parserequest
  <2> DEFINE pc == IF method = <<"GET">> THEN "headers" ELSE "write"
             out == IF method = <<"GET">> THEN << >> ELSE T!clienterror("501 Not Implemented")
             junk == T!Junk
             r1 == [tiny.r EXCEPT !.buf = junk]
  <2>2. tiny' = [tiny EXCEPT !.method = method, !.uri = uri, !.r.buf = junk,
                     !.pc = pc, !.out = out, !.then = "close"]
    BY <2>1, Zenon
  <2>3. pc \in {"headers", "write"}
    OBVIOUS
  <2> HIDE DEF pc, out, junk
  <2>4. tiny' = [[[[[[tiny EXCEPT !.method = method] EXCEPT !.uri = uri] EXCEPT !.r = r1]
                      EXCEPT !.pc = pc] EXCEPT !.out = out] EXCEPT !.then = "close"]
    BY <1>2, <2>2 DEF TinyFields
  <2> HIDE DEF r1
  <2>5. tiny'.k = tiny.k /\ tiny'.pc = pc
    BY <1>2, <2>4 DEF TinyFields
  <2>6. conn' = conn /\ files' = files
    BY <1>4 DEF T!doit_parserequest
  <2> QED
    BY <1>3, <2>3, <2>5, <2>6 DEF TinyGoes
<1>5. CASE T!read_requesthdrs_eof
  <2>1. /\ tiny.pc = "header eof" /\ tiny'.k = tiny.k /\ tiny'.pc \in {"loop", "serve"}
        /\ conn' = conn /\ files' = files
    BY <1>2, <1>5 DEF T!read_requesthdrs_eof, T!At, TinyFields
  <2> QED
    BY <1>3, <2>1 DEF TinyGoes
<1>6. CASE T!doit_serve
  <2>1. PICK out, then, uri, filename, cgiargs :
            tiny' = [tiny EXCEPT !.pc = "write", !.out = out, !.then = then,
                         !.uri = uri, !.filename = filename, !.cgiargs = cgiargs]
    BY <1>6, Zenon DEF T!doit_serve
  <2>2. tiny'.k = tiny.k /\ tiny'.pc = "write"
    BY <1>2, <2>1 DEF TinyFields
  <2>3. conn' = conn /\ files' = files
    BY <1>6 DEF T!doit_serve
  <2> QED
    BY <1>3, <2>2, <2>3 DEF TinyGoes
<1>7. CASE T!serve_static_body
  <2>1. \/ T!Exit(T!Fd) /\ NoFile
        \/ /\ conn' = conn /\ files' = files
           /\ \E out : tiny' = [tiny EXCEPT !.pc = "write", !.then = "close", !.out = out]
    BY <1>7, Zenon DEF T!serve_static_body, NoFile
  <2>2. CASE T!Exit(T!Fd) /\ NoFile
    <3>1. T!Fd = conn[tiny.k] /\ ConnOK(conn[tiny.k])
      BY <1>2, TinyServesIts DEF T!Fd
    <3>2. T!Exit(conn[tiny.k])
      BY <2>2, <3>1
    <3>3. KnowsPeers /\ tiny'.k = tiny.k /\ tiny'.filename = tiny.filename /\ files' = files
          /\ tiny'.pc = "down" /\ tiny'.was = "map"
      BY <1>2, <1>7, <3>1, <3>2, ExitKnown DEF T!serve_static_body, T!At
    <3>4. NoFile'
      BY <2>2, <3>3 DEF NoFile
    <3> QED
      BY <3>3, <3>4 DEF TinyGoes
  <2>3. CASE ~ (T!Exit(T!Fd) /\ NoFile)
    <3>1. tiny'.k = tiny.k /\ tiny'.pc = "write" /\ conn' = conn /\ files' = files
      BY <1>2, <2>1, <2>3 DEF TinyFields
    <3> QED
      BY <1>3, <3>1 DEF TinyGoes
  <2> QED
    BY <2>2, <2>3
<1>8. CASE T!serve_dynamic_fork \/ T!serve_dynamic_wait
  <2>1. PICK pc \in {"wait", "close"} : \E out : tiny' = [tiny EXCEPT !.pc = pc, !.out = out]
    BY <1>8, Zenon DEF T!serve_dynamic_fork, T!serve_dynamic_wait
  <2>2. tiny'.k = tiny.k /\ tiny'.pc = pc
    BY <1>2, <2>1 DEF TinyFields
  <2>3. conn' = conn /\ files' = files
    BY <1>8 DEF T!serve_dynamic_fork, T!serve_dynamic_wait
  <2> QED
    BY <1>3, <2>2, <2>3 DEF TinyGoes
<1> QED
  BY <1>4, <1>5, <1>6, <1>7, <1>8

LEMMA TinyGoesOn ==
    ASSUME ServingInv, T!main \/ T!adder_write
    PROVE  /\ KnowsPeers /\ files' = files
           /\ \/ TinyGoes /\ tiny'.k = tiny.k
              \/ tiny'.pc \in {"request line", "accept"}
<1>1. DOMAIN tiny = TinyFields
  BY DEF ServingInv, TinyOK
<1>2. CASE T!Accept
  <2>1. tiny'.pc = "request line" /\ conn' = conn /\ files' = files
    BY <1>1, <1>2 DEF T!Accept, TinyFields
  <2> QED
    BY <2>1 DEF KnowsPeers
<1>3. CASE T!Close
  <2>1. tiny.pc = "close"
    BY <1>3 DEF T!Close, T!At
  <2>2. tiny.k \in Clients \cup {Origin} /\ ConnOK(conn[tiny.k])
    BY <2>1, TinyServesIts DEF TinyBusy
  <2>3. PICK c \in CloseOutcomes(conn[tiny.k], "server") : conn' = [conn EXCEPT ![tiny.k] = c]
    BY <1>3, TinyCalls DEF T!Close, T!Fd
  <2>4. CloseDone(conn[tiny.k], "server", c)
    BY <2>2, CloseStep, TwoSides
  <2>5. KnowsPeers
    BY <2>1, <2>3, <2>4, ServedKnown DEF CloseDone, TinyBusy
  <2>6. tiny'.pc = "accept" /\ files' = files
    BY <1>1, <1>3 DEF T!Close, TinyFields
  <2> QED
    BY <2>5, <2>6
<1>4. CASE T!doit_readrequest \/ T!read_requesthdrs
  BY <1>4, TinyReadsOn
<1>5. CASE T!Rio_writen \/ T!adder_write
  BY <1>5, TinyWritesOn
<1>6. CASE \/ T!doit_parserequest
           \/ T!read_requesthdrs_eof
           \/ T!doit_serve
           \/ T!serve_static_body
           \/ T!serve_dynamic_fork
           \/ T!serve_dynamic_wait
  BY <1>6, TinyWorksOn
<1> QED
  BY <1>2, <1>3, <1>4, <1>5, <1>6 DEF T!main, T!doit

(* What ends the proxy. *)
ClientsStay ==
    \A c \in Clients : conn[c].peer["server"] = "open" => conn'[c].peer["server"] = "open"

ProxyGoes ==
    proxy'.pc = "down" => proxy'.k \in Clients /\ (Excused \/ Unreadable \/ Unreachable \/ Overrun)'

LEMMA OriginUsed ==
    ASSUME ServingInv, NEW c, conn' = [conn EXCEPT ![Origin] = c]
    PROVE  ClientsStay
BY OriginAssumption DEF ClientsStay, ServingInv, ConnsOK

LEMMA ClientUsed ==
    ASSUME ServingInv, ProxyBusy, NEW c, conn' = [conn EXCEPT ![proxy.k] = c],
           conn[proxy.k].peer["server"] = "open" => c.peer["server"] = "open"
    PROVE  ClientsStay
BY DEF ClientsStay, ServingInv, ConnsOK, ProxyServes, ForProxy

LEMMA ExitStays ==
    ASSUME ServingInv, P!Exit, ProxyBusy
    PROVE  /\ ClientsStay /\ proxy'.k = proxy.k /\ proxy.k \in Clients /\ proxy.k # Origin
           /\ proxy'.was = proxy.pc /\ proxy'.r = proxy.r /\ proxy'.req = proxy.req
           /\ proxy'.spoilt = proxy.spoilt
           /\ conn'[Origin].peer["client"] = conn[Origin].peer["client"]
<1>1. PICK c \in CloseOutcomes(conn[proxy.k], "server"), o \in CloseOutcomes(conn[Origin], "client") :
          conn' = [k \in DOMAIN conn |->
                       CASE k = proxy.k -> c
                         [] k \in P!Open -> o
                         [] k \in Range(proxyQueue) -> CHOOSE d \in CloseOutcomes(conn[k], "server") : TRUE
                         [] OTHER -> conn[k]]
  BY DEF P!Exit, P!Fd, P!Range, Range, P!CloseOutcomes, CloseOutcomes, P!Other, Other,
         P!Prefixes, Prefixes
<1>2. P!Open \subseteq {Origin}
  BY DEF P!Open
<1>3. /\ proxy'.k = proxy.k /\ proxy'.was = proxy.pc /\ proxy'.r = proxy.r /\ proxy'.req = proxy.req
      /\ proxy'.spoilt = proxy.spoilt
  BY DEF P!Exit, ServingInv, ProxyOK, ProxyFields
<1>4. ConnsOK /\ ForProxy(proxy.k) /\ \A k \in Range(proxyQueue) : ForProxy(k)
  BY DEF ServingInv, ProxyServes
<1>5. proxy.k \in Clients /\ proxy.k # Origin /\ Origin \notin Range(proxyQueue) /\ Origin \notin Clients
  BY <1>4, OriginAssumption DEF ForProxy
<1>6. CloseDone(conn[proxy.k], "server", c) /\ CloseDone(conn[Origin], "client", o)
  BY <1>4, <1>5, CloseStep, TwoSides DEF ConnsOK
<1> DEFINE Shut(k) == CHOOSE d \in CloseOutcomes(conn[k], "server") : TRUE
<1>7. ASSUME NEW k \in Clients
      PROVE  conn[k].peer["server"] = "open" => conn'[k].peer["server"] = "open"
  <2>1. k \in DOMAIN conn /\ ConnOK(conn[k]) /\ k \notin P!Open
    BY <1>2, <1>4, <1>5 DEF ConnsOK
  <2>2. CloseDone(conn[k], "server", Shut(k))
    <3> DEFINE d == Shut(k)
    <3>1. d \in CloseOutcomes(conn[k], "server")
      BY <2>1, CloseEnds, TwoSides
    <3> QED
      BY <2>1, <3>1, CloseStep, TwoSides
  <2>3. conn'[k] = CASE k = proxy.k -> c
                     [] k \in P!Open -> o
                     [] k \in Range(proxyQueue) -> Shut(k)
                     [] OTHER -> conn[k]
    BY <1>1, <2>1
  <2> HIDE DEF Shut
  <2>4. \/ k = proxy.k /\ conn'[k] = c
        \/ conn'[k] = Shut(k)
        \/ conn'[k] = conn[k]
    <3>1. CASE k = proxy.k
      BY <2>1, <2>3, <3>1
    <3>2. CASE k # proxy.k /\ k \in Range(proxyQueue)
      BY <2>1, <2>3, <3>2
    <3>3. CASE k # proxy.k /\ k \notin Range(proxyQueue)
      BY <2>1, <2>3, <3>3
    <3> QED
      BY <3>1, <3>2, <3>3
  <2> QED
    BY <1>6, <2>2, <2>4 DEF CloseDone
<1>8. conn'[Origin] = o \/ conn'[Origin] = conn[Origin]
  <2>1. conn'[Origin] = CASE Origin = proxy.k -> c
                          [] Origin \in P!Open -> o
                          [] Origin \in Range(proxyQueue) -> Shut(Origin)
                          [] OTHER -> conn[Origin]
    BY <1>1, <1>4 DEF ConnsOK
  <2> HIDE DEF Shut
  <2> QED
    BY <1>5, <2>1
<1>9. conn'[Origin].peer["client"] = conn[Origin].peer["client"]
  BY <1>6, <1>8 DEF CloseDone
<1> QED
  BY <1>3, <1>5, <1>7, <1>9 DEF ClientsStay

LEMMA ParsesOn ==
    ASSUME ServingInv, P!read_request_line_parse \/ P!read_request_header_parse, ~ P!Exit
    PROVE  proxy'.pc = "next"
<1>1. DOMAIN proxy = ProxyFields
  BY DEF ServingInv, ProxyOK
<1>2. CASE P!read_request_line_parse
  <2>1. PICK req, spoilt : proxy' = [proxy EXCEPT !.pc = "next", !.spoilt = spoilt, !.req = req]
    BY <1>2 DEF P!read_request_line_parse
  <2> QED
    BY <1>1, <2>1 DEF ProxyFields
<1>3. CASE P!read_request_header_parse
  <2> DEFINE name == P!Name(proxy.r.buf)
             r1 == [proxy.r EXCEPT !.buf = name]
  <2>1. PICK spoilt, hs : proxy' = [proxy EXCEPT !.pc = "next", !.r.buf = name,
                                        !.spoilt = spoilt, !.req.headers = hs]
    BY <1>3, Zenon DEF P!read_request_header_parse
  <2> DEFINE req1 == [proxy.req EXCEPT !.headers = hs]
  <2> HIDE DEF name
  <2>2. proxy' = [[[[proxy EXCEPT !.pc = "next"] EXCEPT !.r = r1] EXCEPT !.spoilt = spoilt] EXCEPT !.req = req1]
    BY <1>1, <2>1 DEF ProxyFields
  <2> HIDE DEF r1, req1
  <2> QED
    BY <1>1, <2>2 DEF ProxyFields
<1> QED
  BY <1>2, <1>3

LEMMA ProxyGoesOn ==
    ASSUME ServingInv, PeersTrue, ProxyStep
    PROVE  ClientsStay /\ ProxyGoes
<1>1. /\ ConnsOK /\ ProxyOK /\ ProxyServes /\ DOMAIN proxy = ProxyFields
      /\ UNCHANGED <<tiny, files, plan, state>> /\ P!main /\ ConnOK(conn[Origin])
  BY DEF ServingInv, ProxyOK, ProxyStep, ConnsOK
<1>2. ProxyBusy => ConnOK(conn[proxy.k])
  BY <1>1 DEF ProxyServes, ForProxy, ConnsOK
<1>3. CASE P!Accept
  <2>1. conn' = conn /\ proxy'.pc = "request line"
    BY <1>1, <1>3 DEF P!Accept, ProxyFields
  <2> QED
    BY <2>1 DEF ClientsStay, ProxyGoes
<1>4. CASE P!read_request_line \/ P!read_request \/ P!read_request_header
  <2>1. proxy.pc \in {"request line", "next", "header"}
    BY <1>4 DEF P!read_request_line, P!read_request, P!read_request_header, P!Rio_readlineb, P!At
  <2>2. ProxyBusy
    BY <2>1 DEF ProxyBusy
  <2>3. PICK x \in rio_readlineb(conn[proxy.k], "server", proxy.r),
             pc \in {"request line", "parse request", "next", "connect", "header", "parse header"} :
                 /\ proxy' = [proxy EXCEPT !.r = x.to.r, !.pc = pc]
                 /\ conn' = [conn EXCEPT ![proxy.k] = x.c]
    BY <1>4, RequestReadIs
  <2>4. ReadlineDone(conn[proxy.k], "server", proxy.r, x)
    BY <1>1, <1>2, <2>2, ReadlineStep, TwoSides DEF ProxyOK
  <2>5. conn[proxy.k].peer["server"] = "open" => x.c.peer["server"] = "open"
    BY <2>4 DEF ReadlineDone
  <2>6. proxy'.pc # "down"
    BY <1>1, <2>3 DEF ProxyFields
  <2> QED
    BY <2>2, <2>3, <2>5, <2>6, ClientUsed DEF ProxyGoes
<1>5. CASE P!read_request_line_parse \/ P!read_request_header_parse
  <2>1. proxy.pc \in {"parse request", "parse header"} /\ ProxyBusy
    BY <1>5 DEF P!read_request_line_parse, P!read_request_header_parse, P!At, ProxyBusy
  <2>2. CASE P!Exit
    <3>1. /\ proxy'.k = proxy.k /\ proxy.k \in Clients /\ ClientsStay
          /\ proxy'.was = proxy.pc /\ proxy'.r = proxy.r /\ proxy'.pc = "down"
      BY <2>1, <2>2, ExitStays, ProxyExit
    <3>2. CASE P!read_request_line_parse
      <4>1. proxy.pc = "parse request" /\ ~ P!Accepted(proxy.r.buf)
        <5>1. proxy.pc = "parse request"
          BY <3>2 DEF P!read_request_line_parse, P!At
        <5>2. ASSUME P!Accepted(proxy.r.buf)
              PROVE  FALSE
          <6>1. PICK req, spoilt : proxy' = [proxy EXCEPT !.pc = "next", !.spoilt = spoilt, !.req = req]
            BY <3>2, <5>2 DEF P!read_request_line_parse
          <6> QED
            BY <1>1, <3>1, <6>1 DEF ProxyFields
        <5> QED
          BY <5>1, <5>2
      <4>2. Unreadable'
        BY <3>1, <4>1 DEF Unreadable
      <4> QED
        BY <3>1, <4>2 DEF ProxyGoes
    <3>3. CASE P!read_request_header_parse
      <4>1. proxy.pc = "parse header" /\ P!Colon(proxy.r.buf) = 0
        <5>1. proxy.pc = "parse header"
          BY <3>3 DEF P!read_request_header_parse, P!At
        <5>2. ASSUME P!Colon(proxy.r.buf) # 0
              PROVE  FALSE
          <6> DEFINE name == P!Name(proxy.r.buf)
                     r1 == [proxy.r EXCEPT !.buf = name]
          <6>1. PICK spoilt, hs : proxy' = [proxy EXCEPT !.pc = "next", !.r.buf = name,
                                                !.spoilt = spoilt, !.req.headers = hs]
            BY <3>3, <5>2, Zenon DEF P!read_request_header_parse
          <6> DEFINE req1 == [proxy.req EXCEPT !.headers = hs]
          <6> HIDE DEF name
          <6>2. proxy' = [[[[proxy EXCEPT !.pc = "next"] EXCEPT !.r = r1] EXCEPT !.spoilt = spoilt]
                              EXCEPT !.req = req1]
            BY <1>1, <6>1 DEF ProxyFields
          <6> HIDE DEF r1, req1
          <6> QED
            BY <1>1, <3>1, <6>2 DEF ProxyFields
        <5> QED
          BY <5>1, <5>2
      <4>2. Unreadable'
        BY <3>1, <4>1 DEF Unreadable
      <4> QED
        BY <3>1, <4>2 DEF ProxyGoes
    <3> QED
      BY <1>5, <3>2, <3>3
  <2>3. CASE ~ P!Exit
    <3>1. conn' = conn
      BY <1>5, <2>3, Zenon DEF P!read_request_line_parse, P!read_request_header_parse
    <3>2. proxy'.pc = "next"
      BY <1>5, <2>3, ParsesOn
    <3> QED
      BY <3>1, <3>2 DEF ClientsStay, ProxyGoes
  <2> QED
    BY <2>2, <2>3
<1>6. CASE P!Open_clientfd
  <2>1. proxy.pc = "connect" /\ ProxyBusy
    BY <1>6 DEF P!Open_clientfd, P!At, ProxyBusy
  <2> DEFINE at == <<proxy.req.host, proxy.req.port>>
  <2>2. CASE P!open_clientfd(proxy.req.host, proxy.req.port)
    <3>1. conn' = [conn EXCEPT ![Origin] = P!Connected]
      BY <1>6, <2>2 DEF P!Open_clientfd
    <3>2. PICK out, spoilt :
              proxy' = [proxy EXCEPT !.pc = "send", !.r = P!rio_readinitb(P!Junk), !.out = out,
                            !.spoilt = spoilt]
      BY <1>6, <2>2, Zenon DEF P!Open_clientfd
    <3>3. proxy'.pc # "down"
      BY <1>1, <3>2 DEF ProxyFields
    <3> QED
      BY <3>1, <3>3, OriginUsed DEF ProxyGoes
  <2>3. CASE ~ P!open_clientfd(proxy.req.host, proxy.req.port)
    <3>1. P!Exit
      BY <1>6, <2>3 DEF P!Open_clientfd
    <3>2. /\ proxy'.k = proxy.k /\ proxy.k \in Clients /\ ClientsStay
          /\ proxy'.was = proxy.pc /\ proxy'.req = proxy.req
      BY <2>1, <3>1, ExitStays
    <3>3. \/ at \in DOMAIN Resolve => \A i \in DOMAIN Resolve[at] : Resolve[at][i] # "origin"
          \/ tiny.pc = "down"
      BY <2>3 DEF P!open_clientfd
    <3>4. Unreachable' \/ Excused'
      BY <1>1, <2>1, <3>2, <3>3 DEF Unreachable, Excused
    <3> QED
      BY <3>2, <3>4 DEF ProxyGoes
  <2> QED
    BY <2>2, <2>3
<1>7. CASE P!send_request
  <2>1. proxy.pc = "send" /\ ProxyBusy
    BY <1>7 DEF P!send_request, P!Rio_writen, P!At, ProxyBusy
  <2>2. PICK x \in rio_writen(conn[Origin], "client", Head(proxy.out)) :
            \/ x.errno \notin {"OK", "EPIPE"} /\ P!Exit
            \/ /\ conn' = [conn EXCEPT ![Origin] = x.c]
               /\ \E out : proxy' = [proxy EXCEPT !.out = out,
                               !.pc = IF out = << >> THEN "forward" ELSE "send"]
    BY <1>7, ProxyCalls DEF P!send_request, P!Rio_writen
  <2>3. WriteDone(conn[Origin], "client", x)
    BY <1>1, WriteStep, TwoSides
  <2>4. CASE x.errno \notin {"OK", "EPIPE"} /\ P!Exit
    <3>1. conn[Origin].peer["client"] = "reset"
      BY <2>3, <2>4 DEF WriteDone
    <3>2. /\ proxy'.k = proxy.k /\ proxy.k \in Clients /\ ClientsStay /\ proxy'.was = proxy.pc
          /\ conn'[Origin].peer["client"] = conn[Origin].peer["client"]
      BY <2>1, <2>4, ExitStays
    <3>3. Excused'
      BY <2>1, <3>1, <3>2 DEF Excused
    <3> QED
      BY <3>2, <3>3 DEF ProxyGoes
  <2>5. CASE ~ (x.errno \notin {"OK", "EPIPE"} /\ P!Exit)
    <3>1. conn' = [conn EXCEPT ![Origin] = x.c] /\ proxy'.pc # "down"
      BY <1>1, <2>2, <2>5 DEF ProxyFields
    <3> QED
      BY <3>1, OriginUsed DEF ProxyGoes
  <2> QED
    BY <2>4, <2>5
<1>8. CASE P!forward_response_write
  <2>1. proxy.pc = "reply" /\ ProxyBusy
    BY <1>8 DEF P!forward_response_write, P!Rio_writen, P!At, ProxyBusy
  <2>2. PICK x \in rio_writen(conn[proxy.k], "server", Head(proxy.out)) :
            \/ x.errno \notin {"OK", "EPIPE"} /\ P!Exit
            \/ /\ conn' = [conn EXCEPT ![proxy.k] = x.c]
               /\ \E out : proxy' = [proxy EXCEPT !.out = out,
                               !.pc = IF out = << >> THEN "forward" ELSE "reply"]
    BY <1>8, ProxyCalls DEF P!forward_response_write, P!Rio_writen
  <2>3. WriteDone(conn[proxy.k], "server", x)
    BY <1>2, <2>1, WriteStep, TwoSides
  <2>4. CASE x.errno \notin {"OK", "EPIPE"} /\ P!Exit
    <3>1. conn[proxy.k].peer["server"] # "open"
      BY <2>3, <2>4 DEF WriteDone
    <3>2. proxy'.k = proxy.k /\ proxy.k \in Clients /\ proxy.k # Origin /\ ClientsStay
      BY <2>1, <2>4, ExitStays
    <3>3. Excused'
      BY <1>1, <3>1, <3>2 DEF Excused, Gone, PeersTrue
    <3> QED
      BY <3>2, <3>3 DEF ProxyGoes
  <2>5. CASE ~ (x.errno \notin {"OK", "EPIPE"} /\ P!Exit)
    <3>1. conn' = [conn EXCEPT ![proxy.k] = x.c] /\ proxy'.pc # "down"
      BY <1>1, <2>2, <2>5 DEF ProxyFields
    <3>2. conn[proxy.k].peer["server"] = "open" => x.c.peer["server"] = "open"
      BY <2>3 DEF WriteDone
    <3> QED
      BY <2>1, <3>1, <3>2, ClientUsed DEF ProxyGoes
  <2> QED
    BY <2>4, <2>5
<1>9. CASE P!forward_response_read
  <2>1. PICK x \in rio_readlineb(conn[Origin], "client", proxy.o) :
            /\ conn' = [conn EXCEPT ![Origin] = x.c]
            /\ proxy' = [proxy EXCEPT !.o = x.to.r,
                             !.out = IF x.to.rc = "line" THEN <<x.to.r.buf>> ELSE << >>,
                             !.pc = CASE x.to.rc \in {"more", "error"} -> "forward"
                                      [] x.to.rc = "line" -> "reply"
                                      [] x.to.rc = "eof" -> "close origin"]
    BY <1>9, ProxyCalls DEF P!forward_response_read
  <2>2. x.to.rc \in {"more", "line", "eof", "error"}
    BY <1>1, ReadlineStep, TwoSides DEF ReadlineDone, ProxyOK
  <2> DEFINE pc == CASE x.to.rc \in {"more", "error"} -> "forward"
                     [] x.to.rc = "line" -> "reply"
                     [] x.to.rc = "eof" -> "close origin"
  <2>3. pc \in {"forward", "reply", "close origin"}
    BY <2>2
  <2>4. \E out : proxy' = [proxy EXCEPT !.o = x.to.r, !.out = out, !.pc = pc]
    BY <2>1
  <2> HIDE DEF pc
  <2>5. proxy'.pc # "down"
    BY <1>1, <2>3, <2>4 DEF ProxyFields
  <2> QED
    BY <2>1, <2>5, OriginUsed DEF ProxyGoes
<1>10. CASE P!doit_close
  <2>1. \E c : conn' = [conn EXCEPT ![Origin] = c]
    BY <1>10 DEF P!doit_close
  <2>2. proxy'.pc = "close"
    BY <1>1, <1>10 DEF P!doit_close, ProxyFields
  <2> QED
    BY <2>1, <2>2, OriginUsed DEF ProxyGoes
<1>11. CASE P!Close
  <2>1. ProxyBusy
    BY <1>11 DEF P!Close, P!At, ProxyBusy
  <2>2. PICK c \in CloseOutcomes(conn[proxy.k], "server") : conn' = [conn EXCEPT ![proxy.k] = c]
    BY <1>11, ProxyCalls DEF P!Close, P!Fd
  <2>3. c.peer["server"] = conn[proxy.k].peer["server"]
    BY <1>2, <2>1, CloseStep, TwoSides DEF CloseDone
  <2>4. proxy'.pc = "accept"
    BY <1>1, <1>11 DEF P!Close, ProxyFields
  <2> QED
    BY <2>1, <2>2, <2>3, <2>4, ClientUsed DEF ProxyGoes
<1>12. CASE P!overrun
  <2>1. proxy.spoilt /\ proxy.pc \in {"parse header", "send", "close"} /\ P!Exit
    BY <1>12 DEF P!overrun
  <2>2. /\ proxy'.k = proxy.k /\ proxy.k \in Clients /\ ClientsStay
        /\ proxy'.was = proxy.pc /\ proxy'.spoilt = proxy.spoilt
    BY <2>1, ExitStays DEF ProxyBusy
  <2>3. Overrun'
    BY <2>1, <2>2 DEF Overrun
  <2> QED
    BY <2>2, <2>3 DEF ProxyGoes
<1> QED
  BY <1>1, <1>3, <1>4, <1>5, <1>6, <1>7, <1>8, <1>9, <1>10, <1>11, <1>12 DEF P!main, P!doit

(* While the proxy has its connection to Tiny open, Tiny finds it there.   *)
LEMMA ProxyStaysThere ==
    ASSUME ServingInv, P!main, Holding
    PROVE  proxy'.pc = "down" \/ conn'[Origin].peer["server"] = conn[Origin].peer["server"]
<1>1. ConnsOK /\ ProxyOK /\ ProxyServes
  BY DEF ServingInv
<1>2. DOMAIN proxy = ProxyFields /\ Origin \in DOMAIN conn /\ ConnOK(conn[Origin])
  BY <1>1 DEF ProxyOK, ConnsOK
<1>3. CASE P!Exit
  BY <1>2, <1>3 DEF P!Exit, ProxyFields
<1>4. CASE P!send_request /\ ~ P!Exit
  <2>1. PICK x \in rio_writen(conn[Origin], "client", Head(proxy.out)) :
            conn' = [conn EXCEPT ![Origin] = x.c]
    BY <1>4, ProxyCalls DEF P!send_request, P!Rio_writen
  <2>2. WriteDone(conn[Origin], "client", x)
    BY <1>2, WriteStep, TwoSides
  <2> QED
    BY <1>2, <2>1, <2>2, TwoSides DEF WriteDone
<1>5. CASE P!forward_response_read
  <2>1. PICK x \in rio_readlineb(conn[Origin], "client", proxy.o) :
            conn' = [conn EXCEPT ![Origin] = x.c]
    BY <1>5, ProxyCalls DEF P!forward_response_read
  <2>2. ReadlineDone(conn[Origin], "client", proxy.o, x)
    BY <1>1, <1>2, ReadlineStep, TwoSides DEF ProxyOK
  <2> QED
    BY <1>2, <2>1, <2>2, TwoSides DEF ReadlineDone
<1>6. CASE P!forward_response_write /\ ~ P!Exit
  <2>1. proxy.pc = "reply"
    BY <1>6 DEF P!forward_response_write, P!Rio_writen, P!At
  <2>2. proxy.k # Origin
    BY <1>1, <2>1, OriginAssumption DEF ProxyServes, ProxyBusy, ForProxy
  <2>3. \E c : conn' = [conn EXCEPT ![proxy.k] = c]
    BY <1>6 DEF P!forward_response_write, P!Rio_writen
  <2> QED
    BY <1>2, <2>2, <2>3
<1>7. proxy.pc \in {"send", "forward", "reply", "down"}
  BY DEF Holding
<1>8. /\ ~ P!Accept /\ ~ P!Close /\ ~ P!doit_close /\ ~ P!read_request_line /\ ~ P!read_request
      /\ ~ P!read_request_header /\ ~ P!read_request_line_parse /\ ~ P!read_request_header_parse
      /\ ~ P!Open_clientfd /\ (P!overrun => P!Exit)
  BY <1>7 DEF P!Accept, P!Close, P!doit_close, P!read_request_line, P!read_request,
              P!read_request_header, P!read_request_line_parse, P!read_request_header_parse,
              P!Open_clientfd, P!overrun, P!Rio_readlineb, P!At
<1> QED
  BY <1>3, <1>4, <1>5, <1>6, <1>8 DEF P!main, P!doit

LEMMA FateStarts ==
    ASSUME Init
    PROVE  PeersTrue /\ TinyFate /\ ProxyFate
<1>1. /\ \A k \in Clients \cup {Origin} : conn[k] = Connected
      /\ tiny.pc = "accept" /\ proxy.pc = "accept"
  BY DEF Init, T!Init, P!Init
<1>2. Connected.peer["server"] = "open"
  BY DEF Connected, Sides
<1> QED
  BY <1>1, <1>2 DEF PeersTrue, TinyFate, ProxyFate

LEMMA FateOfTiny ==
    ASSUME ServingInv, PeersTrue, TinyFate, ProxyFate, TinyStep \/ ChildStep
    PROVE  PeersTrue' /\ TinyFate' /\ ProxyFate'
<1>1. /\ KnowsPeers /\ files' = files /\ UNCHANGED <<proxyQueue, proxy, plan, state>>
      /\ \/ TinyGoes /\ tiny'.k = tiny.k
         \/ tiny'.pc \in {"request line", "accept"}
  BY TinyGoesOn DEF TinyStep, ChildStep
<1>2. TinyMoves
  BY TinySteps DEF TinyStep, ChildStep
<1>3. TinyServes
  BY DEF ServingInv
<1>4. tiny.pc \notin {"accept", "down", "loop"} \/ (tiny.pc = "accept" /\ T!Accept)
  <2>1. CASE T!Accept
    BY <2>1 DEF T!Accept, T!At
  <2>2. T!doit_readrequest \/ T!read_requesthdrs => tiny.pc \in {"request line", "headers"}
    BY DEF T!doit_readrequest, T!read_requesthdrs, T!Rio_readlineb, T!At
  <2>3. T!Close \/ T!Rio_writen \/ T!adder_write => tiny.pc \in {"close", "write", "wait"}
    BY DEF T!Close, T!Rio_writen, T!adder_write, T!Child, T!At
  <2>4. \/ T!doit_parserequest
        \/ T!read_requesthdrs_eof
        \/ T!doit_serve
        \/ T!serve_static_body
        \/ T!serve_dynamic_fork
        \/ T!serve_dynamic_wait
        => tiny.pc \in {"parse", "header eof", "serve", "map", "fork", "wait"}
    BY DEF T!doit_parserequest, T!read_requesthdrs_eof, T!doit_serve, T!serve_static_body,
           T!serve_dynamic_fork, T!serve_dynamic_wait, T!At
  <2> QED
    BY <2>1, <2>2, <2>3, <2>4 DEF TinyStep, ChildStep, T!main, T!doit
<1>5. OriginWaits' \/ OriginServed' => OriginWaits \/ OriginServed
  <2>1. CASE TinyEnds
    <3>1. Range(<< >>) = {}
      BY EmptySeq DEF Range
    <3> QED
      BY <2>1, <3>1 DEF TinyEnds, OriginWaits, OriginServed, TinyBusy
  <2>2. CASE TinyTakes
    <3>1. Range(tinyQueue') \subseteq Range(tinyQueue) /\ tiny'.k \in Range(tinyQueue)
      BY <1>3, <2>2, TailIsSeq DEF TinyTakes, TinyServes
    <3> QED
      BY <3>1 DEF OriginWaits, OriginServed
  <2>3. CASE TinyStays
    BY <2>3 DEF TinyStays, OriginWaits, OriginServed
  <2> QED
    BY <1>2, <2>1, <2>2, <2>3 DEF TinyMoves
<1>6. PeersTrue'
  BY <1>1, <1>5 DEF PeersTrue, KnowsPeers
<1>7. \A k : Gone(k)' <=> Gone(k)
  BY <1>1 DEF Gone
<1>8. TinyFate'
  <2>1. CASE tiny'.pc \in {"request line", "accept"}
    BY <2>1 DEF TinyFate
  <2>2. CASE TinyGoes /\ tiny'.k = tiny.k /\ TinyBusy
    <3>1. tiny.k \in Clients \cup {Origin}
      BY <2>2, TinyServesIts
    <3>2. conn[tiny.k].peer["server"] # "open" => Gone(tiny.k)
      BY <2>2, <3>1 DEF PeersTrue, OriginServed, Gone
    <3>3. tiny'.pc \in {"header eof", "loop"} => Gone(tiny.k)
      BY <2>2, <3>2 DEF TinyFate, TinyGoes
    <3>4. tiny'.pc = "down" => Gone(tiny.k) \/ (tiny'.was = "map" /\ NoFile')
      BY <2>2, <3>2 DEF TinyGoes
    <3>5. Gone(tiny.k) => Gone(tiny.k)'
      BY <1>1, <2>2 DEF Gone
    <3> QED
      BY <2>2, <3>1, <3>3, <3>4, <3>5 DEF TinyFate
  <2>3. ~ TinyBusy => tiny'.pc = "request line"
    BY <1>4 DEF TinyBusy, T!Accept, ServingInv, TinyOK, TinyFields
  <2> QED
    BY <1>1, <2>1, <2>2, <2>3
<1>9. ProxyFate'
  <2>1. ASSUME proxy.pc = "down", conn[Origin].peer["client"] = "reset"
        PROVE  conn'[Origin] = conn[Origin]
    <3>1. ~ OriginWaits /\ ~ OriginServed
      BY <2>1 DEF ServingInv, OriginHeld
    <3> QED
      BY <1>1, <3>1 DEF KnowsPeers, OriginWaits, OriginServed
  <2>2. ASSUME proxy.pc = "down", Excused
        PROVE  Excused'
    BY <1>1, <1>4, <1>7, <2>1, <2>2 DEF Excused, Gone
  <2>3. (Unreadable => Unreadable') /\ (Unreachable => Unreachable') /\ (Overrun => Overrun')
    BY <1>1 DEF Unreadable, Unreachable, Overrun
  <2> QED
    BY <1>1, <2>2, <2>3 DEF ProxyFate
<1> QED
  BY <1>6, <1>8, <1>9

LEMMA FateOfProxy ==
    ASSUME ServingInv, PeersTrue, TinyFate, ProxyFate, ProxyStep
    PROVE  PeersTrue' /\ TinyFate' /\ ProxyFate'
<1>1. P!main /\ UNCHANGED <<tiny, files, plan, state>>
  BY DEF ProxyStep
<1>2. ProxyMoves
  BY <1>1, ProxySteps
<1>3. proxy.pc # "down"
  BY <1>1 DEF P!main, P!doit, P!Accept, P!Close, P!doit_close, P!read_request_line, P!read_request,
              P!read_request_header, P!read_request_line_parse, P!read_request_header_parse,
              P!Open_clientfd, P!Rio_readlineb, P!send_request, P!forward_response_read,
              P!forward_response_write, P!Rio_writen, P!overrun, P!At
<1>4. \A k : Gone(k) => Gone(k)'
  BY <1>1, <1>3 DEF Gone
<1>5. TinyFate'
  BY <1>1, <1>4 DEF TinyFate, NoFile
<1>6. ClientsStay /\ ProxyGoes
  BY ProxyGoesOn
<1>7. ASSUME OriginWaits' \/ OriginServed', conn'[Origin].peer["server"] # "open"
      PROVE  proxy'.pc = "down"
  <2>1. CASE OriginAsked
    <3>1. conn'[Origin].peer["server"] = "open"
      BY <2>1 DEF OriginAsked, Connected, Sides
    <3> QED
      BY <1>7, <3>1
  <2>2. CASE OriginKept
    <3>1. OriginWaits \/ OriginServed
      BY <1>1, <1>7, <2>2 DEF OriginKept, OriginWaits, OriginServed, TinyBusy
    <3>2. Holding
      BY <3>1 DEF ServingInv, OriginHeld
    <3>3. conn[Origin].peer["server"] = "open"
      BY <1>3, <3>1 DEF PeersTrue
    <3> QED
      BY <1>1, <1>7, <3>2, <3>3, ProxyStaysThere
  <2> QED
    BY <1>2, <2>1, <2>2 DEF ProxyMoves
<1>8. PeersTrue'
  BY <1>1, <1>6, <1>7 DEF PeersTrue, ClientsStay
<1>9. ProxyFate'
  BY <1>6 DEF ProxyFate, ProxyGoes
<1> QED
  BY <1>5, <1>8, <1>9

LEMMA FateOfClients ==
    ASSUME ServingInv, PeersTrue, TinyFate, ProxyFate, NEW c \in Clients, Connect(c) \/ Leave(c)
    PROVE  PeersTrue' /\ TinyFate' /\ ProxyFate'
<1>1. ConnsOK /\ ClientsOK /\ TinyServes /\ c # Origin /\ UNCHANGED <<proxy, tiny, files, plan>>
  BY OriginAssumption DEF ServingInv, Connect, Leave
<1>2. c \in DOMAIN conn /\ Origin \in DOMAIN conn /\ c \in DOMAIN state
  BY <1>1 DEF ConnsOK, ClientsOK
<1>3. state' = [state EXCEPT ![c] = state'[c]] /\ (state[c] = "left" => state'[c] = "left")
  BY <1>2 DEF Connect, Leave
<1>4. \A k \in Clients \cup {Origin} : Gone(k) => Gone(k)'
  BY <1>1, <1>2, <1>3 DEF Gone, ClientsOK
<1>5. TinyFate'
  <2>1. TinyBusy => tiny.k \in Clients \cup {Origin}
    BY TinyServesIts
  <2> QED
    BY <1>1, <1>4, <2>1 DEF TinyFate, TinyBusy, NoFile
<1>6. \A k \in DOMAIN conn : k # c => conn'[k] = conn[k]
  BY <1>2 DEF Connect, Leave
<1>7. conn'[c].peer["server"] = "open" \/ conn'[c] = conn[c] \/ state'[c] = "left"
  <2>1. CASE Leave(c)
    BY <1>2, <2>1 DEF Leave
  <2>2. CASE Connect(c)
    <3>1. [Connected EXCEPT !.data["server"] = plan[c].words, !.room = plan[c].takes].peer["server"] = "open"
      BY DEF Connected, Sides
    <3>2. conn' = conn \/ conn'[c] = [Connected EXCEPT !.data["server"] = plan[c].words, !.room = plan[c].takes]
      BY <1>2, <2>2 DEF Connect
    <3> QED
      BY <3>1, <3>2
  <2> QED
    BY <2>1, <2>2
<1>8. OriginWaits' => OriginWaits
  <2>1. tinyQueue' = tinyQueue \/ tinyQueue' = Append(tinyQueue, c)
    BY DEF Connect, Leave
  <2>2. Range(Append(tinyQueue, c)) = Range(tinyQueue) \cup {c}
    BY <1>1, AppendIsSeq DEF TinyServes
  <2> QED
    BY <1>1, <2>1, <2>2 DEF OriginWaits
<1>9. OriginServed' => OriginServed
  BY <1>1 DEF OriginServed, TinyBusy
<1>10. ASSUME NEW d \in Clients, conn'[d].peer["server"] # "open"
       PROVE  state'[d] = "left"
  <2>1. CASE d = c
    BY <1>1, <1>3, <1>7, <1>10, <2>1 DEF PeersTrue
  <2>2. CASE d # c
    <3>1. d \in DOMAIN conn /\ state'[d] = state[d]
      BY <1>1, <1>3, <2>2 DEF ConnsOK, ClientsOK
    <3> QED
      BY <1>1, <1>6, <1>10, <2>2, <3>1 DEF PeersTrue
  <2> QED
    BY <2>1, <2>2
<1>11. (OriginWaits' \/ OriginServed') /\ conn'[Origin].peer["server"] # "open" => proxy'.pc = "down"
  BY <1>1, <1>2, <1>6, <1>8, <1>9 DEF PeersTrue
<1>12. ProxyFate'
  <2>1. ASSUME proxy.pc = "down"
        PROVE  Gone(proxy.k) => Gone(proxy.k)'
    BY <1>1, <1>4, <2>1 DEF ProxyFate, Gone
  <2>2. conn'[Origin] = conn[Origin]
    BY <1>1, <1>2, <1>6
  <2>3. proxy.pc = "down" /\ Excused => Excused'
    BY <1>1, <2>1, <2>2 DEF Excused
  <2>4. (Unreadable => Unreadable') /\ (Unreachable => Unreachable') /\ (Overrun => Overrun')
    BY <1>1 DEF Unreadable, Unreachable, Overrun
  <2> QED
    BY <1>1, <2>3, <2>4 DEF ProxyFate
<1> QED
  BY <1>5, <1>10, <1>11, <1>12 DEF PeersTrue

FatesInv == ServingInv /\ PeersTrue /\ TinyFate /\ ProxyFate

LEMMA FatesKeep ==
    ASSUME FatesInv, [Next]_vars
    PROVE  FatesInv'
<1> USE DEF FatesInv
<1>1. CASE ProxyStep
  BY <1>1, FateOfProxy, NextKeeps
<1>2. CASE TinyStep \/ ChildStep
  BY <1>2, FateOfTiny, NextKeeps
<1>3. CASE Vanish
  <2>1. files' \subseteq files /\ UNCHANGED <<conn, proxyQueue, tinyQueue, proxy, tiny, plan, state>>
    BY <1>3 DEF Vanish, T!Unlink
  <2>2. PeersTrue'
    BY <2>1 DEF PeersTrue, OriginWaits, OriginServed, TinyBusy
  <2>3. TinyFate'
    BY <2>1 DEF TinyFate, NoFile, Gone
  <2>4. ProxyFate'
    BY <2>1 DEF ProxyFate, Excused, Unreadable, Unreachable, Overrun, Gone
  <2> QED
    BY <2>2, <2>3, <2>4, NextKeeps
<1>4. CASE \E c \in Clients : Connect(c) \/ Leave(c)
  BY <1>4, FateOfClients, NextKeeps
<1>5. CASE UNCHANGED vars
  <2>1. PeersTrue' /\ TinyFate'
    BY <1>5 DEF vars, PeersTrue, TinyFate, NoFile, Gone, OriginWaits, OriginServed, TinyBusy
  <2>2. ProxyFate'
    BY <1>5 DEF vars, ProxyFate, Excused, Unreadable, Unreachable, Overrun, Gone
  <2> QED
    BY <2>1, <2>2, NextKeeps
<1> QED
  BY <1>1, <1>2, <1>3, <1>4, <1>5 DEF Next

(* exit, unix_error: whoever Tiny serves, in whatever order and whatever   *)
(* it is asked, it ends only when its client, or the proxy, has gone, or   *)
(* in serve_static's open and mmap of a file that has vanished behind stat *)
(* or is empty; and it loops for ever only over the headers of a client    *)
(* that has gone.                                                          *)
THEOREM TinyAlwaysSurvives == Spec => []TinySurvives
<1>1. Init => FatesInv
  BY StartsRight, FateStarts DEF FatesInv
<1>2. FatesInv /\ [Next]_vars => FatesInv'
  BY FatesKeep
<1>3. FatesInv => TinySurvives
  BY DEF FatesInv, TinyFate, TinySurvives, NoFile
<1> QED
  BY <1>1, <1>2, <1>3, PTL DEF Spec

(* exit, unix_error: the proxy ends for no other reason than a client that *)
(* has gone, a request it cannot parse or that its arrays do not hold, a   *)
(* server it cannot reach, or a reset from Tiny while it still writes its  *)
(* request.                                                                *)
THEOREM ProxyEndsForAReason == Spec => []ProxyEnds
<1>1. Init => FatesInv
  BY StartsRight, FateStarts DEF FatesInv
<1>2. FatesInv /\ [Next]_vars => FatesInv'
  BY FatesKeep
<1>3. FatesInv => ProxyEnds
  BY DEF FatesInv, ProxyFate, ProxyEnds
<1> QED
  BY <1>1, <1>2, <1>3, PTL DEF Spec
=============================================================================
