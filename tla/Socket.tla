------------------------------- MODULE Socket -------------------------------
(***************************************************************************)
(* A TCP connection as read, write and close show it to the programs of    *)
(* this repository (the kernel's part; nothing here is code of theirs).    *)
(* Bytes are words: a word is a sequence of strings that no program takes  *)
(* apart otherwise than with strstr, and NL is the end of a line.          *)
(*                                                                         *)
(* data[s] are the words that side s has not read yet, and room is how     *)
(* many of them the buffers of the kernel hold; peer[s] is what side s     *)
(* finds out about the other one, lost[s] is whether a reset threw away    *)
(* words that were on their way to s:                                      *)
(*   open    the other side still has its descriptor                       *)
(*   closed  it closed it: a read ends the stream, a write is sent in vain *)
(*   late    such a write was sent; a reset comes back, sooner or later    *)
(*   reset   a reset arrived: the next call fails with ECONNRESET          *)
(*   broken  the reset was reported: reads end, writes fail with EPIPE     *)
(***************************************************************************)
EXTENDS Integers, SequencesExt

CONSTANT Window      \* words the kernel keeps for a side that does not read

ASSUME WindowAssumption == Window \in Nat \ {0}

NL == <<"\r\n">>

Sides == {"client", "server"}
Other(s) == IF s = "client" THEN "server" ELSE "client"
PeerStates == {"open", "closed", "late", "reset", "broken"}

Connected == [data |-> [s \in Sides |-> << >>],
              peer |-> [s \in Sides |-> "open"],
              lost |-> [s \in Sides |-> FALSE],
              room |-> Window]

(* read of at most n words: any number of them may have arrived.  There is *)
(* no outcome while nothing has, and the caller waits.                     *)
ReadOutcomes(c, s, n) ==
    IF c.data[s] # << >>
    THEN {[c |-> [c EXCEPT !.data[s] = SubSeq(@, Len(got) + 1, Len(@))],
           got |-> got, errno |-> "OK"]
            : got \in {ws \in Prefixes(c.data[s]) : Len(ws) \in 1 .. n}}
    ELSE CASE c.peer[s] = "open" -> {}
           [] c.peer[s] = "reset" ->
                 {[c |-> [c EXCEPT !.peer[s] = "broken"], got |-> << >>, errno |-> "ECONNRESET"]}
           [] OTHER -> {[c |-> c, got |-> << >>, errno |-> "OK"]}

(* write of ws: the words taken (a prefix), or an error.  There is no      *)
(* outcome while the other side is there and there is no room, and the     *)
(* caller waits.                                                           *)
WriteOutcomes(c, s, ws) ==
    LET failed(e) == [c |-> [c EXCEPT !.peer[s] = "broken"], n |-> 0, errno |-> e]
        vain(p) == [c |-> [c EXCEPT !.peer[s] = p], n |-> Len(ws), errno |-> "OK"]
    IN  CASE c.peer[s] = "open" ->
                 {[c |-> [c EXCEPT !.data[Other(s)] = @ \o SubSeq(ws, 1, k)],
                   n |-> k, errno |-> "OK"]
                    : k \in {n \in 1 .. Len(ws) : Len(c.data[Other(s)]) + n <= c.room}}
          [] c.peer[s] = "closed" -> {vain("late")}
          [] c.peer[s] = "late"   -> {vain("late"), failed("EPIPE")}
          [] c.peer[s] = "reset"  -> {failed("ECONNRESET")}
          [] c.peer[s] = "broken" -> {failed("EPIPE")}

(* close, or the end of the process.  Closing with words unread resets the *)
(* connection, and what the other side has not received yet may be lost.   *)
CloseOutcomes(c, s) ==
    LET o == Other(s) IN
    IF c.data[s] = << >>
    THEN {[c EXCEPT !.peer[o] = IF @ = "open" THEN "closed" ELSE @]}
    ELSE {[c EXCEPT !.data[s] = << >>, !.data[o] = kept,
                    !.lost[o] = @ \/ kept # c.data[o],
                    !.peer[o] = IF @ = "open" THEN "reset" ELSE @]
            : kept \in Prefixes(c.data[o])}
=============================================================================
