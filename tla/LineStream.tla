----------------------------- MODULE LineStream -----------------------------
(***************************************************************************)
(* What Rio_readlineb promises its callers: a stream of words arrives in   *)
(* any pieces, and each call takes the next line of it, whole: up to the   *)
(* end of the line, the size of the array, or the end of the stream.       *)
(***************************************************************************)
EXTENDS Integers, Sequences

CONSTANTS Newline, MaxLen

VARIABLES
    stream,     \* words sent and not handed out yet
    ended,      \* the peer sends no more
    line        \* the line handed out last

Ends(n) == stream[n] = Newline \/ n = MaxLen

Hand(n) ==
    /\ line' = SubSeq(stream, 1, n)
    /\ stream' = SubSeq(stream, n + 1, Len(stream))

Readline ==
    \E n \in DOMAIN stream :
        /\ \A m \in 1 .. n - 1 : ~ Ends(m)
        /\ Ends(n) \/ (ended /\ n = Len(stream))
        /\ Hand(n)

Arrive ==
    /\ UNCHANGED line
    /\ Len(stream') > Len(stream)
    /\ SubSeq(stream', 1, Len(stream)) = stream

Waiting == UNCHANGED <<stream, line>>

Next == Readline \/ Arrive \/ Waiting
=============================================================================
