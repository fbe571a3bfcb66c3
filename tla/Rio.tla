-------------------------------- MODULE Rio --------------------------------
(***************************************************************************)
(* The Rio package (csapp.c): reads of text lines through a buffer of its  *)
(* own, and writes that go on until everything is written.  A reader r is  *)
(* a rio_t with the array of the function that calls it:                   *)
(*   rio    rio_buf from rio_bufptr on, rio_cnt words                      *)
(*   line   what the call under way has put into the array so far          *)
(*   buf    the array as the last call left it                             *)
(* A call that has to wait for the peer is several steps: each operator    *)
(* gives the outcomes of one system call and of what is done before the    *)
(* next.  (A call that a signal interrupts is repeated: nothing changes.)  *)
(***************************************************************************)
EXTENDS Socket

CONSTANTS
    RIO_BUFSIZE,    \* words a rio_t holds
    MAXLINE         \* words the callers' arrays hold, terminator included

ASSUME RioAssumption == RIO_BUFSIZE \in Nat \ {0} /\ MAXLINE \in Nat /\ MAXLINE > 1

Junk == << <<"junk">> >>          \* an array nothing was written to yet

(* strstr, and what lies before and behind the place it finds.             *)
Has(str, sub) == \E i \in DOMAIN str : str[i] = sub
Index(str, sub) ==
    IF Has(str, sub) THEN CHOOSE i \in DOMAIN str :
                              str[i] = sub /\ \A j \in 1 .. i - 1 : str[j] # sub
    ELSE Len(str) + 1
UpTo(str, sub)  == SubSeq(str, 1, Index(str, sub) - 1)
After(str, sub) == SubSeq(str, Index(str, sub) + 1, Len(str))

rio_readinitb(buf) == [rio |-> << >>, line |-> << >>, buf |-> buf]

rio_read(c, s, rio) ==
    IF rio # << >> THEN {[c |-> c, rio |-> rio, rc |-> "data"]}
    ELSE {[c |-> x.c, rio |-> x.got,
           rc |-> CASE x.errno # "OK" -> "error"
                    [] x.errno = "OK" /\ x.got = << >> -> "eof"
                    [] OTHER -> "data"] : x \in ReadOutcomes(c, s, RIO_BUFSIZE)}

(* Mutant: a line may fill the array, and its terminator lies behind it. *)
LineEndFull(line, rio) ==
    LET ends == {i \in DOMAIN rio : rio[i] = NL \/ Len(line) + i = MAXLINE}
    IN  IF ends = {} THEN 0 ELSE CHOOSE i \in ends : \A j \in ends : i <= j

(* Where the line ends that starts with line and goes on in rio: at the    *)
(* end of a line or of the array; 0 if it goes on.                         *)
LineEnd(line, rio) ==
    LET ends == {i \in DOMAIN rio : rio[i] = NL \/ Len(line) + i = MAXLINE - 1}
    IN  IF ends = {} THEN 0 ELSE CHOOSE i \in ends : \A j \in ends : i <= j

(* Mutant: the words behind the line are dropped from the buffer. *)
TakenDropsRest(r, rio) ==
    LET n == LineEnd(r.line, rio) IN
    IF n = 0 THEN [r |-> [r EXCEPT !.rio = << >>, !.line = @ \o rio], rc |-> "more"]
    ELSE [r |-> [rio |-> << >>, line |-> << >>, buf |-> r.line \o SubSeq(rio, 1, n)],
          rc |-> "line"]

Taken(r, rio) ==
    LET n == LineEnd(r.line, rio) IN
    IF n = 0 THEN [r |-> [r EXCEPT !.rio = << >>, !.line = @ \o rio], rc |-> "more"]
    ELSE [r |-> [rio |-> SubSeq(rio, n + 1, Len(rio)), line |-> << >>,
                 buf |-> r.line \o SubSeq(rio, 1, n)],
          rc |-> "line"]

(* At the end of the stream a line that was begun is handed over; when     *)
(* there is none the array is left alone, and 0 is returned.               *)
AtEof(r) ==
    IF r.line = << >> THEN [r |-> r, rc |-> "eof"]
    ELSE [r |-> [r EXCEPT !.line = << >>, !.buf = r.line], rc |-> "line"]

(* On an error what was read lies over what was there, and -1 is returned. *)
AtError(r) ==
    [r |-> [r EXCEPT !.line = << >>,
                     !.buf = r.line \o SubSeq(@, Len(r.line) + 1, Len(@))], rc |-> "error"]

rio_readlineb(c, s, r) ==
    {[c |-> x.c, to |-> CASE x.rc = "data"  -> Taken(r, x.rio)
                          [] x.rc = "eof"   -> AtEof(r)
                          [] x.rc = "error" -> AtError(r)] : x \in rio_read(c, s, r.rio)}

(* Mutant: a short write counts as a whole one. *)
rio_writenOnce(c, s, ws) ==
    {[c |-> x.c, left |-> << >>, errno |-> x.errno] : x \in WriteOutcomes(c, s, ws)}

(* left is what remains to be written, nothing after an error.             *)
rio_writen(c, s, ws) ==
    {[c |-> x.c, errno |-> x.errno,
      left |-> IF x.errno = "OK" THEN SubSeq(ws, x.n + 1, Len(ws)) ELSE << >>]
        : x \in WriteOutcomes(c, s, ws)}
=============================================================================
