------------------------------ MODULE SeqProxy ------------------------------
(***************************************************************************)
(* The sequential proxy (Proxy/proxy(p1).c), whose request and response    *)
(* code the threaded and the caching one share: for each connection in     *)
(* turn it reads a request, sends one of its own to the origin server and  *)
(* passes the answer on line by line.  Of the errors of the Rio wrappers   *)
(* (Proxy/csapp.c), a reset while reading and a closed connection while    *)
(* writing are tolerated; everything else ends the process.                *)
(***************************************************************************)
EXTENDS Rio

CONSTANTS
    Origin,         \* the connection to the origin server
    Resolve,        \* <<host, port>> |-> its addresses, in order
    PORT_MAX_LEN, PATH_MAX_LINE,                \* the arrays of a Request,
    HEADER_NAME_MAX_LEN, HEADER_VALUE_MAX_LEN,  \* terminators included,
    HEADER_MAX_NUM,                             \* and how many headers
    CONTENT_LEN                                 \* content of send_request

VARIABLES conn, proxyQueue, proxy, originQueue, originUp

UserAgent == <<"User-Agent", ": ">>
OwnHeaders == { << <<name>> >> : name \in {"Host", "User-Agent", "Connection", "Proxy-Connection"} }

-----------------------------------------------------------------------------

(* The uri behind "http://".  A ":" anywhere ends the host.                *)
parse_uri(uri) ==
    LET rest == Tail(uri)
        port_start == Has(rest, ":")
        str == IF port_start THEN After(rest, ":") ELSE rest
    IN  [host |-> IF port_start THEN UpTo(rest, ":") ELSE UpTo(str, "/"),
         port |-> IF port_start THEN UpTo(str, "/") ELSE <<"80">>,
         path |-> <<"/">> \o After(str, "/")]

(* What the arrays of the Request_Line then hold.  A port that is too long *)
(* is the last to be written, and goes on where the path begins; a path    *)
(* that is too long goes on in the headers, and a host that is too long is *)
(* longer than any name that resolves.                                     *)
StoredPaths(uri) ==
    CASE Len(uri.port) >= PORT_MAX_LEN -> {SubSeq(uri.port, PORT_MAX_LEN + 1, Len(uri.port))}
      [] Len(uri.port) < PORT_MAX_LEN /\ Len(uri.path) >= PATH_MAX_LINE ->
            {uri.path, SubSeq(uri.path, 1, PATH_MAX_LINE) \o Junk[1]}
      [] OTHER -> {uri.path}

(* What read_request_line accepts; anything else ends the process.         *)
Words(line) == SelectSeq(line, LAMBDA w : w # NL)

Accepted(line) ==
    /\ Len(Words(line)) >= 3
    /\ line[1] = <<"GET">>
    /\ Words(line)[3] \in { <<"HTTP/1.0">>, <<"HTTP/1.1">> }
    /\ line[2][1] = "http://"

(* The word of a line that ": " is in, 0 if there is none.                 *)
Colon(line) ==
    LET at == {i \in DOMAIN line : Has(line[i], ": ")}
    IN  IF at = {} THEN 0 ELSE CHOOSE i \in at : \A j \in at : i <= j

Name(line) == SubSeq(line, 1, Colon(line) - 1) \o <<UpTo(line[Colon(line)], ": ")>>
Value(line) == SubSeq(line, Colon(line) + 1, Len(line))

(* What the arrays of a Request_Header hold once both are written.  The    *)
(* value is written over the end of a name that is too long; a value that  *)
(* is too long goes on in the header behind it.                            *)
StoredHeaders(name, value) ==
    {[value |-> v, name |-> IF Len(name) < HEADER_NAME_MAX_LEN THEN name
                            ELSE SubSeq(name, 1, HEADER_NAME_MAX_LEN) \o v]
        : v \in {value} \cup (IF Len(value) < HEADER_VALUE_MAX_LEN THEN {}
                              ELSE {SubSeq(value, 1, HEADER_VALUE_MAX_LEN) \o Junk})}

(* A header written behind what headers occupy does not end within the     *)
(* array: strcpy and header++ know no bound.                               *)
Exceeds(headers, name, value) ==
    LET room == (HEADER_MAX_NUM - Len(headers)) * (HEADER_NAME_MAX_LEN + HEADER_VALUE_MAX_LEN)
    IN  Len(name) >= room \/ HEADER_NAME_MAX_LEN + Len(value) >= room

(* The calls of Rio_writen that send_request makes.  A value still has the *)
(* end of its line, and so has user_agent_hdr, so that empty lines follow  *)
(* them.  content is printed into itself before each further header, which *)
(* C leaves undefined: what it held is kept, or it is not.                 *)
HeaderLine(h) ==
    (IF Last(h.name) = NL THEN h.name \o << <<": ">> >>
     ELSE Front(h.name) \o << Last(h.name) \o <<": ">> >>) \o h.value \o <<NL>>

Contents(req, kept) ==
    LET calls[i \in 0 .. Len(req.headers)] ==
            IF i = 0 THEN << << <<"Proxy-Connection", ": ">>, <<"close">>, NL>> >>
            ELSE LET h == req.headers[i] IN
                 IF h.name \in OwnHeaders THEN calls[i - 1]
                 ELSE Append(calls[i - 1],
                          (IF kept THEN Last(calls[i - 1]) ELSE << >>) \o HeaderLine(h))
    IN  calls[Len(req.headers)]

RequestLines(req, kept) ==
    << << <<"GET">>, req.path, <<"HTTP/1.0">>, NL>>,
       << <<"Host", ": ">>, req.host \o <<":">> \o req.port, NL>>,
       << UserAgent, UserAgent, <<"Mozilla/5.0">>, NL, NL>>,
       << <<"Connection", ": ">>, <<"close">>, NL>> >>
    \o Contents(req, kept) \o << <<NL>> >>

(* open_clientfd: the first address of the list that accepts.              *)
open_clientfd(host, port) ==
    /\ <<host, port>> \in DOMAIN Resolve
    /\ \E i \in DOMAIN Resolve[<<host, port>>] :
           Resolve[<<host, port>>][i] = "origin" /\ originUp

-----------------------------------------------------------------------------
At(pc) == proxy.pc = pc
Goto(pc) == proxy' = [proxy EXCEPT !.pc = pc]

Unknown == [name |-> Junk, value |-> << >>]
NoRequest == [host |-> << >>, port |-> << >>, path |-> << >>, headers |-> << >>]

Fd == conn[proxy.k]
Open == IF proxy.pc \in {"send", "forward", "reply", "close origin"} THEN {Origin} ELSE {}

Accept ==
    /\ At("accept") /\ proxyQueue # << >>
    /\ proxy' = [proxy EXCEPT !.pc = "request line", !.k = Head(proxyQueue),
                     !.r = rio_readinitb(Junk)]
    /\ proxyQueue' = Tail(proxyQueue)
    /\ UNCHANGED <<conn, originQueue>>

(* exit and unix_error: every descriptor of the process is closed.         *)
Exit ==
    /\ proxy' = [proxy EXCEPT !.pc = "down", !.was = proxy.pc, !.out = << >>]
    /\ \E c \in CloseOutcomes(Fd, "server"), o \in CloseOutcomes(conn[Origin], "client") :
           conn' = [k \in DOMAIN conn |->
                       CASE k = proxy.k -> c
                         [] k \in Open -> o
                         [] k \in Range(proxyQueue) -> CHOOSE d \in CloseOutcomes(conn[k], "server") : TRUE
                         [] OTHER -> conn[k]]
    /\ proxyQueue' = << >>
    /\ UNCHANGED originQueue

(* The functions that read a request do not look at what Rio_readlineb     *)
(* returns: at the end of the stream they go on with the line before.      *)
Rio_readlineb(from, To(_)) ==
    /\ At(from)
    /\ \E x \in rio_readlineb(Fd, "server", proxy.r) :
           /\ conn' = [conn EXCEPT ![proxy.k] = x.c]
           /\ proxy' = [proxy EXCEPT !.r = x.to.r,
                            !.pc = IF x.to.rc = "more" THEN from ELSE To(x.to.r.buf)]
    /\ UNCHANGED <<proxyQueue, originQueue>>

read_request_line == Rio_readlineb("request line", LAMBDA buf : "parse request")

read_request_line_parse ==
    /\ At("parse request")
    /\ IF Accepted(proxy.r.buf)
       THEN /\ LET uri == parse_uri(proxy.r.buf[2]) IN
               \E path \in StoredPaths(uri),
                  spoilt \in {FALSE} \cup {Len(uri.path) >= PATH_MAX_LINE} :
                   proxy' = [proxy EXCEPT !.pc = "next", !.spoilt = spoilt, !.req =
                       [host |-> uri.host, port |-> uri.port, path |-> path, headers |-> << >>]]
            /\ UNCHANGED <<conn, proxyQueue, originQueue>>
       ELSE Exit

(* The line that ends the loop, or one that is dropped: the header the     *)
(* loop then reads is the line behind it.                                  *)
read_request == Rio_readlineb("next", LAMBDA buf : IF buf = <<NL>> THEN "connect" ELSE "header")

read_request_header == Rio_readlineb("header", LAMBDA buf : "parse header")

(* Behind the headers lies request_header_num, which may then be anything. *)
read_request_header_parse ==
    LET buf == proxy.r.buf
        headers == proxy.req.headers
        spoilt == proxy.spoilt \/ Exceeds(headers, Name(buf), Value(buf))
    IN  /\ At("parse header")
        /\ IF Colon(buf) = 0 THEN Exit
           ELSE /\ \E h \in StoredHeaders(Name(buf), Value(buf)) :
                   \E now \in {Append(headers, h)} \cup
                             (IF spoilt THEN {<< >>, Append(Append(headers, h), Unknown)} ELSE {}) :
                       proxy' = [proxy EXCEPT !.pc = "next", !.r.buf = Name(buf),
                                     !.spoilt = spoilt, !.req.headers = now]
                /\ UNCHANGED <<conn, proxyQueue, originQueue>>

(* send_request, with what it is about to print into content.              *)
Open_clientfd ==
    /\ At("connect")
    /\ IF open_clientfd(proxy.req.host, proxy.req.port)
       THEN /\ \E kept \in BOOLEAN :
                   LET lines == RequestLines(proxy.req, kept) IN
                   proxy' = [proxy EXCEPT !.pc = "send", !.r = rio_readinitb(Junk), !.out = lines,
                                 !.spoilt = @ \/ \E i \in DOMAIN lines : Len(lines[i]) >= CONTENT_LEN]
            /\ conn' = [conn EXCEPT ![Origin] = Connected]
            /\ originQueue' = Append(originQueue, Origin)
            /\ UNCHANGED proxyQueue
       ELSE Exit

(* One write of rio_writen.  After EPIPE the rest of the string is         *)
(* dropped, and the program goes on with the next.                         *)
Rio_writen(from, k, side, done) ==
    /\ At(from)
    /\ \E x \in rio_writen(conn[k], side, Head(proxy.out)) :
           LET out == (IF x.left = << >> THEN << >> ELSE <<x.left>>) \o Tail(proxy.out) IN
           IF x.errno \in {"OK", "EPIPE"}
           THEN /\ conn' = [conn EXCEPT ![k] = x.c]
                /\ proxy' = [proxy EXCEPT !.out = out,
                                 !.pc = IF out = << >> THEN done ELSE from]
                /\ UNCHANGED <<proxyQueue, originQueue>>
           ELSE Exit

send_request == Rio_writen("send", Origin, "client", "forward")

(* Mutant: the loop ends on an error, and not at the end of the stream. *)
forward_response_readNoEof ==
    /\ At("forward")
    /\ \E x \in rio_readlineb(conn[Origin], "client", proxy.o) :
           /\ conn' = [conn EXCEPT ![Origin] = x.c]
           /\ proxy' = [proxy EXCEPT !.o = x.to.r,
                            !.out = IF x.to.rc = "line" THEN <<x.to.r.buf>> ELSE << >>,
                            !.pc = CASE x.to.rc \in {"more", "eof"} -> "forward"
                                     [] x.to.rc = "line" -> "reply"
                                     [] x.to.rc = "error" -> "close origin"]
    /\ UNCHANGED <<proxyQueue, originQueue>>

(* A failed read returns -1.  write refuses that as a size, rio_writen     *)
(* fails in the way that Rio_writen takes for success, and the loop goes   *)
(* on.                                                                     *)
forward_response_read ==
    /\ At("forward")
    /\ \E x \in rio_readlineb(conn[Origin], "client", proxy.o) :
           /\ conn' = [conn EXCEPT ![Origin] = x.c]
           /\ proxy' = [proxy EXCEPT !.o = x.to.r,
                            !.out = IF x.to.rc = "line" THEN <<x.to.r.buf>> ELSE << >>,
                            !.pc = CASE x.to.rc \in {"more", "error"} -> "forward"
                                     [] x.to.rc = "line" -> "reply"
                                     [] x.to.rc = "eof" -> "close origin"]
    /\ UNCHANGED <<proxyQueue, originQueue>>

forward_response_write == Rio_writen("reply", proxy.k, "server", "forward")

doit_close ==
    /\ At("close origin")
    /\ \E c \in CloseOutcomes(conn[Origin], "client") : conn' = [conn EXCEPT ![Origin] = c]
    /\ proxy' = [proxy EXCEPT !.pc = "close", !.o = rio_readinitb(Junk)]
    /\ UNCHANGED <<proxyQueue, originQueue>>

(* What was written behind the arrays ends the process, or not: at the end *)
(* of the stack, while send_request prints what it finds there, or when    *)
(* doit returns to an address that was written over.                       *)
overrun == proxy.spoilt /\ proxy.pc \in {"parse header", "send", "close"} /\ Exit

Close ==
    /\ At("close")
    /\ \E c \in CloseOutcomes(Fd, "server") : conn' = [conn EXCEPT ![proxy.k] = c]
    /\ proxy' = [proxy EXCEPT !.pc = "accept", !.req = NoRequest, !.spoilt = FALSE]
    /\ UNCHANGED <<proxyQueue, originQueue>>

Init ==
    /\ proxyQueue = << >>
    /\ proxy = [pc |-> "accept", was |-> "accept", k |-> Origin,
                r |-> rio_readinitb(Junk), o |-> rio_readinitb(Junk), out |-> << >>,
                req |-> NoRequest, spoilt |-> FALSE]

doit ==
    \/ read_request_line
    \/ read_request_line_parse
    \/ read_request
    \/ read_request_header
    \/ read_request_header_parse
    \/ Open_clientfd
    \/ send_request
    \/ forward_response_read
    \/ forward_response_write
    \/ doit_close
    \/ overrun

main == Accept \/ doit \/ Close
=============================================================================
