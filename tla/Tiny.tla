-------------------------------- MODULE Tiny --------------------------------
(***************************************************************************)
(* The Tiny web server (Proxy/tiny): one process that accepts connections, *)
(* answers one request on each from its files or from a CGI program it     *)
(* forks and waits for, and closes it.  Its copy of the Rio wrappers ends  *)
(* the process on every error, and SIGPIPE is not handled.                 *)
(*                                                                         *)
(* tiny.out are the words that remain to be written, one sequence for each *)
(* call of Rio_writen, and tiny.then is what follows them.                 *)
(***************************************************************************)
EXTENDS Rio

CONSTANTS
    Files,          \* the files: name |-> [mode |-> , body |-> ]
    Vanishing       \* those that may be removed while the server runs

VARIABLES conn, tinyQueue, tiny, files

(* What stat says of a file.                                              *)
Modes == {"readable", "executable", "directory", "unreadable"}

Say(word) == << <<word>>, NL>>

-----------------------------------------------------------------------------
(* Answers.                                                                *)

(* Mutant: the query is left in the name of the program. *)
parse_uri_keepsQuery(uri) ==
    IF Has(uri, "cgi-bin")
    THEN [static |-> FALSE, filename |-> <<".">> \o uri, cgiargs |-> After(uri, "?")]
    ELSE [static |-> TRUE, cgiargs |-> << >>,
          filename |-> <<".">> \o uri \o (IF Last(uri) = "/" THEN <<"home", ".html">> ELSE << >>)]

parse_uri(uri) ==
    IF Has(uri, "cgi-bin")
    THEN [static |-> FALSE, filename |-> <<".">> \o UpTo(uri, "?"), cgiargs |-> After(uri, "?")]
    ELSE [static |-> TRUE, cgiargs |-> << >>,
          filename |-> <<".">> \o uri \o (IF Last(uri) = "/" THEN <<"home", ".html">> ELSE << >>)]

get_filetype(filename) ==
    CASE Has(filename, ".html") -> "text/html"
      [] Has(filename, ".gif")  -> "image/gif"
      [] Has(filename, ".png")  -> "image/png"
      [] Has(filename, ".jpg")  -> "image/jpeg"
      [] OTHER -> "text/plain"

clienterror(errnum) ==
    <<Say("HTTP/1.0 " \o errnum), Say("Content-type: text/html") \o <<NL>>, Say("Tiny Error")>>

serve_static_headers(filename) ==
    <<Say("HTTP/1.0 200 OK"), Say("Content-length"), Say(get_filetype(filename)) \o <<NL>> >>

serve_dynamic_headers == <<Say("HTTP/1.0 200 OK"), Say("Server: Tiny Web Server")>>

(* cgi-bin/adder: strchr finds no "&" and the program is killed, or all    *)
(* of its output is written at the end.                                    *)
adder(cgiargs) ==
    IF Has(cgiargs, "&")
    THEN Say("Connection: close") \o Say("text/html") \o <<NL>> \o << <<"The answer is">> \o cgiargs, NL>>
    ELSE << >>

(* What doit does once it knows the file: the calls of Rio_writen, and     *)
(* what comes after them.                                                  *)
Answer(u, present) ==
    LET mode == Files[u.filename].mode
        wanted == IF u.static THEN "readable" ELSE "executable"
    IN  IF u.filename \notin present THEN [out |-> clienterror("404 Not found"), then |-> "close"]
        ELSE CASE mode # wanted -> [out |-> clienterror("403 Forbidden"), then |-> "close"]
               [] mode = wanted /\ u.static ->
                     [out |-> serve_static_headers(u.filename), then |-> "map"]
               [] OTHER -> [out |-> serve_dynamic_headers, then |-> "fork"]

-----------------------------------------------------------------------------
At(pc) == tiny.pc = pc
Fd == conn[tiny.k]

Accept ==
    /\ At("accept") /\ tinyQueue # << >>
    /\ tiny' = [tiny EXCEPT !.pc = "request line", !.k = Head(tinyQueue), !.r = rio_readinitb(Junk)]
    /\ tinyQueue' = Tail(tinyQueue)
    /\ UNCHANGED <<conn, files>>

(* unix_error, or SIGPIPE: the descriptors of the process are closed.      *)
Exit(fd) ==
    /\ tiny' = [tiny EXCEPT !.pc = "down", !.was = tiny.pc, !.out = << >>]
    /\ \E c \in CloseOutcomes(fd, "server") :
           conn' = [k \in DOMAIN conn |->
                       CASE k = tiny.k -> c
                         [] k \in Range(tinyQueue) -> CHOOSE d \in CloseOutcomes(conn[k], "server") : TRUE
                         [] OTHER -> conn[k]]
    /\ tinyQueue' = << >>
    /\ UNCHANGED files

(* From one place in the program to the next, given what was read.         *)
Rio_readlineb(from, Line(_), eof) ==
    /\ At(from)
    /\ \E x \in rio_readlineb(Fd, "server", tiny.r) :
           \/ x.to.rc = "error" /\ Exit(x.c)
           \/ /\ x.to.rc # "error"
              /\ conn' = [conn EXCEPT ![tiny.k] = x.c]
              /\ tiny' = [tiny EXCEPT !.r = x.to.r,
                              !.pc = CASE x.to.rc = "more" -> from
                                       [] x.to.rc = "line" -> Line(x.to.r.buf)
                                       [] x.to.rc = "eof"  -> eof]
              /\ UNCHANGED <<tinyQueue, files>>

doit_readrequest == Rio_readlineb("request line", LAMBDA buf : "parse", "close")

(* Nobody looks at what sscanf returns: a word the line does not have is   *)
(* the one of an earlier request, or whatever the array holds.             *)
doit_parserequest ==
    LET words == SelectSeq(tiny.r.buf, LAMBDA w : w \notin {NL, << >>})
        Word(i, old) == IF i <= Len(words) THEN {words[i]} ELSE {old} \cup Range(Junk)
    IN  /\ At("parse")
        /\ \E method \in Word(1, tiny.method), uri \in Word(2, tiny.uri) :
               tiny' = [tiny EXCEPT !.method = method, !.uri = uri, !.r.buf = Junk,
                            !.pc = IF method = <<"GET">> THEN "headers" ELSE "write",
                            !.out = IF method = <<"GET">> THEN << >> ELSE clienterror("501 Not Implemented"),
                            !.then = "close"]
        /\ UNCHANGED <<conn, tinyQueue, files>>

read_requesthdrs ==
    Rio_readlineb("headers", LAMBDA buf : IF buf = <<NL>> THEN "serve" ELSE "headers", "header eof")

(* At the end of the stream buf stays as it is, and so does the answer of  *)
(* strcmp: the loop goes on for ever.  An array nothing was read into may  *)
(* hold the empty line of an earlier request.                              *)
read_requesthdrs_eof ==
    /\ At("header eof")
    /\ \E pc \in {"loop"} \cup (IF tiny.r.buf = Junk THEN {"serve"} ELSE {}) :
           tiny' = [tiny EXCEPT !.pc = pc]
    /\ UNCHANGED <<conn, tinyQueue, files>>

(* parse_uri cuts the uri at the "?".                                      *)
doit_serve ==
    LET u == parse_uri(tiny.uri)
        answer == Answer(u, files)
    IN  /\ At("serve")
        /\ tiny' = [tiny EXCEPT !.pc = "write", !.out = answer.out, !.then = answer.then,
                        !.uri = IF u.static THEN @ ELSE UpTo(@, "?"),
                        !.filename = u.filename, !.cgiargs = u.cgiargs]
        /\ UNCHANGED <<conn, tinyQueue, files>>

(* One write of the loop in rio_writen.                                    *)
Rio_writen ==
    /\ At("write")
    /\ \E x \in rio_writen(Fd, "server", Head(tiny.out)) :
           \/ x.errno # "OK" /\ Exit(x.c)
           \/ /\ x.errno = "OK"
              /\ LET out == (IF x.left = << >> THEN << >> ELSE <<x.left>>) \o Tail(tiny.out) IN
                 tiny' = [tiny EXCEPT !.out = out,
                             !.pc = IF out = << >> THEN tiny.then ELSE "write"]
              /\ conn' = [conn EXCEPT ![tiny.k] = x.c]
              /\ UNCHANGED <<tinyQueue, files>>

(* Open fails when the file is gone by now, Mmap when it is empty.         *)
serve_static_body ==
    /\ At("map")
    /\ IF tiny.filename \in files /\ Files[tiny.filename].body # << >>
       THEN /\ tiny' = [tiny EXCEPT !.pc = "write", !.then = "close",
                            !.out = <<Files[tiny.filename].body>>]
            /\ UNCHANGED <<conn, tinyQueue, files>>
       ELSE Exit(Fd)

(* From here on out is what the child has left to write; its stdout is the *)
(* connection.                                                             *)
serve_dynamic_fork ==
    /\ At("fork")
    /\ tiny' = [tiny EXCEPT !.pc = "wait", !.out = <<adder(tiny.cgiargs)>>]
    /\ UNCHANGED <<conn, tinyQueue, files>>

Child == At("wait") /\ tiny.out # << >> /\ Head(tiny.out) # << >>

(* A child that cannot write is killed, or exits.                          *)
adder_write ==
    /\ Child
    /\ \E x \in rio_writen(Fd, "server", Head(tiny.out)) :
           /\ conn' = [conn EXCEPT ![tiny.k] = x.c]
           /\ tiny' = [tiny EXCEPT !.out = <<x.left>>]
    /\ UNCHANGED <<tinyQueue, files>>

serve_dynamic_wait ==
    /\ At("wait") /\ ~ Child
    /\ tiny' = [tiny EXCEPT !.pc = "close", !.out = << >>]
    /\ UNCHANGED <<conn, tinyQueue, files>>

Close ==
    /\ At("close")
    /\ \E c \in CloseOutcomes(Fd, "server") : conn' = [conn EXCEPT ![tiny.k] = c]
    /\ tiny' = [tiny EXCEPT !.pc = "accept", !.r = rio_readinitb(Junk), !.then = "close",
                    !.filename = << >>, !.cgiargs = << >>]
    /\ UNCHANGED <<tinyQueue, files>>

(* Somebody removes a file.                                                *)
Unlink(f) ==
    /\ f \in files \cap Vanishing
    /\ files' = files \ {f}
    /\ UNCHANGED <<conn, tinyQueue, tiny>>

Init ==
    /\ tinyQueue = << >>
    /\ files = DOMAIN Files
    /\ tiny = [pc |-> "accept", was |-> "accept", k |-> "none", r |-> rio_readinitb(Junk),
               method |-> Junk[1], uri |-> Junk[1], filename |-> << >>, cgiargs |-> << >>, out |-> << >>, then |-> "close"]

doit ==
    \/ doit_readrequest
    \/ doit_parserequest
    \/ read_requesthdrs
    \/ read_requesthdrs_eof
    \/ doit_serve
    \/ Rio_writen
    \/ serve_static_body
    \/ serve_dynamic_fork
    \/ serve_dynamic_wait

main == Accept \/ doit \/ Close
=============================================================================
