------------------------------ MODULE Serving ------------------------------
(***************************************************************************)
(* Clients, the sequential proxy and Tiny together: a client connects to   *)
(* either, the proxy to Tiny, and any of them may close, fail or be reset  *)
(* while the others are in the middle of a line.                           *)
(***************************************************************************)
EXTENDS Rio, FiniteSets

CONSTANTS
    Clients, Origin, Resolve, Files, Vanishing,
    PORT_MAX_LEN, PATH_MAX_LINE, HEADER_NAME_MAX_LEN, HEADER_VALUE_MAX_LEN, HEADER_MAX_NUM, CONTENT_LEN,
    Scenarios       \* sets of clients' plans; of each client,
                    \*   to       the server it connects to
                    \*   words    what it sends
                    \*   takes    how many words it reads, or the kernel keeps for it
                    \*   leaves   how it may end the connection early
                    \*   answers  the answers it is owed, {} if none
                    \*   proper   whether the proxy can cope with its request

VARIABLES conn, proxyQueue, tinyQueue, proxy, tiny, files, plan, state

vars == <<conn, proxyQueue, tinyQueue, proxy, tiny, files, plan, state>>

P == INSTANCE SeqProxy WITH originQueue <- tinyQueue, originUp <- tiny.pc # "down"
T == INSTANCE Tiny

Lines == Seq(Seq(STRING))

Plans == [to : {"proxy", "tiny"}, words : Seq(Seq(STRING) \ {<< >>}), takes : Nat, leaves : SUBSET {"closed", "reset"},
          answers : SUBSET Lines, proper : BOOLEAN]

ASSUME FilesAssumption == \A f \in DOMAIN Files : Files[f].mode \in T!Modes
ASSUME ArraysAssumption ==
    /\ {PORT_MAX_LEN, PATH_MAX_LINE, HEADER_NAME_MAX_LEN, HEADER_VALUE_MAX_LEN} \subseteq Nat \ {0}
    /\ {HEADER_MAX_NUM, CONTENT_LEN} \subseteq Nat \ {0}
ASSUME OriginAssumption == Origin \notin Clients
ASSUME ScenariosAssumption == \A p \in Scenarios : p \in [Clients -> Plans]

Up(server) == IF server = "proxy" THEN proxy.pc # "down" ELSE tiny.pc # "down"

Connect(c) ==
    /\ state[c] = "new"
    /\ IF Up(plan[c].to)
       THEN /\ state' = [state EXCEPT ![c] = "connected"]
            /\ conn' = [conn EXCEPT ![c] = [Connected EXCEPT !.data["server"] = plan[c].words, !.room = plan[c].takes]]
            /\ proxyQueue' = IF plan[c].to = "proxy" THEN Append(proxyQueue, c) ELSE proxyQueue
            /\ tinyQueue' = IF plan[c].to = "tiny" THEN Append(tinyQueue, c) ELSE tinyQueue
       ELSE /\ state' = [state EXCEPT ![c] = "refused"]
            /\ UNCHANGED <<conn, proxyQueue, tinyQueue>>
    /\ UNCHANGED <<proxy, tiny, files, plan>>

Leave(c) ==
    /\ state[c] = "connected"
    /\ conn[c].peer["client"] = "open"
    /\ \E how \in plan[c].leaves : conn' = [conn EXCEPT ![c].peer["server"] = how]
    /\ state' = [state EXCEPT ![c] = "left"]
    /\ UNCHANGED <<proxyQueue, tinyQueue, proxy, tiny, files, plan>>

Init ==
    /\ conn = [k \in Clients \cup {Origin} |-> Connected]
    /\ P!Init
    /\ T!Init
    /\ plan \in Scenarios
    /\ state = [c \in Clients |-> "new"]

ProxyStep == P!main /\ UNCHANGED <<tiny, files, plan, state>>
TinyStep  == T!main /\ UNCHANGED <<proxyQueue, proxy, plan, state>>
ChildStep == T!adder_write /\ UNCHANGED <<proxyQueue, proxy, plan, state>>
Vanish    == (\E f \in Vanishing : T!Unlink(f)) /\ UNCHANGED <<proxyQueue, proxy, plan, state>>

Next ==
    \/ \E c \in Clients : Connect(c) \/ Leave(c)
    \/ ProxyStep
    \/ TinyStep
    \/ ChildStep
    \/ Vanish

Spec == Init /\ [][Next]_vars
(* The servers and the CGI program keep running; a client may wait for     *)
(* ever before it connects or leaves.                                      *)
FairSpec == Spec /\ WF_vars(ProxyStep) /\ WF_vars(TinyStep \/ ChildStep)

-----------------------------------------------------------------------------
(* Properties.                                                             *)

ReaderOK(r) == Len(r.rio) <= RIO_BUFSIZE /\ Len(r.line) < MAXLINE - 1 /\ Len(r.buf) < MAXLINE

ServingTypeOK ==
    /\ \A k \in Clients \cup {Origin} :
           /\ DOMAIN conn[k].data = Sides /\ DOMAIN conn[k].peer = Sides
           /\ \A s \in Sides : conn[k].peer[s] \in PeerStates /\ conn[k].lost[s] \in BOOLEAN
           /\ conn[k].room \in Nat
    /\ proxyQueue \in Seq(Clients) /\ tinyQueue \in Seq(Clients \cup {Origin})
    /\ ReaderOK(proxy.r) /\ ReaderOK(proxy.o) /\ ReaderOK(tiny.r)
    /\ \A i \in DOMAIN proxy.out : proxy.out[i] # << >>
    /\ proxy.k \in Clients \cup {Origin}
    /\ files \subseteq DOMAIN Files
    /\ state \in [Clients -> {"new", "connected", "left", "refused"}]

(* Rio_readlineb: however the words of the peer arrive, and whatever part  *)
(* of a line a read returns, the readers of both programs are handed the   *)
(* stream line by line, without a gap, a repetition or a line cut short;   *)
(* but for the step in which a reset arrives or is reported to the proxy,  *)
(* which drops words.  Tiny ends when that happens.                        *)
FromClient == INSTANCE LineStream WITH Newline <- NL, MaxLen <- MAXLINE - 1,
    stream <- proxy.r.line \o proxy.r.rio \o conn[proxy.k].data["server"],
    ended <- conn[proxy.k].peer["server"] # "open", line <- proxy.r.buf
FromOrigin == INSTANCE LineStream WITH Newline <- NL, MaxLen <- MAXLINE - 1,
    stream <- proxy.o.line \o proxy.o.rio \o conn[Origin].data["client"],
    ended <- conn[Origin].peer["client"] # "open", line <- proxy.o.buf
ToTiny == INSTANCE LineStream WITH Newline <- NL, MaxLen <- MAXLINE - 1,
    stream <- tiny.r.line \o tiny.r.rio \o conn[tiny.k].data["server"],
    ended <- conn[tiny.k].peer["server"] # "open", line <- tiny.r.buf

Breaks(k, side) ==
    /\ conn'[k].peer[side] # conn[k].peer[side]
    /\ conn'[k].peer[side] \in {"reset", "broken"}

LinesWhole ==
    [][/\ proxy.pc \in {"request line", "next", "header"} /\ proxy'.pc # "down" /\ ~ Breaks(proxy.k, "server")
              => FromClient!Next
       /\ proxy.pc = "forward" /\ ~ Breaks(Origin, "client")
              => FromOrigin!Next
       /\ tiny.pc \in {"request line", "headers"} /\ tiny'.pc # "down"
              => ToTiny!Next]_vars

(* tiny's doit and the proxy's forward_response: a client is never sent    *)
(* anything but a beginning of the answer its own request calls for,       *)
(* whoever was served before it, on whatever path its answer came.         *)
OnlyItsAnswer ==
    \A c \in Clients : plan[c].answers # {} =>
        \E a \in plan[c].answers : IsPrefix(conn[c].data["client"], a)

(* A connection that is closed in order while both servers live has        *)
(* carried the whole answer, unless Tiny closed its own with a part of the *)
(* proxy's request unread and the reset overtook the answer: the proxy     *)
(* then ends its own connection as if nothing were missing.                *)
WholeAnswer ==
    [][\A c \in Clients :
         /\ plan[c].answers # {} /\ state[c] = "connected"
         /\ conn[c].peer["client"] = "open" /\ conn'[c].peer["client"] = "closed"
         /\ proxy'.pc # "down" /\ tiny'.pc # "down"
         => \/ conn'[c].data["client"] \in plan[c].answers
            \/ plan[c].to = "proxy" /\ conn[Origin].peer["client"] = "broken"]_vars

(* exit and unix_error end a server for everyone.  The proxy ends for no   *)
(* reason but those below, and survives every request it can parse, of a   *)
(* server it can find, of a client that stays, but for one case:           *)
(* the empty line behind its own User-Agent header makes Tiny answer and   *)
(* close, which is a reset, while send_request is still writing.  Tiny     *)
(* ends only when its client (or the proxy) has gone away, or in           *)
(* serve_static over a file that vanished behind stat or is empty: every   *)
(* other request, whatever it asks for and however it is written, it       *)
(* survives; and only a client (or a proxy) that goes away in the middle   *)
(* of its headers keeps it in read_requesthdrs for ever.                   *)
Gone(k) == IF k = Origin THEN proxy.pc = "down" ELSE state[k] = "left"

Excused ==
    \/ Gone(proxy.k)
    \/ proxy.was = "send" /\ conn[Origin].peer["client"] = "reset"
    \/ proxy.was = "connect" /\ tiny.pc = "down"

Unreadable ==
    \/ proxy.was = "parse request" /\ ~ P!Accepted(proxy.r.buf)
    \/ proxy.was = "parse header" /\ P!Colon(proxy.r.buf) = 0

Unreachable ==
    LET at == <<proxy.req.host, proxy.req.port>> IN
    /\ proxy.was = "connect"
    /\ at \in DOMAIN Resolve => \A i \in DOMAIN Resolve[at] : Resolve[at][i] # "origin"

(* A request that its arrays do not hold.                                  *)
Overrun == proxy.spoilt /\ proxy.was \in {"parse header", "send", "close"}

ProxyEnds == proxy.pc = "down" => Excused \/ Unreadable \/ Unreachable \/ Overrun

ProxySurvives == proxy.pc = "down" /\ plan[proxy.k].proper => Excused

TinySurvives ==
    /\ tiny.pc = "down" =>
           \/ Gone(tiny.k)
           \/ /\ tiny.was = "map"
              /\ tiny.filename \notin files \/ Files[tiny.filename].body = << >>
    /\ tiny.pc = "loop" => Gone(tiny.k)


(* Every client's connection comes to an end: it is answered, or its       *)
(* server has ended; unless somebody holds the server up by not finishing  *)
(* a request or by not reading the answer, or left Tiny in its endless     *)
(* loop.                                                                   *)
Unfinished(c) ==
    LET ws == plan[c].words IN
    ~ \E i \in DOMAIN ws : ws[i] = NL /\ i > 1 /\ ws[i - 1] = NL

Full(c) == conn[c].peer["client"] = "open" /\ Len(conn[c].data["client"]) >= conn[c].room

EveryConnectionEnds ==
    \A c \in Clients :
        state[c] = "connected" ~> \/ conn[c].peer["client"] # "open" \/ state[c] = "left"
                                 \/ tiny.pc = "loop"
                                 \/ \E d \in Clients : state[d] = "connected" /\ (Unfinished(d) \/ Full(d))
=============================================================================
