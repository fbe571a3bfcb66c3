----------------------------- MODULE MCServing -----------------------------
(***************************************************************************)
(* Two clients, each of the proxy or Tiny, in pairs.  A line of a request  *)
(* takes four of the five words of an array and a page is longer than an   *)
(* array; a buffer holds three words, so lines end inside it.  A window    *)
(* does not hold a whole answer, but what may remain of a request.         *)
(***************************************************************************)
EXTENDS Serving, TLC

CONSTANTS c1, c2, origin

MCClients == {c1, c2}

page  == <<".", "/", "page", ".html">>
home  == <<".", "/", "home", ".html">>
empty == <<".", "/", "empty">>
dir   == <<".", "/", "dir">>
prog  == <<".", "/", "cgi-bin", "/", "adder">>

MCFiles ==
    (page  :> [mode |-> "readable", body |-> << <<"a">>, <<"b">>, <<"c">>, <<"d">>, <<"e">> >>]) @@
    (home  :> [mode |-> "readable", body |-> << <<"h">>, NL >>]) @@
    (empty :> [mode |-> "readable", body |-> << >>]) @@
    (dir   :> [mode |-> "directory", body |-> << >>]) @@
    (prog  :> [mode |-> "executable", body |-> << >>])

MCResolve == (<< <<"h">>, <<"80">> >> :> <<"dead", "origin">>) @@ (<< <<"h">>, <<"81">> >> :> <<"dead">>) @@
             (<< <<"h">>, <<"0", "80">> >> :> <<"origin">>)

Get(uri) == << <<"GET">>, uri, <<"HTTP/1.1">>, NL >>
Header(name) == << <<name, ": ">>, <<"v">>, NL >>
Ok == << <<"HTTP/1.0 200 OK">>, NL >>
Page == Ok \o << <<"Content-length">>, NL, <<"text/html">>, NL, NL, <<"a">>, <<"b">>, <<"c">>, <<"d">>, <<"e">> >>
Home == Ok \o << <<"Content-length">>, NL, <<"text/html">>, NL, NL, <<"h">>, NL >>
Server == Ok \o << <<"Server: Tiny Web Server">>, NL >>
Sum == Server \o << <<"Connection: close">>, NL, <<"text/html">>, NL, NL, <<"The answer is", "1", "&", "2">>, NL >>
Failed(n) == << <<"HTTP/1.0 " \o n>>, NL, <<"Content-type: text/html">>, NL, NL, <<"Tiny Error">>, NL >>

Asks(server, words, answers) ==
    [to |-> server, words |-> words, takes |-> 20, leaves |-> {}, answers |-> answers, proper |-> TRUE]
Bad(server, words) == [Asks(server, words, {}) EXCEPT !.proper = FALSE]

Sends(p, how) == [p EXCEPT !.leaves = how]
Reads(p, n) == [p EXCEPT !.takes = n]

Url(path) == <<"http://", "h">> \o path
add == <<"/", "cgi-bin", "/", "adder", "?", "1", "&", "2">>

pPage == Asks("proxy", Get(Url(<<"/", "page", ".html">>)) \o <<NL>>, {Page})
pHome == Asks("proxy", Get(Url(<<":", "80", "/">>)) \o Header("Host") \o Header("Accept") \o <<NL>>,
              {Home, Failed("404 Not found")})
pSum  == Asks("proxy", Get(Url(add)) \o <<NL>>, {Sum})
pOdd  == Bad("proxy", Get(Url(<<"/", "page", ".html">>)) \o Header("Host") \o <<NL>>)
pPath == Bad("proxy", Get(Url(<<"/", "a", ":", "b">>)) \o <<NL>>)
pDead == Bad("proxy", Get(Url(<<":", "81", "/">>)) \o <<NL>>)
pHalf == Sends(Bad("proxy", Get(Url(<<"/">>)) \o << <<"Accept", ": ">> >>), {"closed", "reset"})
pPort == Bad("proxy", Get(Url(<<":", "0", "80", "/">>)) \o <<NL>>)
pFar  == Bad("proxy", Get(Url(<<"/", "a", "/", "b", "/", "c", "/", "d", "/">>)) \o <<NL>>)
long  == << <<"long">>, <<"name", ": ">>, <<"v">>, NL >>
wide  == << <<"wide", ": ">>, <<"v">>, <<"w">>, NL >>
pMany == Bad("proxy", Get(Url(<<"/", "page", ".html">>)) \o Header("Host") \o long \o Header("Host") \o wide \o <<NL>>)
pMute == Sends(Bad("proxy", << >>), {"closed"})

tPage == Asks("tiny", Get(<<"/", "page", ".html">>) \o <<NL>>, {Page})
tNone == Asks("tiny", Get(<<"/", "none">>) \o Header("Host") \o <<NL>>, {Failed("404 Not found")})
tDir  == Asks("tiny", Get(<<"/", "dir">>) \o Header("Host") \o <<NL>>, {Failed("403 Forbidden")})
tHome == Asks("tiny", Get(<<"/">>) \o <<NL>>, {Home, Failed("404 Not found")})
tSum  == Asks("tiny", Get(add) \o <<NL>>, {Sum})
tAdd  == Asks("tiny", Get(<<"/", "cgi-bin", "/", "adder">>) \o <<NL>>, {Server})
tPost == Asks("tiny", << <<"POST">>, <<"/">>, <<"HTTP/1.0">>, NL, NL>>, {Failed("501 Not Implemented")})
tWord == Bad("tiny", << <<"GET">>, NL, NL>>)
tNull == Bad("tiny", Get(<<"/", "empty">>) \o <<NL>>)
tHalf == Sends(Bad("tiny", Get(<<"/", "page", ".html">>) \o Header("Host")), {"closed", "reset"})

MCVanishing == {home}

MCScenarios ==
    {(c1 :> x[1]) @@ (c2 :> x[2]) : x \in
        { <<pPage, tNone>>, <<pHome, pMute>>, <<pSum, tAdd>>, <<pOdd, pPage>>, <<pPath, tHome>>, <<pDead, tDir>>,
          <<Sends(pPage, {"closed", "reset"}), pOdd>>, <<pPage, tHalf>>, <<tPage, tWord>>,
          <<pDead, tPost>>, <<pSum, tNull>>, <<pHalf, tNull>>,
          <<Sends(tSum, {"closed", "reset"}), pDead>>,
          <<pPort, tPost>>, <<pMany, tNull>>, <<pFar, tNull>>, <<Reads(pPage, 4), tPost>>, <<Reads(Sends(tPage, {"reset"}), 6), tNone>> } }
=============================================================================
