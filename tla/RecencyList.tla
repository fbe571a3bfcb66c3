---------------------------- MODULE RecencyList ----------------------------
(***************************************************************************)
(* A least-recently-used store, by itself: it begins empty, and every step *)
(* is a use of it.                                                         *)
(*                                                                         *)
(* The proxy's object cache (Proxy.tla) implements it with time stamps.    *)
(***************************************************************************)
EXTENDS RecencyStore

CONSTANTS
    Entries,    \* what may be stored
    Capacity    \* how many entries fit

VARIABLE
    recent      \* the stored entries, most recently used first

InitRecent == recent = << >>
NextRecent == Used(recent, recent', Entries, Capacity)

SpecRecent == InitRecent /\ [][NextRecent]_recent
=============================================================================
