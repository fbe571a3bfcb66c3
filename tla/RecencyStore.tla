---------------------------- MODULE RecencyStore ----------------------------
(***************************************************************************)
(* What a least-recently-used store promises, as operators on the list of  *)
(* its entries, most recently used first.  A use moves an entry to the     *)
(* front; a new entry goes to the front and, when the store is full,       *)
(* pushes out the last one.                                                *)
(*                                                                         *)
(* Each set of the cache simulator (CSim.tla) is such a store, and with a  *)
(* variable to hold the list (RecencyList.tla) so is the proxy's object    *)
(* cache (Proxy.tla).                                                      *)
(***************************************************************************)
EXTENDS Naturals, SequencesExt

Touched(list, i) == <<list[i]>> \o RemoveAt(list, i)

Added(list, e, capacity) ==
    <<e>> \o IF Len(list) = capacity THEN Front(list) ELSE list

(* One use of a store that holds list, for which only some entries are     *)
(* legal, leaves it holding next.                                          *)
Used(list, next, entries, capacity) ==
    \/ \E i \in DOMAIN list : next = Touched(list, i)
    \/ \E e \in entries : next = Added(list, e, capacity)
=============================================================================
