------------------------------ MODULE GameSlots ------------------------------
(***************************************************************************)
(* What d2cs promises about the places of its game servers, with no        *)
(* queue, no messages and no counters: a game is only put on a server that *)
(* has announced more places than it has games.                            *)
(***************************************************************************)
EXTENDS Integers, FiniteSets

CONSTANTS Servers

VARIABLES
    hosting,     \* the server of each game, by game id
    capacity     \* the places each server has announced

On(s) == {i \in DOMAIN hosting : hosting[i] = s}

Init == hosting = [i \in {} |-> 0] /\ capacity = [s \in Servers |-> 0]

(* A game with a new id is put on a server that has a place left.          *)
Place(s) ==
    /\ Cardinality(On(s)) < capacity[s]
    /\ \E i \in DOMAIN hosting' \ DOMAIN hosting :
          hosting' = [j \in DOMAIN hosting \cup {i} |->
                         IF j = i THEN s ELSE hosting[j]]
    /\ UNCHANGED capacity

Release(i) ==
    /\ hosting' = [j \in DOMAIN hosting \ {i} |-> hosting[j]]
    /\ UNCHANGED capacity

(* A server announces any number of places, also fewer than it has games.  *)
Announce(s) ==
    /\ capacity'[s] \in Nat
    /\ \A t \in Servers \ {s} : capacity'[t] = capacity[t]
    /\ DOMAIN capacity' = Servers
    /\ UNCHANGED hosting

(* The server is lost or starts again: its games are gone, its places too. *)
Clear(s) ==
    /\ hosting' = [j \in DOMAIN hosting \ On(s) |-> hosting[j]]
    /\ capacity' = [capacity EXCEPT ![s] = 0]

Next ==
    \/ \E s \in Servers : Place(s) \/ Announce(s) \/ Clear(s)
    \/ \E i \in DOMAIN hosting : Release(i)

Spec == Init /\ [][Next]_<<hosting, capacity>>

=============================================================================
