---------------------------- MODULE AccountStore ----------------------------
(***************************************************************************)
(* What bnetd promises about the attributes of accounts, with no cache:    *)
(* a reader gets what was set last; what has been saved survives a crash,  *)
(* and only saving what readers get changes the storage.                   *)
(***************************************************************************)
CONSTANTS
    Accounts,   \* accounts
    Values,     \* what the attributes of an account can be
    NoData      \* the attributes of an account that does not exist

VARIABLES
    asked,      \* asked[a]: what was set last
    held,       \* held[a]: what a reader of account a gets
    durable     \* durable[a]: what is left of it after a crash

Init == /\ held \in [Accounts -> Values \cup {NoData}]
        /\ durable = held /\ asked = held

Set(a, v) == /\ held[a] # NoData
             /\ asked' = [asked EXCEPT ![a] = v]
             /\ held' = [held EXCEPT ![a] = v]
             /\ UNCHANGED durable

\* A new account is in the storage before anybody is told it exists.
Create(a, v) == /\ held[a] = NoData
                /\ asked' = [asked EXCEPT ![a] = v]
                /\ held' = [held EXCEPT ![a] = v]
                /\ durable' = [durable EXCEPT ![a] = v]

Sync(a) == /\ durable' = [durable EXCEPT ![a] = held[a]]
           /\ UNCHANGED <<asked, held>>

Crash == held' = durable /\ asked' = durable /\ UNCHANGED durable

Next == \/ \E a \in Accounts : Sync(a)
        \/ \E a \in Accounts, v \in Values : Set(a, v) \/ Create(a, v)
        \/ Crash

Spec == Init /\ [][Next]_<<asked, held, durable>>
=============================================================================
