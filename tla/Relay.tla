-------------------------------- MODULE Relay --------------------------------
(***************************************************************************)
(* What the host programs promise their clients: each receives items in    *)
(* the order they were decoded, each at most once, and, unless it is one   *)
(* they gather without limit for, no more than so many wait for it.  Items *)
(* may be dropped, on the way in when there is no room and on the way out  *)
(* to a client that is not there.                                          *)
(***************************************************************************)
EXTENDS Naturals, Sequences

CONSTANTS
    Clients, Item    \* those who receive, and what

VARIABLES
    limited,   \* the clients with a limit
    capacity,  \* per client, how many items may wait if there is one
    pending,   \* per client, the items decoded and not yet sent
    got        \* per client, the items it has received

vars == <<limited, capacity, pending, got>>

Init ==
    /\ limited \subseteq Clients /\ capacity \in [Clients -> Nat]
    /\ pending = [c \in Clients |-> <<>>] /\ got = [c \in Clients |-> <<>>]

(* An item comes in *)
Offer(c) ==
    /\ c \in limited => Len(pending[c]) < capacity[c]
    /\ \E i \in Item : pending'[c] = Append(pending[c], i)
    /\ got'[c] = got[c]

(* The oldest items go out, and the first of them, all or none arrive *)
Deliver(c) ==
    \E n \in 1 .. Len(pending[c]), m \in 0 .. Len(pending[c]) :
        /\ m <= n
        /\ pending'[c] = SubSeq(pending[c], n + 1, Len(pending[c]))
        /\ got'[c] = got[c] \o SubSeq(pending[c], 1, m)

Rests(c) == pending'[c] = pending[c] /\ got'[c] = got[c]

Next ==
    /\ UNCHANGED <<limited, capacity>>
    /\ \A c \in Clients : Rests(c) \/ Offer(c) \/ Deliver(c)

Spec == Init /\ [][Next]_vars
=============================================================================
