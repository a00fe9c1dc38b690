----------------------------- MODULE MCLibraries -----------------------------
(* Small instances of two libraries: the search of the one-wire library,    *)
(* with codes of four bits and even parity (like the CRC, the parity tells  *)
(* a code from one with a single wrong bit, and accepts the code 0), and    *)
(* the Wire library, with a master whose buffer is longer than the slave's  *)
(* and two bytes of memory.  They share no variable: one of them moves in a *)
(* behaviour, the other rests in an initial state.                          *)
EXTENDS OneWireSearch, Wire

MCValid == {c \in Code : (c[1] + c[2] + c[3] + c[4]) % 2 = 0}
MCLength == [w \in Wires |-> IF w = "Wire" THEN 2 ELSE 3]

VARIABLE part  \* the one that moves

MCInit ==
    /\ part \in {"search", "wire"}
    /\ Init /\ WireInit
    /\ part # "search" => present = {}

Searches == part = "search" /\ Next /\ UNCHANGED <<wire_vars, part>>
Transfers == part = "wire" /\ WireNext /\ UNCHANGED <<vars, part>>

MCSpec ==
    /\ MCInit /\ [][Searches \/ Transfers]_<<vars, wire_vars, part>>
    /\ WF_vars(part = "search" /\ SearchStep)

(* The Wire library alone, for what its words promise. *)
MCWireSpec == MCInit /\ part = "wire" /\ [][Transfers]_<<vars, wire_vars, part>>
=============================================================================
