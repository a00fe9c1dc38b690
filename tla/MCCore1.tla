------------------------------- MODULE MCCore1 -------------------------------
(* Small instances of what runs on core 1: the callback of its timer, the   *)
(* output loops of loop_1, of which two channels are read and the second is *)
(* always at its maximum, and the coder of pictures.  They share no         *)
(* variable, so that steps of two of them commute and one at a time moves   *)
(* in a behaviour; the others rest in one of their initial states.          *)
EXTENDS PwmIn, Core1Loop, OledRle

MCReadings == [x \in Channel |-> IF x = 0 THEN {0, 4095} ELSE {4095}]

VARIABLE part  \* the one that moves

MCInit ==
    /\ part \in {"callback", "loop", "coder"}
    /\ SamplerInit /\ Init /\ CoderInit
    /\ part # "callback" => now = 0 /\ level = [c \in Input |-> FALSE]
    /\ part # "coder" => length = 0

Callbacks == part = "callback" /\ SamplerNext /\ UNCHANGED <<vars, coder_vars, part>>
Loops == part = "loop" /\ Next /\ UNCHANGED <<sampler, coder_vars, part>>
Codes == part = "coder" /\ CoderNext /\ UNCHANGED <<sampler, vars, part>>
CodingEnds == part = "coder" /\ at = "sent" /\ UNCHANGED <<sampler, vars, coder_vars, part>>

MCSpec ==
    /\ MCInit /\ [][Callbacks \/ Loops \/ Codes \/ CodingEnds]_<<sampler, vars, coder_vars, part>>
    /\ WF_sampler(part = "callback" /\ Callback)
    /\ WF_sampler(part = "callback" /\ Tick)

(* Where the callback runs, its windows are closed again and again and a    *)
(* steady sample is reached exactly (misterpico.c:341-394).                 *)
SteadyInputIsReached == part = "callback" => SteadySampleIsReached
=============================================================================
