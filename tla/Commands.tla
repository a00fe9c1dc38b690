------------------------------- MODULE Commands -------------------------------
(***************************************************************************)
(* The commands a host sends to misterpico over UDP: udp_recv_cb parses    *)
(* each datagram on core 0 and drives the output pins; main_1 sets the     *)
(* pins up on core 1 and only then registers udp_recv_cb.                  *)
(*                                                                         *)
(* Bytes are numbers, as the code compares them: the operand of a command  *)
(* may have the value of a letter or of the byte that starts a command.    *)
(* A datagram is a sequence of commands that may stop in the middle of     *)
(* one; the sender's choice of the next command is made as its first byte  *)
(* is parsed.                                                              *)
(***************************************************************************)
EXTENDS Naturals, Sequences

CONSTANTS
    Pins,     \* indices of gpiooutpins
    Nums,     \* indices of pwmoutslice
    Levels    \* bound: the levels senders ask of PWM outputs

ASSUME PinsAssumption == Pins \subseteq 0 .. 15 /\ Nums \subseteq 0 .. 255
ASSUME LevelsAssumption == Levels \subseteq 0 .. 255 /\ 0 \in Levels

STX == 2          \* 0x02
GPIO == 49        \* 0x31
PWM == 50         \* 0x32
DebugOn == 100    \* 'd'
DebugOff == 68    \* 'D'

VARIABLES
    pins, level,         \* the GPIO outputs and the levels of the PWM slices
    text_debug,
    pc, state, temp, c,  \* udp_recv_cb: where it is, and its locals
    pc1, i, listening,   \* main_1; whether udp_recv_cb is registered
    cmd, k,              \* the sender's command, and its bytes parsed so far
    askedPins, askedLevel, askedDebug  \* history: what the commands parsed so far ask for

hw == <<pins, level>>
callback == <<pc, state, temp, c>>
core1 == <<pc1, i, listening>>
asked == <<askedPins, askedLevel, askedDebug>>
sender == <<cmd, k, asked>>
vars == <<hw, text_debug, callback, core1, sender>>

-----------------------------------------------------------------------------
(* The sender's side *)
GpioCommand == [kind : {"gpio"}, pin : Pins, out : {0, 1}, pull : {0, 1}, val : {0, 1}]
PwmCommand == [kind : {"pwm"}, num : Nums, level : Levels]
DebugCommand == [kind : {"debug"}, on : BOOLEAN]
Newline == [kind |-> "newline"]
Command == GpioCommand \cup PwmCommand \cup DebugCommand \cup {Newline}

GpioByte(n) == n.pin + 16 * n.out + 32 * n.pull + 64 * n.val

Bytes(n) ==
    CASE n.kind = "gpio" -> <<STX, GPIO, GpioByte(n)>>
      [] n.kind = "pwm" -> <<STX, PWM, n.num, n.level>>
      [] n.kind = "debug" -> <<IF n.on THEN DebugOn ELSE DebugOff>>
      [] OTHER -> <<10>>

(* What a pin is after a command.  The level is kept by an input, and the   *)
(* pull by an output.                                                       *)
Pull(pull, val) == IF pull = 0 THEN "none" ELSE IF val = 1 THEN "up" ELSE "down"
After(n, p) ==
    IF n.out = 1 THEN [p EXCEPT !.out = TRUE, !.level = n.val]
                 ELSE [p EXCEPT !.out = FALSE, !.pull = Pull(n.pull, n.val)]

Ask(n) ==
    /\ askedPins' = IF n.kind = "gpio" THEN [askedPins EXCEPT ![n.pin] = After(n, @)] ELSE askedPins
    /\ askedLevel' = IF n.kind = "pwm" THEN [askedLevel EXCEPT ![n.num] = n.level] ELSE askedLevel
    /\ askedDebug' = IF n.kind = "debug" THEN n.on ELSE askedDebug

-----------------------------------------------------------------------------
ResetPin == [out |-> FALSE, level |-> 0, pull |-> "down"]
SetupPin == [out |-> FALSE, level |-> 0, pull |-> "up"]

Init ==
    /\ pins = [p \in Pins |-> ResetPin] /\ level = [s \in Nums |-> 0]
    /\ text_debug = TRUE
    /\ pc = "idle" /\ state = 0 /\ temp = 0 /\ c = 0
    /\ pc1 = "gpio" /\ i = {} /\ listening = FALSE
    /\ cmd = Newline /\ k = 0
    /\ askedPins = [p \in Pins |-> SetupPin]
    /\ askedLevel = [s \in Nums |-> 0]
    /\ askedDebug = TRUE

(* main_1: setup_pwm, setup_gpio pin by pin (i: those done), setup_adc *)
SetupGpio ==
    /\ pc1 = "gpio" /\ i # Pins
    /\ \E p \in Pins \ i :
         /\ pins' = [pins EXCEPT ![p] = SetupPin]
         /\ i' = i \cup {p}
    /\ UNCHANGED <<level, text_debug, callback, pc1, listening, sender>>

SetupOthers ==
    /\ pc1 = "gpio" /\ i = Pins
    /\ level' = [s \in Nums |-> 0]
    /\ pc1' = "recv"
    /\ UNCHANGED <<pins, text_debug, callback, i, listening, sender>>

(* udp_recv(l_udp_pcb, udp_recv_cb, NULL) *)
Listen ==
    /\ pc1 = "recv"
    /\ listening' = TRUE
    /\ pc1' = "loop"
    /\ UNCHANGED <<hw, text_debug, callback, i, sender>>

-----------------------------------------------------------------------------
(* Mutant of Receive: the parser goes on where the last datagram ended *)
ReceiveKeepsState ==
    /\ pc = "idle" /\ listening
    /\ pc' = "byte"
    /\ cmd' = Newline /\ k' = 0
    /\ UNCHANGED <<hw, text_debug, state, temp, c, core1, asked>>

(* udp_recv_cb is called by lwIP; it frees the datagram when it returns *)
Receive ==
    /\ pc = "idle" /\ listening
    /\ pc' = "byte" /\ state' = 0 /\ temp' = 0
    /\ cmd' = Newline /\ k' = 0
    /\ UNCHANGED <<hw, text_debug, c, core1, asked>>

DatagramEnds ==
    /\ pc = "byte"
    /\ pc' = "idle"
    /\ UNCHANGED <<hw, text_debug, state, temp, c, core1, sender>>

(* The switch on state *)
AtStart(b) ==
    /\ state = 0
    /\ state' = IF b = STX THEN 1 ELSE 0
    /\ text_debug' = IF b = DebugOn THEN TRUE ELSE IF b = DebugOff THEN FALSE ELSE text_debug
    /\ UNCHANGED <<level, pc, temp, c>>

AtKind(b) ==
    /\ state = 1
    /\ state' = IF b = GPIO THEN 128 ELSE IF b = PWM THEN 144 ELSE 1
    /\ UNCHANGED <<level, text_debug, pc, temp, c>>

(* gpioout(c), which takes the steps below; state is 0 after it *)
AtGpio(b) ==
    /\ state = 128
    /\ c' = b
    /\ pc' = "put" /\ state' = 0
    /\ UNCHANGED <<level, text_debug, temp>>

AtSlice(b) ==
    /\ state = 144
    /\ temp' = b
    /\ state' = 145
    /\ UNCHANGED <<level, text_debug, pc, c>>

(* pwmout(temp, c) *)
AtLevel(b) ==
    /\ state = 145
    /\ level' = [level EXCEPT ![temp] = b]
    /\ state' = 0
    /\ UNCHANGED <<text_debug, pc, temp, c>>

Parse(b) == AtStart(b) \/ AtKind(b) \/ AtGpio(b) \/ AtSlice(b) \/ AtLevel(b)

(* The next byte: of the command that was started, or the first of another *)
Byte(n) ==
    /\ pc = "byte"
    /\ k # 0 => n = cmd
    /\ Parse(Bytes(n)[k + 1])
    /\ cmd' = n
    /\ k' = (k + 1) % Len(Bytes(n))
    /\ IF k' = 0 THEN Ask(n) ELSE UNCHANGED asked
    /\ UNCHANGED <<pins, core1>>

-----------------------------------------------------------------------------
(* gpioout *)
Bit(b, w) == (b \div w) % 2
Pin(b) == b % 16

(* Mutant of Put: the direction is set first *)
PutDirection ==
    /\ pc = "put"
    /\ pins' = [pins EXCEPT ![Pin(c)].out = (Bit(c, 16) = 1)]
    /\ pc' = "dir"
    /\ UNCHANGED <<level, text_debug, state, temp, c, core1, sender>>

(* gpio_put, or gpio_set_pulls *)
Put ==
    /\ pc = "put"
    /\ pins' = [pins EXCEPT ![Pin(c)] =
                  IF Bit(c, 16) = 1 THEN [@ EXCEPT !.level = Bit(c, 64)]
                                    ELSE [@ EXCEPT !.pull = Pull(Bit(c, 32), Bit(c, 64))]]
    /\ pc' = "dir"
    /\ UNCHANGED <<level, text_debug, state, temp, c, core1, sender>>

(* gpio_set_dir *)
SetDir ==
    /\ pc = "dir"
    /\ pins' = [pins EXCEPT ![Pin(c)].out = (Bit(c, 16) = 1)]
    /\ pc' = "byte"
    /\ UNCHANGED <<level, text_debug, state, temp, c, core1, sender>>

Setup == SetupGpio \/ SetupOthers \/ Listen
Next == \/ Setup \/ Receive \/ (\E n \in Command : Byte(n)) \/ Put \/ SetDir \/ DatagramEnds

Spec == Init /\ [][Next]_vars

-----------------------------------------------------------------------------
PinConfig == [out : BOOLEAN, level : {0, 1}, pull : {"up", "down", "none"}]

(* Type invariant of the parser and the pins. *)
TypeOK ==
    /\ pins \in [Pins -> PinConfig] /\ level \in [Nums -> 0 .. 255]
    /\ text_debug \in BOOLEAN
    /\ pc \in {"idle", "byte", "put", "dir"} /\ state \in {0, 1, 128, 144, 145}
    /\ temp \in Nat /\ c \in Nat
    /\ pc1 \in {"gpio", "recv", "loop"} /\ i \subseteq Pins /\ listening \in BOOLEAN
    /\ cmd \in Command /\ k \in 0 .. 3
    /\ askedPins \in [Pins -> PinConfig] /\ askedLevel \in [Nums -> Levels]
    /\ askedDebug \in BOOLEAN

(* Between two bytes everything is as the commands that came whole ask, in  *)
(* this datagram and those before: no operand is taken for a letter or the  *)
(* start of a command, a datagram that stops in the middle of a command     *)
(* does not disturb the next one, and setup never undoes a command          *)
(* (misterpico.c:538-580, 309-329, 647-653).                                *)
DoneAsAsked ==
    listening /\ pc \in {"idle", "byte"} =>
        /\ pins = askedPins
        /\ level = askedLevel
        /\ text_debug = askedDebug

(* A pin that becomes an output drives what the command asks from the first *)
(* moment, and one that becomes an input has its pull by then: its level    *)
(* and its pulls are set before its direction (misterpico.c:315-322).       *)
NoGlitch ==
    [][\A p \in Pins : listening /\ pins'[p].out # pins[p].out => pins'[p] = askedPins[p]]_vars
=============================================================================
