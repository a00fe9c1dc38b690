------------------------------ MODULE OneWireBus ------------------------------
(***************************************************************************)
(* The transactions of pico_1wire.c: contexts, the selection of a device,  *)
(* the power MOSFET, scratchpads and temperatures.  A program calls the    *)
(* library's functions in any order; devices come and go and finish their  *)
(* conversions at any moment.  The search is the module OneWireSearch.     *)
(*                                                                         *)
(* A scratchpad is [temp, th, cfg]: the reading (16 bits), the alarm       *)
(* registers and the resolution bits (0 .. 3 for 9 .. 12 bits).  Its CRC   *)
(* tells a scratchpad that was read from one device from anything else.    *)
(* The hooks loop_1() and loop_1_delay() are taken to return.              *)
(***************************************************************************)
EXTENDS Integers, FiniteSets

CONSTANTS
    Devices,     \* ROM codes
    Family,      \* of each device: "configurable", "DS18S20" or "other"
    ANY,         \* address 0: all devices
    BAD,         \* a scratchpad whose CRC is wrong
    Raw,         \* bound: the readings of each device
    Start,       \* its reading at power-on, 85 degrees
    Cfgs,        \* bound: resolutions the program asks for
    Remain,      \* COUNT_REMAIN of a DS18S20; its COUNT_PER_DEGREE is 16
    MaxChanges   \* bound: devices that come or go

MaxWord == 65535
Word == 0 .. MaxWord  \* uint16_t

ASSUME BusAssumption ==
    /\ ANY \notin Devices /\ Devices # {}
    /\ Family \in [Devices -> {"configurable", "DS18S20", "other"}]
    /\ Raw \in [Devices -> SUBSET Word]
    /\ Start \in [Devices -> Word]
    /\ Cfgs \subseteq 0 .. 3 /\ 3 \in Cfgs
    /\ Remain \in 0 .. 16 /\ MaxChanges \in Nat

Address == Devices \cup {ANY}
Alarm == 0 .. 1
Pad == [temp : UNION {Raw[d] \cup {Start[d]} : d \in Devices}, th : Alarm, cfg : Cfgs]
PowerOn == [d \in Devices |-> [temp |-> Start[d], th |-> 0, cfg |-> 3]]

VARIABLES
    ctx,                   \* pico_1wire_t
    alive,                 \* the context exists
    data, mosfet,          \* the data pin; the power pin turns the MOSFET on
    present, phantom,      \* devices on the bus; those without a supply of their own
    pad, converting,       \* their scratchpads; who is converting
    selected,              \* who heard its ROM command
    pc, call,              \* where the library is, and the call it is in
    buf, answer, result,   \* the scratchpad it holds, its output, its status
    changes,
    covered,               \* history: the devices the last reading of psu_present asked
    disturbed,             \* history: what the devices did during this call
    latest, before         \* history: what each device measured last; the pads
                           \* when set_resolution was called

devices == <<present, phantom, pad, converting, changes>>
vars == <<ctx, alive, data, mosfet, devices, selected, pc, call, buf, answer, result,
          covered, disturbed, latest, before>>

None == -1
NoCall == [op |-> "none", addr |-> ANY, arg |-> 0]
Some == CHOOSE p \in Pad : TRUE

-----------------------------------------------------------------------------
(* The arithmetic of C: an int16_t, and a division that rounds to zero *)
Int16(x) == IF x % 65536 < 32768 THEN x % 65536 ELSE (x % 65536) - 65536
Truncated(a, b) == IF a >= 0 THEN a \div b ELSE -((-a) \div b)

(* temp_read: a negative one n is replaced by -((n ^ 0xffff) + 1), where    *)
(* n ^ 0xffff flips the lower half of an int, and the result is narrowed    *)
Reading(raw) ==
    IF Int16(raw) >= 0 THEN Int16(raw)
    ELSE Int16(-(-65536 + (65535 - raw) + 1))

(* Mutant of Temperature: the result is not narrowed to a uint16_t *)
TemperatureSigned(family, raw) == Truncated(100 * Reading(raw), 16)

(* Mutant of Temperature: the product is computed in sixteen bits *)
TemperatureNarrow(family, raw) ==
    IF family = "DS18S20"
    THEN ((Reading(raw) * 50 - 25) + (100 * (16 - Remain)) \div 16) % 65536
    ELSE Truncated(Int16(100 * Reading(raw)), 16) % 65536

(* Hundredths of a degree, in a uint16_t: 65536 more for those below zero *)
Temperature(family, raw) ==
    IF family = "DS18S20"
    THEN ((Reading(raw) * 50 - 25) + (100 * (16 - Remain)) \div 16) % 65536
    ELSE Truncated(100 * Reading(raw), 16) % 65536

(* Milliseconds of a conversion, by the resolution bits *)
Duration(cfg) == CASE cfg = 0 -> 95 [] cfg = 1 -> 190 [] cfg = 2 -> 375 [] OTHER -> 750

(* What the sensors can measure is far from the ends of an int16_t of       *)
(* hundredths of a degree, -327.68 and 327.67; they go from -55 to 125.     *)
Unit(family) == IF family = "DS18S20" THEN 2 ELSE 16
ASSUME Measurable ==
    \A d \in Devices : \A m \in Raw[d] :
        /\ Int16(m) <= 300 * Unit(Family[d])
        /\ Int16(m) >= -300 * Unit(Family[d])

FamilyOf(addr) == IF addr = ANY THEN "other" ELSE Family[addr]
FamilyHere == FamilyOf(call.addr)

-----------------------------------------------------------------------------
Init ==
    /\ ctx \in [power_available : BOOLEAN, power_state : BOOLEAN, psu_present : {FALSE}]
    /\ ctx.power_state => ctx.power_available
    /\ alive = FALSE
    /\ data = "in" /\ mosfet = FALSE
    /\ present \in SUBSET Devices /\ phantom \in SUBSET present
    /\ pad = PowerOn /\ converting = {} /\ selected = {}
    /\ pc = "idle" /\ call = NoCall
    /\ buf = BAD /\ answer = None /\ result = 0 /\ changes = 0
    /\ covered = {} /\ disturbed = "no"
    /\ latest = [d \in Devices |-> None] /\ before = pad

(* A return drops the function's buffer and frees the bus *)
Return(status) ==
    /\ pc' = "idle" /\ result' = status
    /\ buf' = BAD /\ selected' = {}

(* power_mosfet_on and power_mosfet_off *)
MosfetOn == mosfet' = (mosfet \/ ctx.power_available)
MosfetOff == mosfet' = (mosfet /\ ~ctx.power_available)

(* Where a slot leaves the data pin: write_byte drives it high, read_byte   *)
(* and read_bit release it                                                  *)
WriteByte == data' = "high"
ReadByte == data' = "in"

-----------------------------------------------------------------------------
(* pico_1wire_init: the power pin is an output driving 0 before it is set   *)
(* to off; then the power supplies of the whole bus are read                *)
New ==
    /\ pc = "idle" /\ ~alive
    /\ alive' = TRUE
    /\ data' = "in"
    /\ mosfet' = IF ctx.power_available THEN ~ctx.power_state ELSE mosfet
    /\ pc' = "new"
    /\ UNCHANGED <<ctx, devices, selected, call, buf, answer, result,
                   covered, disturbed, latest, before>>

NewOff ==
    /\ pc = "new"
    /\ MosfetOff
    /\ ctx' = [ctx EXCEPT !.psu_present = TRUE]
    /\ call' = [op |-> "power", addr |-> ANY, arg |-> 0]
    /\ answer' = None /\ covered' = {} /\ disturbed' = "no"
    /\ pc' = "reset"
    /\ UNCHANGED <<alive, data, devices, selected, buf, result, latest, before>>

(* pico_1wire_destroy: the power pin is left as it is *)
Destroy ==
    /\ pc = "idle" /\ alive
    /\ alive' = FALSE
    /\ data' = "in"
    /\ call' = NoCall /\ answer' = None /\ result' = 0
    /\ disturbed' = "no" /\ before' = PowerOn
    /\ UNCHANGED <<ctx, mosfet, devices, selected, pc, buf, covered, latest>>

(* A call of another function.  arg is `wait' of convert_temperature and    *)
(* the resolution bits of set_resolution; b is what write_scratch_pad is    *)
(* given.  Calls that are refused with -1 change nothing: get_resolution    *)
(* and set_resolution of address 0, resolutions outside 9 .. 12.            *)
Enter(op, addr, arg, b, next) ==
    /\ pc = "idle" /\ alive
    /\ call' = [op |-> op, addr |-> addr, arg |-> arg]
    /\ buf' = b
    /\ answer' = None /\ result' = 0 /\ disturbed' = "no"
    /\ before' = IF op = "set" THEN pad ELSE PowerOn
    /\ pc' = next
    /\ UNCHANGED <<ctx, alive, data, mosfet, devices, selected, covered, latest>>

Call ==
    \/ \E op \in {"reset", "rom"} : Enter(op, ANY, 0, BAD, "reset")
    \/ \E addr \in Address, op \in {"power", "read", "temperature"} :
          Enter(op, addr, 0, BAD, "reset")
    \/ \E addr \in Address, wait \in {0, 1} : Enter("convert", addr, wait, BAD, "reset")
    \/ \E addr \in Devices : Enter("resolution", addr, 0, BAD, "reset")
    \/ \E addr \in Devices, cfg \in Cfgs : Enter("set", addr, cfg, BAD, "reset")
    \/ \E addr \in Address, th \in Alarm, cfg \in Cfgs :
          Enter("write", addr, 0, [Some EXCEPT !.th = th, !.cfg = cfg], "reset")

(* pico_1wire_convert_duration asks only a device whose resolution can be set *)
CallDuration ==
    \E addr \in Address :
        Enter("duration", addr, 0, BAD,
              IF FamilyOf(addr) = "configurable" THEN "reset" ELSE "told")

-----------------------------------------------------------------------------
(* pico_1wire_reset_bus: the pulse, and the presence of devices *)

(* Mutant of ResetPulse: the MOSFET is not switched off first *)
ResetPulseOnly ==
    /\ pc = "reset"
    /\ data' = "low"
    /\ converting' = converting \ phantom
    /\ pc' = "presence"
    /\ UNCHANGED <<ctx, alive, mosfet, present, phantom, pad, changes, selected, call, buf,
                   answer, result, covered, disturbed, latest, before>>

(* The pulse takes the power of those that draw it from the bus *)
ResetPulse ==
    /\ pc = "reset"
    /\ MosfetOff
    /\ data' = "low"
    /\ converting' = converting \ phantom
    /\ pc' = "presence"
    /\ UNCHANGED <<ctx, alive, present, phantom, pad, changes, selected, call, buf,
                   answer, result, covered, disturbed, latest, before>>

Presence ==
    /\ pc = "presence"
    /\ data' = "in"
    /\ pc' = IF present = {} THEN "absent" ELSE IF call.op = "reset" THEN "found" ELSE "rom"
    /\ UNCHANGED <<ctx, alive, mosfet, devices, selected, call, buf, answer, result,
                   covered, disturbed, latest, before>>

(* reset_bus returns TRUE *)
Found ==
    /\ pc = "found"
    /\ Return(0)
    /\ UNCHANGED <<ctx, alive, data, mosfet, devices, call, answer,
                   covered, disturbed, latest, before>>

(* No device answered: every function says so but convert_duration, which   *)
(* goes on with its guess; set_resolution has another status for its second *)
(* transaction                                                              *)
Absent ==
    /\ pc = "absent"
    /\ IF call.op = "duration" THEN pc' = "told" /\ UNCHANGED <<result, buf, selected>>
       ELSE Return(IF call.op = "set" /\ buf # BAD THEN 2 ELSE 1)
    /\ UNCHANGED <<ctx, alive, data, mosfet, devices, call, answer,
                   covered, disturbed, latest, before>>

(* Mutant of MatchRom: the address is not sent *)
SkipRom ==
    /\ pc = "rom"
    /\ WriteByte
    /\ selected' = present
    /\ pc' = "command"
    /\ UNCHANGED <<ctx, alive, mosfet, devices, call, buf, answer, result,
                   covered, disturbed, latest, before>>

(* match_rom, and CMD_READ of read_rom, which every device hears *)
MatchRom ==
    /\ pc = "rom"
    /\ WriteByte
    /\ selected' = IF call.addr = ANY THEN present
                   ELSE present \cap {call.addr}
    /\ pc' = "command"
    /\ UNCHANGED <<ctx, alive, mosfet, devices, call, buf, answer, result,
                   covered, disturbed, latest, before>>

-----------------------------------------------------------------------------
(* pico_1wire_read_rom: codes sent by several devices at once may have a    *)
(* good sum or a bad one; silence has a bad one                             *)
ReadRom ==
    /\ pc = "command" /\ call.op = "rom"
    /\ ReadByte
    /\ \E status \in {0, 2} :
         /\ Cardinality(selected) = 1 => status = 0
         /\ selected = {} => status = 2
         /\ Return(status)
    /\ UNCHANGED <<ctx, alive, mosfet, devices, call, answer,
                   covered, disturbed, latest, before>>

(* Mutant of ReadPower: a bus once seen without phantom power stays so *)
ReadPowerKept ==
    /\ pc = "command" /\ call.op = "power"
    /\ ReadByte
    /\ ctx' = [ctx EXCEPT !.psu_present = ctx.psu_present \/ selected \cap phantom = {}]
    /\ covered' = selected
    /\ answer' = IF ctx'.psu_present THEN 1 ELSE 0
    /\ Return(0)
    /\ UNCHANGED <<alive, mosfet, devices, call, disturbed, latest, before>>

(* pico_1wire_read_power_supply: a device without a supply pulls the bit low *)
ReadPower ==
    /\ pc = "command" /\ call.op = "power"
    /\ ReadByte
    /\ ctx' = [ctx EXCEPT !.psu_present = (selected \cap phantom = {})]
    /\ covered' = selected
    /\ answer' = IF ctx'.psu_present THEN 1 ELSE 0
    /\ Return(0)
    /\ UNCHANGED <<alive, mosfet, devices, call, disturbed, latest, before>>

(* What read_scratch_pad receives: several devices at once spoil the sum,   *)
(* unless what they send comes to one scratchpad                            *)
Received ==
    CASE selected = {} -> {BAD}
      [] Cardinality(selected) = 1 -> {pad[d] : d \in selected}
      [] OTHER -> {BAD} \cup {pad[d] : d \in selected}

ReadPad ==
    /\ pc = "command"
    /\ \/ call.op \in {"read", "temperature", "resolution", "duration"}
       \/ call.op = "set" /\ buf = BAD
    /\ ReadByte
    /\ buf' \in Received
    /\ pc' = "received"
    /\ UNCHANGED <<ctx, alive, mosfet, devices, selected, call, answer, result,
                   covered, disturbed, latest, before>>

(* After the scratchpad.  Status of a bad one: 2 from read_scratch_pad, 1   *)
(* from those who called it                                                 *)
BadPad ==
    /\ pc = "received" /\ buf = BAD
    /\ IF call.op = "duration" THEN pc' = "told" /\ UNCHANGED <<result, buf, selected>>
       ELSE Return(IF call.op = "read" THEN 2 ELSE 1)
    /\ UNCHANGED <<ctx, alive, data, mosfet, devices, call, answer,
                   covered, disturbed, latest, before>>

PadRead ==
    /\ pc = "received" /\ buf # BAD /\ call.op = "read"
    /\ Return(0)
    /\ UNCHANGED <<ctx, alive, data, mosfet, devices, call, answer,
                   covered, disturbed, latest, before>>

(* pico_1wire_get_temperature *)
TemperatureRead ==
    /\ pc = "received" /\ buf # BAD /\ call.op = "temperature"
    /\ answer' = Temperature(FamilyHere, buf.temp)
    /\ Return(IF FamilyHere = "other" THEN 2 ELSE 0)
    /\ UNCHANGED <<ctx, alive, data, mosfet, devices, call,
                   covered, disturbed, latest, before>>

(* pico_1wire_get_resolution *)
ResolutionRead ==
    /\ pc = "received" /\ buf # BAD /\ call.op = "resolution"
    /\ answer' = CASE FamilyHere = "configurable" -> buf.cfg + 9
                   [] FamilyHere = "DS18S20" -> 9
                   [] OTHER -> 0
    /\ Return(IF FamilyHere = "other" THEN 2 ELSE 0)
    /\ UNCHANGED <<ctx, alive, data, mosfet, devices, call,
                   covered, disturbed, latest, before>>

(* pico_1wire_set_resolution: the second transaction writes what was read,  *)
(* with the new resolution                                                  *)
ResolutionChosen ==
    /\ pc = "received" /\ buf # BAD /\ call.op = "set"
    /\ IF FamilyHere = "configurable"
         THEN /\ buf' = [buf EXCEPT !.cfg = call.arg]
              /\ pc' = "reset"
              /\ UNCHANGED <<selected, result>>
         ELSE Return(3)
    /\ UNCHANGED <<ctx, alive, data, mosfet, devices, call, answer,
                   covered, disturbed, latest, before>>

(* pico_1wire_convert_duration, without a scratchpad or with one *)
Told ==
    /\ \/ pc = "told"
       \/ pc = "received" /\ buf # BAD /\ call.op = "duration"
    /\ answer' = IF buf = BAD THEN 750 ELSE Duration(buf.cfg)
    /\ Return(0)
    /\ UNCHANGED <<ctx, alive, data, mosfet, devices, call,
                   covered, disturbed, latest, before>>

(* pico_1wire_write_scratch_pad.  A DS18S20 has no configuration register.  *)
WritePad ==
    /\ pc = "command"
    /\ \/ call.op = "write"
       \/ call.op = "set" /\ buf # BAD
    /\ WriteByte
    /\ pad' = [d \in Devices |->
                 IF d \notin selected THEN pad[d]
                 ELSE [pad[d] EXCEPT !.th = buf.th,
                                     !.cfg = IF "DS18S20" \in {FamilyHere, Family[d]}
                                             THEN @ ELSE buf.cfg]]
    /\ Return(0)
    /\ UNCHANGED <<ctx, alive, mosfet, present, phantom, converting, changes, call, answer,
                   covered, disturbed, latest, before>>

(* pico_1wire_convert_temperature: the command, then the MOSFET, then the   *)
(* 750 ms in which every device gets ready, then the MOSFET again           *)
Convert ==
    /\ pc = "command" /\ call.op = "convert"
    /\ WriteByte
    /\ converting' = converting \cup selected
    /\ pc' = "power"
    /\ UNCHANGED <<ctx, alive, mosfet, present, phantom, pad, changes, selected, call, buf,
                   answer, result, covered, disturbed, latest, before>>

PowerConversion ==
    /\ pc = "power"
    /\ IF ctx.psu_present THEN UNCHANGED mosfet ELSE MosfetOn
    /\ IF call.arg = 1 THEN pc' = "sleep" /\ UNCHANGED <<result, buf, selected>> ELSE Return(0)
    /\ UNCHANGED <<ctx, alive, data, devices, call, answer,
                   covered, disturbed, latest, before>>

Slept ==
    /\ pc = "sleep" /\ converting = {}
    /\ IF ctx.psu_present THEN UNCHANGED mosfet ELSE MosfetOff
    /\ Return(0)
    /\ UNCHANGED <<ctx, alive, data, devices, call, answer,
                   covered, disturbed, latest, before>>

Library ==
    \/ New \/ NewOff \/ Destroy \/ Call \/ CallDuration
    \/ ResetPulse \/ Presence \/ Found \/ Absent \/ MatchRom
    \/ ReadRom \/ ReadPower \/ ReadPad \/ BadPad \/ PadRead
    \/ TemperatureRead \/ ResolutionRead \/ ResolutionChosen \/ Told
    \/ WritePad \/ Convert \/ PowerConversion \/ Slept

-----------------------------------------------------------------------------
(* Devices.  One that comes starts with its power-on scratchpad.            *)
Changed == /\ changes < MaxChanges /\ changes' = changes + 1
           /\ disturbed' = "changed"
           /\ UNCHANGED <<ctx, alive, data, mosfet, pc, call, buf, answer, result, before>>

Plug(d) ==
    /\ Changed
    /\ d \notin present /\ present' = present \cup {d}
    /\ phantom' \in {phantom \ {d}, phantom \cup {d}}
    /\ UNCHANGED <<pad, converting, selected, covered, latest>>

Unplug(d) ==
    /\ Changed
    /\ d \in present /\ present' = present \ {d}
    /\ phantom' = phantom \ {d}
    /\ pad' = [pad EXCEPT ![d] = PowerOn[d]]
    /\ converting' = converting \ {d}
    /\ selected' = selected \ {d}
    /\ covered' = covered \ {d}
    /\ latest' = [latest EXCEPT ![d] = None]

(* A conversion ends with a reading, if the device has power *)
ConversionEnds(d) ==
    /\ d \in converting
    /\ \/ d \notin phantom
       \/ mosfet
       \/ data = "high"
    /\ converting' = converting \ {d}
    /\ \E m \in Raw[d] : /\ pad' = [pad EXCEPT ![d].temp = m]
                      /\ latest' = [latest EXCEPT ![d] = m]
    /\ disturbed' = IF disturbed = "no" THEN "measured" ELSE disturbed
    /\ UNCHANGED <<ctx, alive, data, mosfet, present, phantom, changes, selected, pc, call,
                   buf, answer, result, covered, before>>

Next == Library \/ \E d \in Devices : Plug(d) \/ Unplug(d) \/ ConversionEnds(d)

Spec == Init /\ [][Next]_vars

-----------------------------------------------------------------------------
(* Every variable has its type; in particular what get_temperature stores   *)
(* is a uint16_t.                                                           *)
TypeOK ==
    /\ ctx \in [power_available : BOOLEAN, power_state : BOOLEAN, psu_present : BOOLEAN]
    /\ alive \in BOOLEAN /\ data \in {"in", "low", "high"} /\ mosfet \in BOOLEAN
    /\ selected \subseteq present /\ converting \subseteq present
    /\ present \subseteq Devices /\ phantom \subseteq Devices /\ covered \subseteq Devices
    /\ pad \in [Devices -> Pad] /\ before \in [Devices -> Pad]
    /\ \A d \in Devices : latest[d] \in Raw[d] \cup {None}
    /\ call.addr \in Address /\ call.arg \in 0 .. 3
    /\ buf \in Pad \cup {BAD} /\ result \in 0 .. 3
    /\ (answer = None \/ answer \in Word)
    /\ changes \in 0 .. MaxChanges /\ disturbed \in {"no", "measured", "changed"}

(* The strong pull-up and the pin never drive the bus against each other:   *)
(* whatever the program called before and however it left the MOSFET, it is *)
(* off whenever the library pulls the bus low for a reset (misterpico's own *)
(* loop starts conversions without waiting).                                *)
NoContention == data = "low" => ~mosfet

(* A conversion of a device that draws its power from the bus has the       *)
(* MOSFET on until it ends or the bus is used again, provided the last      *)
(* read_power_supply asked that device too: psu_present is one flag for the *)
(* whole bus, kept from one call to the next.                               *)
ConversionPowered ==
    /\ alive /\ pc \in {"idle", "sleep"}
    /\ ctx.power_available /\ converting \cap phantom \cap covered # {}
    => mosfet

Finished(op) == pc = "idle" /\ call.op = op /\ result = 0

(* get_temperature returns 0 with what the device measured last, also when  *)
(* others measure, answer or have the same reading: for a reading above     *)
(* zero, as hundredths of a degree; a DS18S20's differs from its half       *)
(* degrees by three quarters of a degree at most (pico_1wire.c:568-614).    *)
Answered == Finished("temperature") /\ disturbed = "no" /\ latest[call.addr] # None
Measured == Int16(latest[call.addr])
ReadingIsLatest ==
    Answered /\ Measured > 0
        => IF FamilyHere = "DS18S20" THEN answer - 50 * Measured \in -25 .. 75
           ELSE answer = (100 * Measured) \div 16

(* pico_1wire.h:249 of get_temperature: "return latest temperature          *)
(* measuremt in Celcius degrees"; so it is within a degree of what the      *)
(* device measured.  The code stores hundredths.                            *)
ReadingInCelsius ==
    Answered => LET u == Unit(FamilyHere) IN u * answer - Measured \in -u .. u

(* misterpico.c:439 of the uint16_t the firmware reads a sensor into, prints *)
(* with %d and sends as two bytes: "Centidegrees: degrees C*100"; so it is  *)
(* within a degree of a hundred times what the device measured.  Below zero *)
(* it is 65536 more.                                                        *)
Centidegrees ==
    Answered => LET u == Unit(FamilyHere) IN u * answer - 100 * Measured \in -99 * u .. 99 * u

(* When set_resolution returns 0 on a bus that did not change, the device   *)
(* has the resolution asked for and its own alarm registers, and the        *)
(* registers of every other device are untouched, although the scratchpad   *)
(* was read in one transaction and written in another.                      *)
ResolutionSet ==
    Finished("set") /\ disturbed # "changed"
        => \A d \in Devices :
             /\ pad[d].th = before[d].th
             /\ pad[d].cfg = IF d = call.addr THEN call.arg ELSE before[d].cfg
=============================================================================
