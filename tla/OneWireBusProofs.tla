-------------------------- MODULE OneWireBusProofs --------------------------
(***************************************************************************)
(* Proofs about the power MOSFET and the conversions of the one-wire bus,  *)
(* for every number and kind of devices and every sequence of calls.       *)
(***************************************************************************)
EXTENDS OneWireBus, FiniteSetTheorems, TLAPS

-----------------------------------------------------------------------------
(* The types the argument needs *)
Typed ==
    /\ ctx \in [power_available : BOOLEAN, power_state : BOOLEAN, psu_present : BOOLEAN]
    /\ alive \in BOOLEAN /\ mosfet \in BOOLEAN

(* Only devices on the bus convert, hear commands, or were asked *)
Here == converting \subseteq present /\ selected \subseteq present /\ covered \subseteq present

(* The MOSFET is on only where there is one; the pulse is low with it off *)
Wired == mosfet => ctx.power_available
Quiet == data = "low" => pc = "presence" /\ ~mosfet

(* psu_present speaks for whoever was asked and is still there *)
Known == covered \cap phantom # {} => ~ctx.psu_present

(* From the pulse to the end of a transaction nobody converts on power from *)
(* the bus, unless the transaction itself started it                        *)
Drained ==
    pc \in {"presence", "absent", "found", "rom", "command", "received"}
        => converting \cap phantom = {}

(* ConversionPowered, also while the next call has not pulsed the bus *)
Powered ==
    /\ alive /\ pc \in {"idle", "sleep", "reset", "told"}
    /\ ctx.power_available /\ converting \cap phantom \cap covered # {}
    => mosfet

BusInv == Typed /\ Here /\ Wired /\ Quiet /\ Known /\ Drained /\ Powered

LEMMA BusInit == Init => BusInv
<1> SUFFICES ASSUME Init PROVE BusInv
  OBVIOUS
<1>1. Typed
  BY DEF Init, Typed
<1>2. Here /\ Wired /\ Quiet /\ Known /\ Drained /\ Powered
  BY DEF Init, Here, Wired, Quiet, Known, Drained, Powered
<1> QED
  BY <1>1, <1>2 DEF BusInv

(* Starting and ending contexts and calls *)
LEMMA CallsKeepBusInv ==
    ASSUME BusInv, New \/ NewOff \/ Destroy \/ Call \/ CallDuration
    PROVE  BusInv'
<1> USE DEF BusInv, Typed, Here, Wired, Quiet, Known, Drained, Powered, devices
<1>1. CASE New
  BY <1>1 DEF New
<1>2. CASE NewOff
  BY <1>2 DEF NewOff, MosfetOff
<1>3. CASE Destroy
  BY <1>3 DEF Destroy
<1>4. ASSUME NEW op, NEW addr, NEW arg, NEW b, NEW next \in {"reset", "told"},
             Enter(op, addr, arg, b, next)
      PROVE  BusInv'
  BY <1>4 DEF Enter
<1>5. CASE Call
  BY <1>4, <1>5 DEF Call
<1>6. CASE CallDuration
  BY <1>4, <1>6 DEF CallDuration
<1> QED
  BY <1>1, <1>2, <1>3, <1>5, <1>6

(* A reset and the addressing of devices *)
LEMMA AddressingKeepsBusInv ==
    ASSUME BusInv, ResetPulse \/ Presence \/ Found \/ Absent \/ MatchRom
    PROVE  BusInv'
<1> USE DEF BusInv, Typed, Here, Wired, Quiet, Known, Drained, Powered, devices
<1>1. CASE ResetPulse
  BY <1>1 DEF ResetPulse, MosfetOff
<1>2. CASE Presence
  BY <1>2 DEF Presence
<1>3. CASE Found
  BY <1>3 DEF Found, Return
<1>4. CASE Absent
  BY <1>4 DEF Absent, Return
<1>5. CASE MatchRom
  BY <1>5 DEF MatchRom, WriteByte
<1> QED
  BY <1>1, <1>2, <1>3, <1>4, <1>5

(* Commands that only read *)
LEMMA ReadingKeepsBusInv ==
    ASSUME BusInv, ReadRom \/ ReadPower \/ ReadPad \/ BadPad \/ PadRead
    PROVE  BusInv'
<1> USE DEF BusInv, Typed, Here, Wired, Quiet, Known, Drained, Powered, devices
<1>1. CASE ReadRom
  BY <1>1 DEF ReadRom, Return, ReadByte
<1>2. CASE ReadPower
  BY <1>2 DEF ReadPower, Return, ReadByte
<1>3. CASE ReadPad
  BY <1>3 DEF ReadPad, ReadByte
<1>4. CASE BadPad
  BY <1>4 DEF BadPad, Return
<1>5. CASE PadRead
  BY <1>5 DEF PadRead, Return
<1> QED
  BY <1>1, <1>2, <1>3, <1>4, <1>5

LEMMA AnswersKeepBusInv ==
    ASSUME BusInv, TemperatureRead \/ ResolutionRead \/ ResolutionChosen \/ Told
    PROVE  BusInv'
<1> USE DEF BusInv, Typed, Here, Wired, Quiet, Known, Drained, Powered, devices
<1>1. CASE TemperatureRead
  BY <1>1 DEF TemperatureRead, Return
<1>2. CASE ResolutionRead
  BY <1>2 DEF ResolutionRead, Return
<1>3. CASE ResolutionChosen
  BY <1>3 DEF ResolutionChosen, Return
<1>4. CASE Told
  BY <1>4 DEF Told, Return
<1> QED
  BY <1>1, <1>2, <1>3, <1>4

(* Commands that write or convert *)
LEMMA CommandsKeepBusInv ==
    ASSUME BusInv, WritePad \/ Convert \/ PowerConversion \/ Slept
    PROVE  BusInv'
<1> USE DEF BusInv, Typed, Here, Wired, Quiet, Known, Drained, Powered, devices
<1>1. CASE WritePad
  BY <1>1 DEF WritePad, Return, WriteByte
<1>2. CASE Convert
  BY <1>2 DEF Convert, WriteByte
<1>3. CASE PowerConversion
  BY <1>3 DEF PowerConversion, Return, MosfetOn
<1>4. CASE Slept
  BY <1>4 DEF Slept, Return, MosfetOff
<1> QED
  BY <1>1, <1>2, <1>3, <1>4

(* Devices that come, go and finish *)
LEMMA DevicesKeepBusInv ==
    ASSUME BusInv, NEW d \in Devices, Plug(d) \/ Unplug(d) \/ ConversionEnds(d)
    PROVE  BusInv'
<1> USE DEF BusInv, Typed, Here, Wired, Quiet, Known, Drained, Powered, devices
<1>1. CASE Plug(d)
  <2>1. covered' \cap phantom' = covered \cap phantom
    BY <1>1 DEF Plug
  <2>2. converting' \cap phantom' = converting \cap phantom
    BY <1>1 DEF Plug
  <2> QED
    BY <1>1, <2>1, <2>2 DEF Plug, Changed
<1>2. CASE Unplug(d)
  BY <1>2 DEF Unplug, Changed
<1>3. CASE ConversionEnds(d)
  BY <1>3 DEF ConversionEnds
<1> QED
  BY <1>1, <1>2, <1>3

LEMMA NextKeepsBusInv == BusInv /\ [Next]_vars => BusInv'
<1> SUFFICES ASSUME BusInv, [Next]_vars PROVE BusInv'
  OBVIOUS
<1>1. CASE Library
  BY <1>1, CallsKeepBusInv, AddressingKeepsBusInv, ReadingKeepsBusInv, AnswersKeepBusInv,
     CommandsKeepBusInv DEF Library
<1>2. ASSUME NEW d \in Devices, Plug(d) \/ Unplug(d) \/ ConversionEnds(d)
      PROVE  BusInv'
  BY <1>2, DevicesKeepBusInv
<1>3. CASE UNCHANGED vars
  BY <1>3 DEF vars, devices, BusInv, Typed, Here, Wired, Quiet, Known, Drained, Powered
<1> QED
  BY <1>1, <1>2, <1>3 DEF Next

LEMMA BusInvariant == Spec => []BusInv
<1> QED
  BY BusInit, NextKeepsBusInv, PTL DEF Spec

-----------------------------------------------------------------------------
(* Whatever a program calls and in which order, the strong pull-up is off   *)
(* while the library pulls the bus low (pico_1wire.c:329-333).              *)
THEOREM BusNoContention == Spec => []NoContention
<1>1. BusInv => NoContention
  BY DEF BusInv, Quiet, NoContention
<1> QED
  BY <1>1, BusInvariant, PTL

(* A device that draws its power from the bus and was asked about it last   *)
(* converts with the MOSFET on, whoever else is on the bus                  *)
(* (pico_1wire.c:444, 555-556).                                             *)
THEOREM BusConversionPowered == Spec => []ConversionPowered
<1>1. BusInv => ConversionPowered
  BY DEF BusInv, Powered, ConversionPowered
<1> QED
  BY <1>1, BusInvariant, PTL

-----------------------------------------------------------------------------
(* Type correctness.  What each part mentions, and who changes it. *)

BusTyped ==
    /\ data \in {"in", "low", "high"}
    /\ present \subseteq Devices /\ phantom \subseteq Devices
    /\ changes \in 0 .. MaxChanges /\ disturbed \in {"no", "measured", "changed"}

PadsTyped ==
    /\ pad \in [Devices -> Pad] /\ before \in [Devices -> Pad]
    /\ latest \in [Devices -> Int] /\ \A d \in Devices : latest[d] \in Raw[d] \cup {None}

(* A call of write_scratch_pad has something to write until it returns *)
CallTyped ==
    /\ call.addr \in Address /\ call.arg \in 0 .. 3
    /\ buf \in Pad \cup {BAD} /\ result \in 0 .. 3
    /\ call.op = "write" /\ pc \notin {"idle", "absent"} => buf \in Pad
    /\ call.op = "set" => call.arg \in Cfgs

AnswerTyped == answer = None \/ answer \in Word

(* Where the library is tells what it was called for *)
Places ==
    /\ ~alive \/ pc = "new" => call.op = "none"
    /\ pc # "idle" => alive
    /\ pc = "found" => call.op = "reset"
    /\ pc = "told" => call.op = "duration"
    /\ pc \in {"power", "sleep"} => call.op = "convert"
    /\ pc = "received" => call.op \in {"read", "temperature", "resolution", "duration", "set"}

LEMMA WordRange ==
    /\ \A x : x \in Word <=> x \in Nat /\ x < 65536
    /\ \A x \in Int : x % 65536 \in Word
<1>1. MaxWord \in Nat /\ \A x \in Nat : x <= MaxWord <=> x < 65536
  BY SMT DEF MaxWord
<1>2. \A x : x \in Word <=> x \in Nat /\ x < 65536
  BY <1>1, SMT DEF Word
<1>3. \A x \in Int : x % 65536 \in Nat /\ x % 65536 < 65536
  BY SMT
<1> QED
  BY <1>2, <1>3, SMT

LEMMA PadNotEmpty ==
    /\ Some \in Pad
    /\ PowerOn \in [Devices -> Pad]
    /\ \A p \in Pad, th \in Alarm, cfg \in Cfgs :
          /\ [p EXCEPT !.th = th, !.cfg = cfg] \in Pad /\ [p EXCEPT !.cfg = cfg] \in Pad
          /\ [p EXCEPT !.th = th, !.cfg = cfg].th = th
          /\ [p EXCEPT !.th = th, !.cfg = cfg].cfg = cfg
    /\ \A p \in Pad : p.th \in Alarm /\ p.cfg \in Cfgs /\ p.cfg \in 0 .. 3
                      /\ p.temp \in Word
    /\ \A d \in Devices : \A m \in Raw[d], p \in Pad :
          [p EXCEPT !.temp = m] \in Pad /\ [p EXCEPT !.temp = m].temp = m
<1> DEFINE Temps == UNION {Raw[d] \cup {Start[d]} : d \in Devices}
<1>1. \A d \in Devices : Start[d] \in Temps /\ \A m \in Raw[d] : m \in Temps
  OBVIOUS
<1>2. Pad = [temp : Temps, th : Alarm, cfg : Cfgs]
  BY DEF Pad
<1> HIDE DEF Temps
<1>3. 0 \in Alarm /\ 3 \in Cfgs /\ Cfgs \subseteq 0 .. 3
  BY BusAssumption DEF Alarm
<1>4. PowerOn \in [Devices -> Pad]
  BY <1>1, <1>2, <1>3 DEF PowerOn
<1>5. Some \in Pad
  <2>1. PICK d \in Devices : TRUE
    BY BusAssumption
  <2>2. PowerOn[d] \in Pad
    BY <1>4, <2>1
  <2> QED
    BY <2>2 DEF Some
<1>6. \A p \in Pad, th \in Alarm, cfg \in Cfgs :
          /\ [p EXCEPT !.th = th, !.cfg = cfg] \in Pad /\ [p EXCEPT !.cfg = cfg] \in Pad
          /\ [p EXCEPT !.th = th, !.cfg = cfg].th = th
          /\ [p EXCEPT !.th = th, !.cfg = cfg].cfg = cfg
  BY <1>2
<1>9. Temps \subseteq Word
  BY BusAssumption DEF Temps
<1>7. \A p \in Pad : p.th \in Alarm /\ p.cfg \in Cfgs /\ p.cfg \in 0 .. 3
                     /\ p.temp \in Word
  BY <1>2, <1>3, <1>9
<1>8. \A d \in Devices : \A m \in Raw[d], p \in Pad :
          [p EXCEPT !.temp = m] \in Pad /\ [p EXCEPT !.temp = m].temp = m
  BY <1>1, <1>2
<1> QED
  BY <1>4, <1>5, <1>6, <1>7, <1>8

LEMMA PowerOnTyped == PowerOn \in [Devices -> Pad]
BY PadNotEmpty

LEMMA WriteTyped ==
    \A th \in Alarm, cfg \in Cfgs : [Some EXCEPT !.th = th, !.cfg = cfg] \in Pad
BY PadNotEmpty

(* What temp_read makes of a register is its value as an int16_t *)
LEMMA ReadingIsSigned ==
    ASSUME NEW raw \in Word
    PROVE  Reading(raw) = Int16(raw) /\ Int16(raw) \in Int
<1>1. raw \in Nat /\ raw < 65536
  BY WordRange
<1>2. raw % 65536 = raw
  BY <1>1, SMT
<1>3. CASE raw < 32768
  BY <1>1, <1>2, <1>3, SMT DEF Reading, Int16
<1>4. CASE raw >= 32768
  <2>1. Int16(raw) = raw - 65536
    BY <1>1, <1>2, <1>4, SMT DEF Int16
  <2>2. (-(-65536 + (65535 - raw) + 1)) % 65536 = raw
    BY <1>1, <1>2, SMT
  <2>3. Int16(-(-65536 + (65535 - raw) + 1)) = raw - 65536
    <3>1. \A x \in Int : x % 65536 = raw => Int16(x) = raw - 65536
      BY <1>1, <1>4, SMT DEF Int16
    <3>2. -(-65536 + (65535 - raw) + 1) \in Int
      BY <1>1, SMT
    <3> QED
      BY <2>2, <3>1, <3>2
  <2> QED
    BY <1>1, <1>4, <2>1, <2>3, SMT DEF Reading
<1> QED
  BY <1>1, <1>3, <1>4, SMT

(* What get_temperature stores is a uint16_t, whatever was read *)
LEMMA TemperatureIsWord ==
    ASSUME NEW raw \in Word, NEW family
    PROVE  Temperature(family, raw) \in Word
<1>1. Reading(raw) \in Int
  BY ReadingIsSigned, SMT
<1>2. (Reading(raw) * 50 - 25) + (100 * (16 - Remain)) \div 16 \in Int
  BY <1>1, BusAssumption, SMT
<1>3. Truncated(100 * Reading(raw), 16) \in Int
  BY <1>1, SMT DEF Truncated
<1> QED
  BY <1>2, <1>3, WordRange, SMT DEF Temperature

TypesInv == BusTyped /\ PadsTyped /\ CallTyped /\ AnswerTyped /\ Places

LEMMA TypesInit == Init => TypesInv
<1> SUFFICES ASSUME Init PROVE TypesInv
  OBVIOUS
<1>1. BusTyped
  BY BusAssumption, SMT DEF Init, BusTyped
<1>2. PadsTyped
  <2>1. pad \in [Devices -> Pad] /\ before \in [Devices -> Pad]
    BY PowerOnTyped, SMT DEF Init
  <2>2. latest \in [Devices -> Int] /\ \A d \in Devices : latest[d] = None
    BY SMT DEF Init, None
  <2> QED
    BY <2>1, <2>2 DEF PadsTyped
<1>3. CallTyped /\ AnswerTyped /\ Places
  BY SMT DEF Init, CallTyped, AnswerTyped, Places, NoCall, Address
<1> QED
  BY <1>1, <1>2, <1>3 DEF TypesInv

LEMMA CallsKeepTypes ==
    ASSUME BusInv, TypesInv, New \/ NewOff \/ Destroy \/ Call \/ CallDuration
    PROVE  TypesInv'
<1> USE DEF TypesInv, BusTyped, PadsTyped, CallTyped, AnswerTyped, Places, devices
<1>1. CASE New
  BY <1>1, SMT DEF New
<1>2. CASE NewOff
  BY <1>2, SMT DEF NewOff, Address
<1>3. CASE Destroy
  <2>1. PadsTyped'
    BY <1>3, PowerOnTyped, SMT DEF Destroy
  <2>2. CallTyped' /\ AnswerTyped' /\ Places'
    BY <1>3, SMT DEF Destroy, NoCall, Address
  <2> QED
    BY <1>3, <2>1, <2>2, SMT DEF Destroy
<1>4. ASSUME NEW op, NEW addr \in Address, NEW arg \in 0 .. 3, NEW b \in Pad \cup {BAD},
             NEW next \in {"reset", "told"}, op = "write" => b \in Pad,
             next = "told" => op = "duration", op = "set" => arg \in Cfgs, Enter(op, addr, arg, b, next)
      PROVE  TypesInv'
  <2>1. before' = pad \/ before' = PowerOn
    BY <1>4, Zenon DEF Enter
  <2>2. before' \in [Devices -> Pad]
    BY <2>1, PowerOnTyped, SMT
  <2> QED
    BY <1>4, <2>2, SMT DEF Enter
<1>5. CASE Call
  <2>1. Devices \subseteq Address /\ ANY \in Address /\ Cfgs \subseteq 0 .. 3 /\ Alarm \subseteq 0 .. 3
    BY BusAssumption, SMT DEF Address, Alarm
  <2>2. ASSUME NEW op \in {"reset", "rom", "power", "read", "temperature", "convert",
                           "resolution", "set"},
               NEW addr \in Address, NEW arg \in 0 .. 3, op = "set" => arg \in Cfgs,
               Enter(op, addr, arg, BAD, "reset")
        PROVE  TypesInv'
    BY <1>4, <2>2, Zenon
  <2>3. ASSUME NEW addr \in Address, NEW th \in Alarm, NEW cfg \in Cfgs,
               Enter("write", addr, 0, [Some EXCEPT !.th = th, !.cfg = cfg], "reset")
        PROVE  TypesInv'
    <3>1. [Some EXCEPT !.th = th, !.cfg = cfg] \in Pad \cup {BAD}
      BY WriteTyped, Zenon
    <3>2. 0 \in 0 .. 3
      BY SMT
    <3> QED
      BY <1>4, <2>3, <3>1, <3>2, WriteTyped, Zenon
  <2> HIDE DEF TypesInv
  <2> QED
    <3>1. CASE \E op \in {"reset", "rom"} : Enter(op, ANY, 0, BAD, "reset")
      BY <2>1, <2>2, <3>1, SMT
    <3>2. CASE \E addr \in Address, op \in {"power", "read", "temperature"} :
                  Enter(op, addr, 0, BAD, "reset")
      BY <2>2, <3>2, SMT
    <3>3. CASE \E addr \in Address, wait \in {0, 1} : Enter("convert", addr, wait, BAD, "reset")
      BY <2>2, <3>3, SMT
    <3>4. CASE \E addr \in Devices : Enter("resolution", addr, 0, BAD, "reset")
      BY <2>1, <2>2, <3>4, SMT
    <3>5. CASE \E addr \in Devices, cfg \in Cfgs : Enter("set", addr, cfg, BAD, "reset")
      BY <2>1, <2>2, <3>5, SMT
    <3>6. CASE \E addr \in Address, th \in Alarm, cfg \in Cfgs :
                  Enter("write", addr, 0, [Some EXCEPT !.th = th, !.cfg = cfg], "reset")
      BY <2>3, <3>6
    <3> QED
      BY <1>5, <3>1, <3>2, <3>3, <3>4, <3>5, <3>6 DEF Call
<1>6. CASE CallDuration
  <2>1. PICK addr \in Address :
            Enter("duration", addr, 0, BAD,
                  IF FamilyOf(addr) = "configurable" THEN "reset" ELSE "told")
    BY <1>6 DEF CallDuration
  <2> HIDE DEF TypesInv
  <2>2. (IF FamilyOf(addr) = "configurable" THEN "reset" ELSE "told") \in {"reset", "told"}
    OBVIOUS
  <2> QED
    BY <1>4, <2>1, <2>2, SMT
<1> QED
  BY <1>1, <1>2, <1>3, <1>5, <1>6

LEMMA AddressingKeepsTypes ==
    ASSUME BusInv, TypesInv, ResetPulse \/ Presence \/ Found \/ Absent \/ MatchRom
    PROVE  TypesInv'
<1> USE DEF TypesInv, BusTyped, PadsTyped, CallTyped, AnswerTyped, Places, devices
<1>1. CASE ResetPulse
  BY <1>1, SMT DEF ResetPulse
<1>2. CASE Presence
  BY <1>2, SMT DEF Presence
<1>3. CASE Found
  BY <1>3, SMT DEF Found, Return
<1>4. CASE Absent
  BY <1>4, SMT DEF Absent, Return
<1>5. CASE MatchRom
  BY <1>5, SMT DEF MatchRom, WriteByte
<1> QED
  BY <1>1, <1>2, <1>3, <1>4, <1>5

(* A device that was heard gives a scratchpad, or its sum is wrong *)
LEMMA ReceivedIsPad ==
    ASSUME BusInv, TypesInv PROVE Received \subseteq Pad \cup {BAD}
<1>1. selected \subseteq Devices /\ pad \in [Devices -> Pad]
  BY DEF BusInv, Here, TypesInv, BusTyped, PadsTyped
<1>2. {pad[d] : d \in selected} \subseteq Pad
  BY <1>1
<1> QED
  BY <1>2, Zenon DEF Received

LEMMA ReadingKeepsTypes ==
    ASSUME BusInv, TypesInv, ReadRom \/ ReadPower \/ ReadPad \/ BadPad \/ PadRead
    PROVE  TypesInv'
<1> USE DEF TypesInv, BusTyped, PadsTyped, CallTyped, AnswerTyped, Places, devices
<1>1. CASE ReadRom
  BY <1>1, SMT DEF ReadRom, Return, ReadByte
<1>2. CASE ReadPower
  BY <1>2, WordRange, SMT DEF ReadPower, Return, ReadByte
<1>3. CASE ReadPad
  BY <1>3, ReceivedIsPad, SMT DEF ReadPad, ReadByte
<1>4. CASE BadPad
  BY <1>4, SMT DEF BadPad, Return
<1>5. CASE PadRead
  BY <1>5, SMT DEF PadRead, Return
<1> QED
  BY <1>1, <1>2, <1>3, <1>4, <1>5

LEMMA AnswersKeepTypes ==
    ASSUME BusInv, TypesInv, TemperatureRead \/ ResolutionRead \/ ResolutionChosen \/ Told
    PROVE  TypesInv'
<1> USE DEF TypesInv, BusTyped, PadsTyped, CallTyped, AnswerTyped, Places, devices
<1>1. CASE TemperatureRead
  <2>1. buf.temp \in Word
    BY <1>1, PadNotEmpty, Zenon DEF TemperatureRead
  <2>2. answer' \in Word
    BY <1>1, <2>1, TemperatureIsWord, Zenon DEF TemperatureRead
  <2> QED
    BY <1>1, <2>2, SMT DEF TemperatureRead, Return
<1>2. CASE ResolutionRead
  <2>1. buf.cfg \in 0 .. 3
    BY <1>2, PadNotEmpty, Zenon DEF ResolutionRead
  <2>2. answer' \in Word
    BY <1>2, <2>1, WordRange, SMT DEF ResolutionRead
  <2> QED
    BY <1>2, <2>2, SMT DEF ResolutionRead, Return
<1>3. CASE ResolutionChosen
  <2>1. buf \in Pad /\ call.arg \in Cfgs
    BY <1>3, Zenon DEF ResolutionChosen
  <2>2. [buf EXCEPT !.cfg = call.arg] \in Pad
    BY <2>1, PadNotEmpty
  <2>3. buf' \in Pad \cup {BAD}
    BY <1>3, <2>2, Zenon DEF ResolutionChosen, Return
  <2>4. CallTyped'
    BY <1>3, <2>2, <2>3, SMT DEF ResolutionChosen, Return
  <2> QED
    BY <1>3, <2>4, SMT DEF ResolutionChosen, Return
<1>4. CASE Told
  <2>1. AnswerTyped'
    BY <1>4, WordRange, SMT DEF Told, Duration
  <2> QED
    BY <1>4, <2>1, SMT DEF Told, Return
<1> QED
  BY <1>1, <1>2, <1>3, <1>4

LEMMA CommandsKeepTypes ==
    ASSUME BusInv, TypesInv, WritePad \/ Convert \/ PowerConversion \/ Slept
    PROVE  TypesInv'
<1> USE DEF TypesInv, BusTyped, PadsTyped, CallTyped, AnswerTyped, Places, devices
<1>1. CASE WritePad
  <2>1. buf \in Pad
    <3>1. pc = "command" /\ (call.op = "write" \/ buf # BAD)
      BY <1>1, Zenon DEF WritePad
    <3> QED
      BY <3>1, SMT
  <2>3. ASSUME NEW d \in Devices
        PROVE  (IF d \notin selected THEN pad[d]
                ELSE [pad[d] EXCEPT !.th = buf.th,
                                    !.cfg = IF "DS18S20" \in {FamilyHere, Family[d]}
                                            THEN @ ELSE buf.cfg]) \in Pad
    <3>1. pad[d] \in Pad
      OBVIOUS
    <3>2. pad[d].cfg \in Cfgs /\ buf.cfg \in Cfgs /\ buf.th \in Alarm
      BY <2>1, <3>1, PadNotEmpty, Zenon
    <3>3. \A cfg \in Cfgs : [pad[d] EXCEPT !.th = buf.th, !.cfg = cfg] \in Pad
      BY <3>1, <3>2, PadNotEmpty, Zenon
    <3>4. (IF "DS18S20" \in {FamilyHere, Family[d]} THEN pad[d].cfg ELSE buf.cfg) \in Cfgs
      BY <3>2, Zenon
    <3> QED
      BY <3>1, <3>3, <3>4, Zenon
  <2>2. pad' \in [Devices -> Pad]
    BY <1>1, <2>3, Zenon DEF WritePad
  <2> QED
    <3>1. UNCHANGED <<alive, present, phantom, changes, call, answer, disturbed, latest, before>>
      BY <1>1, Zenon DEF WritePad
    <3>2. data' = "high" /\ pc' = "idle" /\ result' = 0 /\ buf' = BAD
      BY <1>1, Zenon DEF WritePad, Return, WriteByte
    <3>3. PadsTyped'
      BY <2>2, <3>1
    <3> QED
      BY <3>1, <3>2, <3>3, SMT
<1>2. CASE Convert
  BY <1>2, SMT DEF Convert, WriteByte
<1>3. CASE PowerConversion
  BY <1>3, SMT DEF PowerConversion, Return
<1>4. CASE Slept
  BY <1>4, SMT DEF Slept, Return
<1> QED
  BY <1>1, <1>2, <1>3, <1>4

LEMMA DevicesKeepTypes ==
    ASSUME BusInv, TypesInv, NEW d \in Devices, Plug(d) \/ Unplug(d) \/ ConversionEnds(d)
    PROVE  TypesInv'
<1> USE DEF TypesInv, BusTyped, PadsTyped, CallTyped, AnswerTyped, Places
<1>1. CASE Plug(d)
  BY <1>1, BusAssumption, SMT DEF Plug, Changed
<1>2. CASE Unplug(d)
  <2>1. PadsTyped'
    <3>1. pad' \in [Devices -> Pad]
      <4>1. PowerOn[d] \in Pad
        BY PowerOnTyped
      <4>2. pad' = [pad EXCEPT ![d] = PowerOn[d]]
        BY <1>2 DEF Unplug
      <4> QED
        BY <4>1, <4>2, SMT
    <3>2. latest' \in [Devices -> Int] /\ \A e \in Devices : latest'[e] \in Raw[e] \cup {None}
      BY <1>2, SMT DEF Unplug, None
    <3> QED
      BY <1>2, <3>1, <3>2, SMT DEF Unplug, Changed
  <2> QED
    BY <1>2, <2>1, BusAssumption, SMT DEF Unplug, Changed
<1>3. CASE ConversionEnds(d)
  <2>1. PICK m \in Raw[d] : pad' = [pad EXCEPT ![d].temp = m] /\ latest' = [latest EXCEPT ![d] = m]
    BY <1>3 DEF ConversionEnds
  <2>2. m \in Int
    BY BusAssumption, WordRange, SMT
  <2>3. pad' \in [Devices -> Pad]
    <3>1. [pad[d] EXCEPT !.temp = m] \in Pad
      BY <2>1, PadNotEmpty, Zenon
    <3>2. pad' = [pad EXCEPT ![d] = [pad[d] EXCEPT !.temp = m]]
      BY <2>1
    <3> QED
      BY <3>1, <3>2
  <2>4. PadsTyped'
    BY <1>3, <2>1, <2>2, <2>3, SMT DEF ConversionEnds
  <2> QED
    BY <1>3, <2>4, SMT DEF ConversionEnds
<1> QED
  BY <1>1, <1>2, <1>3

LEMMA NextKeepsTypes == BusInv /\ TypesInv /\ [Next]_vars => TypesInv'
<1> SUFFICES ASSUME BusInv, TypesInv, [Next]_vars PROVE TypesInv'
  OBVIOUS
<1>1. CASE Library
  BY <1>1, CallsKeepTypes, AddressingKeepsTypes, ReadingKeepsTypes, AnswersKeepTypes,
     CommandsKeepTypes, Zenon DEF Library
<1>2. ASSUME NEW d \in Devices, Plug(d) \/ Unplug(d) \/ ConversionEnds(d)
      PROVE  TypesInv'
  BY <1>2, DevicesKeepTypes
<1>3. CASE UNCHANGED vars
  BY <1>3, SMT DEF vars, devices, TypesInv, BusTyped, PadsTyped, CallTyped, AnswerTyped, Places
<1> QED
  BY <1>1, <1>2, <1>3 DEF Next

LEMMA TypesInvariant == Spec => [](BusInv /\ TypesInv)
<1> QED
  BY BusInit, TypesInit, NextKeepsBusInv, NextKeepsTypes, PTL DEF Spec

-----------------------------------------------------------------------------
(* What a call that is addressed to one device reads and writes *)

(* A scratchpad holds what its device measured last *)
Agree == \A d \in Devices : latest[d] # None => pad[d].temp = latest[d]

Addressed ==
    /\ pc \in {"command", "received"} /\ call.addr # ANY => selected \subseteq {call.addr}
    /\ call.op = "set" => call.addr \in Devices

OwnReading ==
    call.op = "temperature" /\ disturbed = "no" =>
        /\ pc = "received" /\ buf # BAD /\ call.addr # ANY => buf = pad[call.addr]
        /\ pc = "idle" /\ result = 0 =>
              /\ call.addr \in Devices /\ FamilyHere # "other"
              /\ latest[call.addr] # None =>
                    answer = Temperature(FamilyHere, latest[call.addr])

(* Until set_resolution writes, the alarm registers and resolutions are     *)
(* those it was called with, and what it is about to write is one of them   *)
Untouched == \A d \in Devices : pad[d].th = before[d].th /\ pad[d].cfg = before[d].cfg

ResolutionWritten ==
    \A d \in Devices :
        /\ pad[d].th = before[d].th
        /\ pad[d].cfg = IF d = call.addr THEN call.arg ELSE before[d].cfg

OwnSet ==
    call.op = "set" /\ disturbed # "changed" =>
        /\ pc # "idle" => Untouched
        /\ pc # "idle" /\ buf # BAD =>
              call.addr \in present /\ buf.th = before[call.addr].th
        /\ pc \notin {"idle", "received"} /\ buf # BAD =>
              buf.cfg = call.arg /\ Family[call.addr] = "configurable"
        /\ pc = "command" /\ buf # BAD => call.addr \in selected
        /\ pc = "idle" /\ result = 0 => ResolutionWritten

OwnInv == Agree /\ Addressed /\ OwnReading /\ OwnSet

LEMMA OwnInit == Init => OwnInv
BY SMT DEF Init, NoCall, OwnInv, Agree, Addressed, OwnReading, OwnSet

LEMMA CallsKeepOwn ==
    ASSUME BusInv, TypesInv, OwnInv, New \/ NewOff \/ Destroy \/ Call \/ CallDuration
    PROVE  OwnInv'
<1> USE DEF OwnInv, Agree, Addressed, OwnReading, OwnSet, devices
<1>1. CASE New
  BY <1>1, SMT DEF New, TypesInv, Places
<1>2. CASE NewOff
  BY <1>2, SMT DEF NewOff
<1>3. CASE Destroy
  BY <1>3, SMT DEF Destroy, NoCall
<1>4. ASSUME NEW op, NEW addr, NEW arg, NEW b, NEW next \in {"reset", "told"},
             op = "set" => addr \in Devices /\ b = BAD, Enter(op, addr, arg, b, next)
      PROVE  OwnInv'
  <2>1. /\ call' = [op |-> op, addr |-> addr, arg |-> arg] /\ buf' = b /\ pc' = next
        /\ UNCHANGED <<pad, present, selected, latest>>
        /\ op = "set" => before' = pad
    BY <1>4, SMT DEF Enter
  <2>2. call'.op = op /\ call'.addr = addr
    BY <2>1
  <2>3. op = "set" => Untouched'
    BY <2>1 DEF Untouched
  <2> QED
    BY <1>4, <2>1, <2>2, <2>3, SMT
<1>5. CASE Call
  <2> HIDE DEF OwnInv
  <2>1. ASSUME NEW op \in {"reset", "rom", "power", "read", "temperature", "convert",
                           "resolution", "write"},
               NEW addr, NEW arg, NEW b, Enter(op, addr, arg, b, "reset")
        PROVE  OwnInv'
    <3>1. op # "set" /\ "reset" \in {"reset", "told"}
      OBVIOUS
    <3> QED
      BY <1>4, <2>1, <3>1, Zenon
  <2>2. ASSUME NEW addr \in Devices, NEW cfg \in Cfgs, Enter("set", addr, cfg, BAD, "reset")
        PROVE  OwnInv'
    BY <1>4, <2>2, Zenon
  <2>3. CASE \E op \in {"reset", "rom"} : Enter(op, ANY, 0, BAD, "reset")
    BY <2>1, <2>3, SMT
  <2>4. CASE \E addr \in Address, op \in {"power", "read", "temperature"} :
                Enter(op, addr, 0, BAD, "reset")
    BY <2>1, <2>4, SMT
  <2>5. CASE \E addr \in Address, wait \in {0, 1} : Enter("convert", addr, wait, BAD, "reset")
    BY <2>1, <2>5, SMT
  <2>6. CASE \E addr \in Devices : Enter("resolution", addr, 0, BAD, "reset")
    BY <2>1, <2>6, SMT
  <2>7. CASE \E addr \in Devices, cfg \in Cfgs : Enter("set", addr, cfg, BAD, "reset")
    BY <2>2, <2>7
  <2>8. CASE \E addr \in Address, th \in Alarm, cfg \in Cfgs :
                Enter("write", addr, 0, [Some EXCEPT !.th = th, !.cfg = cfg], "reset")
    <3>1. "write" \in {"reset", "rom", "power", "read", "temperature", "convert",
                       "resolution", "write"}
      OBVIOUS
    <3> QED
      BY <2>1, <2>8, <3>1, Zenon
  <2> QED
    BY <1>5, <2>3, <2>4, <2>5, <2>6, <2>7, <2>8 DEF Call
<1>6. CASE CallDuration
  <2>1. PICK addr \in Address :
            Enter("duration", addr, 0, BAD,
                  IF FamilyOf(addr) = "configurable" THEN "reset" ELSE "told")
    BY <1>6 DEF CallDuration
  <2> HIDE DEF OwnInv
  <2>2. (IF FamilyOf(addr) = "configurable" THEN "reset" ELSE "told") \in {"reset", "told"}
    OBVIOUS
  <2> QED
    BY <1>4, <2>1, <2>2, SMT
<1> QED
  BY <1>1, <1>2, <1>3, <1>5, <1>6

LEMMA AddressingKeepsOwn ==
    ASSUME BusInv, TypesInv, OwnInv, ResetPulse \/ Presence \/ Found \/ Absent \/ MatchRom
    PROVE  OwnInv'
<1> USE DEF OwnInv, Agree, Addressed, OwnReading, OwnSet, Untouched, ResolutionWritten, devices
<1>1. CASE ResetPulse
  BY <1>1, SMT DEF ResetPulse
<1>2. CASE Presence
  BY <1>2, SMT DEF Presence
<1>3. CASE Found
  BY <1>3, SMT DEF Found, Return, TypesInv, Places
<1>4. CASE Absent
  BY <1>4, SMT DEF Absent, Return
<1>5. CASE MatchRom
  BY <1>5, BusAssumption, SMT DEF MatchRom, WriteByte
<1> QED
  BY <1>1, <1>2, <1>3, <1>4, <1>5

(* Whoever addresses one device receives its scratchpad or a wrong sum *)
LEMMA ReceivedOne ==
    ASSUME NEW a, selected \subseteq {a}, NEW b \in Received, b # BAD
    PROVE  a \in selected /\ b = pad[a]
<1>1. CASE selected = {}
  BY <1>1 DEF Received
<1>2. CASE selected = {a}
  <2>1. Cardinality(selected) = 1
    BY <1>2, FS_Singleton
  <2>2. Received = {pad[d] : d \in selected}
    BY <1>2, <2>1, SMT DEF Received
  <2> QED
    BY <1>2, <2>2
<1> QED
  BY <1>1, <1>2

LEMMA ReadingKeepsOwn ==
    ASSUME BusInv, TypesInv, OwnInv, ReadRom \/ ReadPower \/ ReadPad \/ BadPad \/ PadRead
    PROVE  OwnInv'
<1> USE DEF OwnInv, Agree, Addressed, OwnReading, OwnSet, Untouched, ResolutionWritten, devices
<1>1. CASE ReadRom
  BY <1>1, SMT DEF ReadRom, Return, ReadByte
<1>2. CASE ReadPower
  BY <1>2, SMT DEF ReadPower, Return, ReadByte
<1>3. CASE ReadPad
  <2>1. /\ pc = "command" /\ pc' = "received" /\ buf' \in Received
        /\ UNCHANGED <<present, pad, selected, call, disturbed, latest, before>>
        /\ call.op = "set" => buf = BAD
    BY <1>3, SMT DEF ReadPad
  <2>2. call.addr # ANY /\ buf' # BAD => call.addr \in selected /\ buf' = pad[call.addr]
    <3>1. call.addr # ANY => selected \subseteq {call.addr}
      BY <2>1
    <3> QED
      BY <2>1, <3>1, ReceivedOne, SMT
  <2>3. selected \subseteq present
    BY DEF BusInv, Here
  <2>4. call.op = "set" => call.addr # ANY
    BY BusAssumption
  <2> QED
    BY <2>1, <2>2, <2>3, <2>4, SMT
<1>4. CASE BadPad
  BY <1>4, SMT DEF BadPad, Return
<1>5. CASE PadRead
  BY <1>5, SMT DEF PadRead, Return
<1> QED
  BY <1>1, <1>2, <1>3, <1>4, <1>5

LEMMA AnswersKeepOwn ==
    ASSUME BusInv, TypesInv, OwnInv, TemperatureRead \/ ResolutionRead \/ ResolutionChosen \/ Told
    PROVE  OwnInv'
<1> USE DEF OwnInv, Agree, Addressed, OwnReading, OwnSet, Untouched, ResolutionWritten, devices
<1>1. CASE TemperatureRead
  <2>1. /\ pc = "received" /\ buf # BAD /\ call.op = "temperature" /\ pc' = "idle"
        /\ answer' = Temperature(FamilyHere, buf.temp)
        /\ result' = (IF FamilyHere = "other" THEN 2 ELSE 0)
        /\ UNCHANGED <<call, pad, disturbed, latest>>
    BY <1>1, SMT DEF TemperatureRead, Return
  <2>2. selected' = {}
    BY <1>1, SMT DEF TemperatureRead, Return
  <2>3. FamilyHere' <=> FamilyHere
    BY <2>1 DEF FamilyHere
  <2>4. call.addr \in Address
    BY DEF TypesInv, CallTyped
  <2>5. FamilyHere # "other" => call.addr \in Devices /\ call.addr # ANY
    BY <2>4, BusAssumption DEF FamilyHere, FamilyOf, Address
  <2>6. FamilyHere' = FamilyHere
    BY <2>1 DEF FamilyHere
  <2>7. FamilyHere # "other" /\ disturbed = "no" /\ latest[call.addr] # None
           => answer' = Temperature(FamilyHere, latest[call.addr])
    BY <2>1, <2>5
  <2>8. OwnReading'
    BY <2>1, <2>5, <2>6, <2>7, SMT
  <2> HIDE DEF OwnReading
  <2> QED
    BY <2>1, <2>2, <2>8, SMT
<1>2. CASE ResolutionRead
  BY <1>2, SMT DEF ResolutionRead, Return
<1>3. CASE ResolutionChosen
  <2>1. /\ pc = "received" /\ buf # BAD /\ call.op = "set"
        /\ UNCHANGED <<call, pad, disturbed, latest, before, present>>
    BY <1>3, SMT DEF ResolutionChosen
  <2>2. \/ /\ FamilyHere = "configurable" /\ buf' = [buf EXCEPT !.cfg = call.arg] /\ pc' = "reset"
        \/ pc' = "idle" /\ result' = 3
    BY <1>3, SMT DEF ResolutionChosen, Return
  <2>3. buf \in Pad /\ call.arg \in Cfgs /\ call.addr # ANY
    BY <2>1, BusAssumption DEF TypesInv, CallTyped
  <2>4. /\ [buf EXCEPT !.cfg = call.arg].cfg = call.arg
        /\ [buf EXCEPT !.cfg = call.arg].th = buf.th
    BY <2>3 DEF Pad
  <2>5. FamilyHere = Family[call.addr]
    BY <2>3 DEF FamilyHere, FamilyOf
  <2>6. Agree' /\ (Untouched => Untouched')
    BY <2>1
  <2>7. selected' \subseteq selected
    BY <1>3, SMT DEF ResolutionChosen, Return
  <2>8. \/ /\ Family[call.addr] = "configurable" /\ pc' = "reset"
           /\ buf'.cfg = call.arg /\ buf'.th = buf.th
        \/ pc' = "idle" /\ result' = 3
    BY <2>2, <2>4, <2>5, Zenon
  <2>9. disturbed # "changed" => /\ Untouched /\ call.addr \in present
                                 /\ buf.th = before[call.addr].th
    BY <2>1
  <2>10. call' = call /\ disturbed' = disturbed /\ before' = before /\ present' = present
    BY <2>1
  <2> HIDE DEF Agree, Untouched, ResolutionWritten
  <2>11. OwnSet'
    BY <2>1, <2>6, <2>8, <2>9, <2>10
  <2> QED
    BY <2>1, <2>6, <2>7, <2>8, <2>10, <2>11
<1>4. CASE Told
  BY <1>4, SMT DEF Told, Return, TypesInv, Places
<1> QED
  BY <1>1, <1>2, <1>3, <1>4

LEMMA CommandsKeepOwn ==
    ASSUME BusInv, TypesInv, OwnInv, WritePad \/ Convert \/ PowerConversion \/ Slept
    PROVE  OwnInv'
<1> USE DEF OwnInv, Agree, Addressed, OwnReading, OwnSet, devices
<1>1. CASE WritePad
  <2>1. /\ pc = "command" /\ (call.op = "write" \/ (call.op = "set" /\ buf # BAD))
        /\ pc' = "idle"
        /\ call' = call /\ present' = present /\ disturbed' = disturbed
        /\ latest' = latest /\ before' = before
    BY <1>1, Zenon DEF WritePad, Return
  <2>2. pad \in [Devices -> Pad] /\ buf \in Pad
    BY <2>1 DEF TypesInv, PadsTyped, CallTyped
  <2>3. ASSUME NEW d \in Devices
        PROVE  /\ pad'[d].temp = pad[d].temp
               /\ d \notin selected => pad'[d] = pad[d]
               /\ d \in selected => pad'[d].th = buf.th
               /\ d \in selected /\ FamilyHere # "DS18S20" /\ Family[d] # "DS18S20"
                     => pad'[d].cfg = buf.cfg
    <3>1. pad'[d] = IF d \notin selected THEN pad[d]
                    ELSE [pad[d] EXCEPT !.th = buf.th,
                                        !.cfg = IF "DS18S20" \in {FamilyHere, Family[d]}
                                                THEN @ ELSE buf.cfg]
      BY <1>1, Zenon DEF WritePad
    <3>2. pad[d] \in Pad
      BY <2>2
    <3> DEFINE C == IF "DS18S20" \in {FamilyHere, Family[d]} THEN pad[d].cfg ELSE buf.cfg
    <3>3. pad'[d] = IF d \notin selected THEN pad[d]
                    ELSE [pad[d] EXCEPT !.th = buf.th, !.cfg = C]
      BY <3>1, Zenon
    <3>4. FamilyHere # "DS18S20" /\ Family[d] # "DS18S20" => C = buf.cfg
      OBVIOUS
    <3> HIDE DEF C
    <3>5. \A c : /\ [pad[d] EXCEPT !.th = buf.th, !.cfg = c].temp = pad[d].temp
                 /\ [pad[d] EXCEPT !.th = buf.th, !.cfg = c].th = buf.th
                 /\ [pad[d] EXCEPT !.th = buf.th, !.cfg = c].cfg = c
      BY <3>2, SMT DEF Pad
    <3> QED
      BY <3>3, <3>4, <3>5, SMT
  <2>4. Agree'
    BY <2>1, <2>3
  <2>5. CASE call.op = "set" /\ disturbed # "changed"
    <3>1. /\ Untouched /\ buf.th = before[call.addr].th /\ buf.cfg = call.arg
          /\ Family[call.addr] = "configurable" /\ call.addr \in selected
      BY <2>1, <2>5, SMT
    <3>2. call.addr # ANY /\ call.addr \in Devices /\ selected \subseteq {call.addr}
      BY <2>1, <2>5, BusAssumption
    <3>3. FamilyHere # "DS18S20"
      BY <3>1, <3>2 DEF FamilyHere, FamilyOf
    <3>4. \A d \in Devices : /\ pad'[d].th = before[d].th
                             /\ pad'[d].cfg = IF d = call.addr THEN call.arg ELSE before[d].cfg
      BY <2>3, <3>1, <3>2, <3>3 DEF Untouched
    <3>5. ResolutionWritten'
      BY <2>1, <3>4 DEF ResolutionWritten
    <3> QED
      BY <2>1, <2>4, <2>5, <3>5, <3>2
  <2>6. CASE ~(call.op = "set" /\ disturbed # "changed")
    BY <2>1, <2>4, <2>6, SMT
  <2> QED
    BY <2>5, <2>6
<1>2. CASE Convert
  BY <1>2, SMT DEF Convert, Untouched, ResolutionWritten
<1>3. CASE PowerConversion
  BY <1>3, SMT DEF PowerConversion, Return, TypesInv, Places
<1>4. CASE Slept
  BY <1>4, SMT DEF Slept, Return, TypesInv, Places
<1> QED
  BY <1>1, <1>2, <1>3, <1>4

LEMMA DevicesKeepOwn ==
    ASSUME BusInv, TypesInv, OwnInv, NEW d \in Devices, Plug(d) \/ Unplug(d) \/ ConversionEnds(d)
    PROVE  OwnInv'
<1> USE DEF OwnInv, Agree, Addressed, OwnReading, OwnSet
<1>1. CASE Plug(d)
  BY <1>1, SMT DEF Plug, Changed
<1>2. CASE Unplug(d)
  <2>1. Agree'
    BY <1>2, SMT DEF Unplug, TypesInv, PadsTyped
  <2> QED
    BY <1>2, <2>1, SMT DEF Unplug, Changed
<1>3. CASE ConversionEnds(d)
  <2>1. PICK m \in Raw[d] : pad' = [pad EXCEPT ![d].temp = m] /\ latest' = [latest EXCEPT ![d] = m]
    BY <1>3 DEF ConversionEnds
  <2>2. /\ UNCHANGED <<present, selected, pc, call, buf, result, before>>
        /\ disturbed' # "no" /\ (disturbed' # "changed" => disturbed # "changed")
    BY <1>3, SMT DEF ConversionEnds
  <2>3. pad \in [Devices -> Pad] /\ latest \in [Devices -> Int]
    BY DEF TypesInv, PadsTyped
  <2>4. \A e \in Devices : /\ pad'[e].th = pad[e].th /\ pad'[e].cfg = pad[e].cfg
                           /\ e # d => pad'[e] = pad[e] /\ latest'[e] = latest[e]
                           /\ e = d => pad'[e].temp = m /\ latest'[e] = m
    <3>1. \A e \in Devices : pad[e] \in Pad
      BY <2>3
    <3>2. \A p \in Pad : /\ [p EXCEPT !.temp = m].th = p.th
                         /\ [p EXCEPT !.temp = m].cfg = p.cfg /\ [p EXCEPT !.temp = m].temp = m
      BY SMT DEF Pad
    <3>3. \A e \in Devices : pad'[e] = IF e = d THEN [pad[e] EXCEPT !.temp = m] ELSE pad[e]
      BY <2>1, <2>3, SMT
    <3>4. \A e \in Devices : latest'[e] = IF e = d THEN m ELSE latest[e]
      BY <2>1, <2>3, SMT
    <3>5. ASSUME NEW e \in Devices
          PROVE  /\ pad'[e].th = pad[e].th /\ pad'[e].cfg = pad[e].cfg
                 /\ e # d => pad'[e] = pad[e] /\ latest'[e] = latest[e]
                 /\ e = d => pad'[e].temp = m /\ latest'[e] = m
      <4>1. CASE e = d
        <5>1. pad'[e] = [pad[e] EXCEPT !.temp = m] /\ latest'[e] = m
          BY <3>3, <3>4, <4>1, Zenon
        <5>2. pad[e] \in Pad
          BY <3>1
        <5>3. /\ [pad[e] EXCEPT !.temp = m].th = pad[e].th
              /\ [pad[e] EXCEPT !.temp = m].cfg = pad[e].cfg
              /\ [pad[e] EXCEPT !.temp = m].temp = m
          BY <3>2, <5>2, Zenon
        <5>4. pad'[e].th = pad[e].th /\ pad'[e].cfg = pad[e].cfg /\ pad'[e].temp = m
          BY <5>1, <5>3
        <5> QED
          BY <4>1, <5>1, <5>4
      <4>2. CASE e # d
        BY <3>3, <3>4, <4>2, Zenon
      <4> QED
        BY <4>1, <4>2
    <3> QED
      BY <3>5
  <2>5. Agree'
    BY <2>4
  <2>6. Untouched => Untouched'
    BY <2>2, <2>4 DEF Untouched
  <2>7. ResolutionWritten => ResolutionWritten'
    BY <2>2, <2>4 DEF ResolutionWritten
  <2> HIDE DEF Agree
  <2> QED
    BY <2>2, <2>5, <2>6, <2>7, SMT
<1> QED
  BY <1>1, <1>2, <1>3

LEMMA NextKeepsOwn == BusInv /\ TypesInv /\ OwnInv /\ [Next]_vars => OwnInv'
<1> SUFFICES ASSUME BusInv, TypesInv, OwnInv, [Next]_vars PROVE OwnInv'
  OBVIOUS
<1>1. CASE Library
  BY <1>1, CallsKeepOwn, AddressingKeepsOwn, ReadingKeepsOwn, AnswersKeepOwn,
     CommandsKeepOwn, Zenon DEF Library
<1>2. ASSUME NEW d \in Devices, Plug(d) \/ Unplug(d) \/ ConversionEnds(d)
      PROVE  OwnInv'
  BY <1>2, DevicesKeepOwn
<1>3. CASE UNCHANGED vars
  BY <1>3, SMT DEF vars, devices, OwnInv, Agree, Addressed, OwnReading, OwnSet, Untouched,
                   ResolutionWritten, FamilyHere
<1> QED
  BY <1>1, <1>2, <1>3 DEF Next

LEMMA OwnInvariant == Spec => [](BusInv /\ TypesInv /\ OwnInv)
<1> QED
  BY TypesInvariant, OwnInit, NextKeepsOwn, PTL DEF Spec

-----------------------------------------------------------------------------
(* Every variable keeps its type, so that what get_temperature stores       *)
(* through its uint16_t pointer fits (pico_1wire.c:591-613), whatever the   *)
(* devices send.                                                            *)
THEOREM BusTypeOK == Spec => []TypeOK
<1>1. BusInv /\ TypesInv => TypeOK
  <2> SUFFICES ASSUME BusInv, TypesInv PROVE TypeOK
    OBVIOUS
  <2>1. /\ ctx \in [power_available : BOOLEAN, power_state : BOOLEAN, psu_present : BOOLEAN]
        /\ alive \in BOOLEAN /\ mosfet \in BOOLEAN
        /\ selected \subseteq present /\ converting \subseteq present /\ covered \subseteq present
    BY Zenon DEF BusInv, Typed, Here
  <2>2. BusTyped /\ PadsTyped /\ CallTyped /\ AnswerTyped
    BY DEF TypesInv
  <2>3. covered \subseteq Devices
    BY <2>1, <2>2 DEF BusTyped
  <2> QED
    BY <2>1, <2>2, <2>3, Zenon DEF TypeOK, BusTyped, PadsTyped, CallTyped, AnswerTyped
<1> QED
  BY <1>1, TypesInvariant, PTL

(* set_resolution reads a scratchpad in one transaction and writes it in    *)
(* the next; when it returns 0 on a bus that did not change, exactly the    *)
(* resolution of exactly its device changed (pico_1wire.c:645-679).         *)
THEOREM BusResolutionSet == Spec => []ResolutionSet
<1>1. OwnInv => ResolutionSet
  BY DEF OwnInv, OwnSet, ResolutionSet, ResolutionWritten, Finished
<1> QED
  BY <1>1, OwnInvariant, PTL

(* Sixteenths to hundredths without overflow, rounding to zero *)
LEMMA TruncatedBounds ==
    ASSUME NEW x \in Int, x <= 4800, x >= -4800
    PROVE  /\ Truncated(100 * x, 16) \in Int
           /\ Truncated(100 * x, 16) <= 32767 /\ Truncated(100 * x, 16) >= -32768
<1>1. CASE x >= 0
  BY <1>1, SMT DEF Truncated
<1>2. CASE x < 0
  BY <1>2, SMT DEF Truncated
<1> QED
  BY <1>1, <1>2, SMT

(* Half degrees to hundredths: COUNT_REMAIN adds less than a degree *)
LEMMA HalfDegreesBounds ==
    ASSUME NEW x \in Int, x <= 600, x >= -600
    PROVE  LET y == (x * 50 - 25) + (100 * (16 - Remain)) \div 16
           IN  y \in Int /\ y <= 32767 /\ y >= -32768 /\ y - 50 * x \in -25 .. 75
<1>1. Remain \in Int /\ Remain >= 0 /\ Remain <= 16
  BY BusAssumption
<1> DEFINE f == (100 * (16 - Remain)) \div 16
<1>2. f \in Int /\ f >= 0 /\ f <= 100
  BY <1>1, SMT
<1> HIDE DEF f
<1>3. x * 50 \in Int /\ x * 50 <= 30000 /\ x * 50 >= -30000 /\ x * 50 = 50 * x
  BY SMT
<1>4. (x * 50 - 25) + f - 50 * x = f - 25
  BY <1>2, <1>3, SMT
<1> QED
  BY <1>2, <1>3, <1>4, SMT DEF f

(* What get_temperature stores, below zero too: hundredths of a degree that *)
(* fit an int16_t, modulo 2^16                                              *)
ReadingModulo ==
    Answered => \E y \in Int :
        /\ y <= 32767 /\ y >= -32768 /\ answer = y % 65536
        /\ IF FamilyHere = "DS18S20" THEN y - 50 * Measured \in -25 .. 75
           ELSE y = Truncated(100 * Measured, 16)

LEMMA MeasuredIsInt ==
    ASSUME TypesInv, OwnInv, Answered
    PROVE  Measured \in Int
<1>1. call.addr \in Devices
  BY DEF OwnInv, OwnReading, Answered, Finished
<1>2. latest[call.addr] \in Raw[call.addr]
  BY <1>1 DEF TypesInv, PadsTyped, Answered
<1>3. latest[call.addr] \in Word
  BY <1>1, <1>2, BusAssumption, Zenon
<1> QED
  BY <1>3, ReadingIsSigned DEF Measured

LEMMA OwnReadingModulo ==
    ASSUME TypesInv, OwnInv
    PROVE  ReadingModulo
<1> SUFFICES ASSUME Answered
             PROVE  \E y \in Int :
                       /\ y <= 32767 /\ y >= -32768 /\ answer = y % 65536
                       /\ IF FamilyHere = "DS18S20" THEN y - 50 * Measured \in -25 .. 75
                          ELSE y = Truncated(100 * Measured, 16)
  BY DEF ReadingModulo
<1> DEFINE raw == latest[call.addr]
           real == Int16(raw)
<1>1. call.addr \in Devices /\ answer = Temperature(FamilyHere, raw)
  BY DEF OwnInv, OwnReading, Answered, Finished
<1>2. raw \in Raw[call.addr]
  BY <1>1 DEF TypesInv, PadsTyped, Answered
<1>3. raw \in Word
  BY <1>1, <1>2, BusAssumption, Zenon
<1>4. Reading(raw) = real /\ real \in Int
  BY <1>3, ReadingIsSigned
<1>5. FamilyHere = Family[call.addr]
  BY <1>1, BusAssumption DEF FamilyHere, FamilyOf
<1>6. real <= 300 * Unit(FamilyHere) /\ real >= -300 * Unit(FamilyHere)
  BY <1>1, <1>2, <1>5, Measurable, Zenon
<1>7. Measured = real
  BY DEF Measured
<1> HIDE DEF raw, real
<1>8. CASE FamilyHere = "DS18S20"
  <2> DEFINE y == (real * 50 - 25) + (100 * (16 - Remain)) \div 16
  <2>1. real <= 600 /\ real >= -600
    BY <1>4, <1>6, <1>8, SMT DEF Unit
  <2>2. y \in Int /\ y <= 32767 /\ y >= -32768 /\ y - 50 * real \in -25 .. 75
    BY <1>4, <2>1, HalfDegreesBounds
  <2>3. answer = y % 65536
    BY <1>1, <1>4, <1>8, SMT DEF Temperature
  <2> HIDE DEF y
  <2> QED
    BY <1>7, <1>8, <2>2, <2>3
<1>9. CASE FamilyHere # "DS18S20"
  <2> DEFINE y == Truncated(100 * real, 16)
  <2>1. real <= 4800 /\ real >= -4800
    BY <1>4, <1>6, <1>9, SMT DEF Unit
  <2>2. y \in Int /\ y <= 32767 /\ y >= -32768
    BY <1>4, <2>1, TruncatedBounds
  <2>3. answer = y % 65536
    BY <1>1, <1>4, <1>9, SMT DEF Temperature
  <2>4. y = Truncated(100 * Measured, 16)
    BY <1>7
  <2> HIDE DEF y
  <2> QED
    BY <1>9, <2>2, <2>3, <2>4
<1> QED
  BY <1>8, <1>9

(* What get_temperature stores is the device's last measurement in          *)
(* hundredths of a degree modulo 2^16, whatever was measured, when it       *)
(* returns 0 and nothing changed meanwhile: nothing else is lost, but a     *)
(* caller that reads the uint16_t as it is sees 65536 more below zero       *)
(* (pico_1wire.c:583-609).                                                  *)
THEOREM BusReadingModulo == Spec => []ReadingModulo
<1>1. TypesInv /\ OwnInv => ReadingModulo
  BY OwnReadingModulo
<1> QED
  BY <1>1, OwnInvariant, PTL

(* When get_temperature returns 0 and no device came, left or measured      *)
(* meanwhile, what it stored is what the device measured last, if that was  *)
(* above zero (pico_1wire.c:591-613).                                       *)
THEOREM BusReadingIsLatest == Spec => []ReadingIsLatest
<1>1. TypesInv /\ OwnInv => ReadingIsLatest
  <2> SUFFICES ASSUME TypesInv, OwnInv, Answered, Measured > 0
               PROVE  IF FamilyHere = "DS18S20" THEN answer - 50 * Measured \in -25 .. 75
                      ELSE answer = (100 * Measured) \div 16
    BY DEF ReadingIsLatest
  <2>0. ReadingModulo
    BY OwnReadingModulo
  <2>1. PICK y \in Int :
           /\ y <= 32767 /\ y >= -32768 /\ answer = y % 65536
           /\ IF FamilyHere = "DS18S20" THEN y - 50 * Measured \in -25 .. 75
              ELSE y = Truncated(100 * Measured, 16)
    BY <2>0 DEF ReadingModulo
  <2>2. Measured \in Int
    BY MeasuredIsInt
  <2>3. CASE FamilyHere = "DS18S20"
    <3>1. y - 50 * Measured \in -25 .. 75
      BY <2>1, <2>3
    <3>2. y >= 0
      BY <2>2, <3>1, SMT
    <3>3. answer = y
      BY <2>1, <3>2, SMT
    <3> QED
      BY <2>3, <3>1, <3>3
  <2>4. CASE FamilyHere # "DS18S20"
    <3>1. y = (100 * Measured) \div 16
      BY <2>1, <2>2, <2>4, SMT DEF Truncated
    <3>2. y >= 0
      BY <2>2, <3>1, SMT
    <3>3. answer = y
      BY <2>1, <3>2, SMT
    <3> QED
      BY <2>4, <3>1, <3>3
  <2> QED
    BY <2>3, <2>4
<1> QED
  BY <1>1, OwnInvariant, PTL
=============================================================================
