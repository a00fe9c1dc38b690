---------------------------- MODULE CommandsProofs ----------------------------
(***************************************************************************)
(* Proofs about the command parser, for every table of pins and slices.    *)
(***************************************************************************)
EXTENDS Commands, TLAPS

(* The bits of a GPIO operand are what the sender put in it *)
LEMMA OperandBits ==
    ASSUME NEW n \in GpioCommand
    PROVE  /\ GpioByte(n) \in 0 .. 127
           /\ Pin(GpioByte(n)) = n.pin
           /\ Bit(GpioByte(n), 16) = n.out
           /\ Bit(GpioByte(n), 32) = n.pull
           /\ Bit(GpioByte(n), 64) = n.val
<1> DEFINE p == n.pin
<1>1. p \in 0 .. 15 /\ n.out \in {0, 1} /\ n.pull \in {0, 1} /\ n.val \in {0, 1}
  BY PinsAssumption DEF GpioCommand
<1>2. ASSUME NEW x \in 0 .. 15, NEW a \in {0, 1}, NEW b \in {0, 1}, NEW v \in {0, 1}
      PROVE  LET d == x + 16 * a + 32 * b + 64 * v IN
             /\ d \in 0 .. 127 /\ d % 16 = x
             /\ (d \div 16) % 2 = a /\ (d \div 32) % 2 = b /\ (d \div 64) % 2 = v
  OBVIOUS
<1> QED
  BY <1>1, <1>2 DEF GpioByte, Pin, Bit

(* The bytes of a command, and where its kind shows *)
LEMMA CommandBytes ==
    ASSUME NEW n \in Command
    PROVE  /\ n \in GpioCommand => /\ Len(Bytes(n)) = 3 /\ Bytes(n)[1] = STX
                                   /\ Bytes(n)[2] = GPIO /\ Bytes(n)[3] = GpioByte(n)
                                   /\ n.kind = "gpio"
           /\ n \in PwmCommand => /\ Len(Bytes(n)) = 4 /\ Bytes(n)[1] = STX
                                  /\ Bytes(n)[2] = PWM /\ Bytes(n)[3] = n.num
                                  /\ Bytes(n)[4] = n.level /\ n.kind = "pwm"
           /\ n \in DebugCommand => /\ Len(Bytes(n)) = 1 /\ n.kind = "debug"
                                    /\ Bytes(n)[1] = IF n.on THEN DebugOn ELSE DebugOff
           /\ n = Newline => /\ Len(Bytes(n)) = 1 /\ Bytes(n)[1] = 10 /\ n.kind = "newline"
<1>1. CASE n \in GpioCommand
  <2>1. n.kind = "gpio"
    BY <1>1 DEF GpioCommand
  <2> QED
    BY <2>1 DEF Bytes, PwmCommand, DebugCommand, Newline
<1>2. CASE n \in PwmCommand
  <2>1. n.kind = "pwm"
    BY <1>2 DEF PwmCommand
  <2> QED
    BY <2>1 DEF Bytes, GpioCommand, DebugCommand, Newline
<1>3. CASE n \in DebugCommand
  <2>1. n.kind = "debug"
    BY <1>3 DEF DebugCommand
  <2> QED
    BY <2>1 DEF Bytes, GpioCommand, PwmCommand, Newline
<1>4. CASE n = Newline
  <2>1. n.kind = "newline"
    BY <1>4 DEF Newline
  <2> QED
    BY <2>1 DEF Bytes, GpioCommand, PwmCommand, DebugCommand
<1> QED
  BY <1>1, <1>2, <1>3, <1>4 DEF Command

-----------------------------------------------------------------------------
(* The inductive invariant: the parser's state is the sender's position in  *)
(* the command (AtByte), and a GPIO command on its way into its pin is the  *)
(* only difference between the pins and what was asked (Pending).           *)
AtByte == pc = "byte" =>
    /\ listening
    /\ k = 0 => state = 0
    /\ k # 0 => /\ (cmd \in GpioCommand /\ k \in 1 .. 2) \/ (cmd \in PwmCommand /\ k \in 1 .. 3)
                /\ k = 1 => state = 1
                /\ k = 2 => state = IF cmd \in GpioCommand THEN 128 ELSE 144
                /\ k = 3 => state = 145 /\ temp = cmd.num

AtGpioout == pc \in {"put", "dir"} =>
    listening /\ k = 0 /\ state = 0 /\ cmd \in GpioCommand /\ c = GpioByte(cmd)

Done == listening =>
    /\ pc1 = "loop" /\ level = askedLevel /\ text_debug = askedDebug
    /\ pc \in {"idle", "byte"} => pins = askedPins

Pending ==
    /\ pc = "put" => askedPins = [pins EXCEPT ![cmd.pin] = After(cmd, @)]
    /\ pc = "dir" => askedPins = [pins EXCEPT ![cmd.pin].out = (cmd.out = 1)]

BeforeListen == ~listening =>
    /\ pc = "idle"
    /\ askedPins = [p \in Pins |-> SetupPin] /\ askedLevel = [s \in Nums |-> 0]
    /\ askedDebug /\ text_debug
    /\ \A p \in i : pins[p] = SetupPin
    /\ pc1 = "recv" => i = Pins /\ level = [s \in Nums |-> 0]

CommandInv == TypeOK /\ AtByte /\ AtGpioout /\ Done /\ Pending /\ BeforeListen

(* A pin's configuration after a command, and after half of one *)
LEMMA AfterPin ==
    ASSUME NEW n \in GpioCommand, NEW p \in PinConfig
    PROVE  /\ After(n, p) \in PinConfig
           /\ n.pin \in Pins
           /\ Pull(n.pull, n.val) \in {"up", "down", "none"}
  BY DEF After, Pull, PinConfig, GpioCommand

LEMMA InitCommandInv == Init => CommandInv
<1> SUFFICES ASSUME Init PROVE CommandInv
  OBVIOUS
<1>1. TypeOK
  <2>1. SetupPin \in PinConfig /\ ResetPin \in PinConfig
    BY DEF SetupPin, ResetPin, PinConfig
  <2>2. pins \in [Pins -> PinConfig] /\ askedPins \in [Pins -> PinConfig]
    BY <2>1 DEF Init
  <2>3. level \in [Nums -> 0 .. 255] /\ askedLevel \in [Nums -> Levels]
    BY LevelsAssumption DEF Init
  <2>4. cmd \in Command /\ i \subseteq Pins
    BY DEF Init, Command
  <2>5. text_debug \in BOOLEAN /\ listening \in BOOLEAN /\ askedDebug \in BOOLEAN
    BY DEF Init
  <2>6. k \in 0 .. 3 /\ temp \in Nat /\ c \in Nat
    BY DEF Init
  <2>7. pc \in {"idle", "byte", "put", "dir"} /\ state \in {0, 1, 128, 144, 145} /\ pc1 \in {"gpio", "recv", "loop"}
    BY DEF Init
  <2> QED
    BY <2>2, <2>3, <2>4, <2>5, <2>6, <2>7 DEF TypeOK
<1> QED
  BY <1>1 DEF Init, CommandInv, AtByte, AtGpioout, Done, Pending, BeforeListen

(* One byte, in each state of the parser *)
LEMMA ByteCommandInv ==
    ASSUME CommandInv, NEW n \in Command, Byte(n)
    PROVE  CommandInv'
<1> DEFINE b == Bytes(n)[k + 1]
<1>0. /\ pc = "byte" /\ (k # 0 => n = cmd) /\ Parse(b) /\ cmd' = n
      /\ k' = (k + 1) % Len(Bytes(n))
      /\ IF k' = 0 THEN Ask(n) ELSE UNCHANGED asked
      /\ pins' = pins /\ UNCHANGED core1
      /\ listening /\ k \in 0 .. 3 /\ TypeOK
      /\ pins = askedPins /\ level = askedLevel /\ text_debug = askedDebug /\ pc1 = "loop"
  BY DEF Byte, CommandInv, AtByte, Done, TypeOK
<1>1. k = 0 => state = 0
  BY <1>0 DEF CommandInv, AtByte
<1>2. k # 0 => /\ (n \in GpioCommand /\ k \in 1 .. 2) \/ (n \in PwmCommand /\ k \in 1 .. 3)
               /\ k = 1 => state = 1
               /\ k = 2 => state = IF n \in GpioCommand THEN 128 ELSE 144
               /\ k = 3 => state = 145 /\ temp = n.num
  BY <1>0 DEF CommandInv, AtByte
<1> HIDE DEF b
<1>3. CASE AtStart(b)
  <2>1. k = 0 /\ b = Bytes(n)[1] /\ level' = level /\ pc' = "byte" /\ temp' = temp /\ c' = c
    BY <1>0, <1>1, <1>2, <1>3 DEF AtStart, b
  <2>2. CASE n \in GpioCommand \cup PwmCommand
    <3>1. b = STX /\ Len(Bytes(n)) \in {3, 4}
      BY <2>1, <2>2, CommandBytes
    <3>2. k' = 1 /\ state' = 1 /\ UNCHANGED asked /\ text_debug' = text_debug
      <4>1. k' = 1
        <5>1. CASE Len(Bytes(n)) = 3
          BY <1>0, <2>1, <5>1
        <5>2. CASE Len(Bytes(n)) = 4
          BY <1>0, <2>1, <5>2
        <5> QED
          BY <3>1, <5>1, <5>2
      <4>2. UNCHANGED asked
        BY <1>0, <4>1
      <4>3. b # DebugOn /\ b # DebugOff
        BY <3>1 DEF STX, DebugOn, DebugOff
      <4>4. state' = 1 /\ text_debug' = text_debug
        BY <1>3, <3>1, <4>3, Zenon DEF AtStart
      <4> QED
        BY <4>1, <4>2, <4>4
    <3>3. TypeOK'
      BY <1>0, <2>1, <3>2 DEF TypeOK, asked, core1
    <3> QED
      BY <1>0, <2>1, <2>2, <3>2, <3>3 DEF CommandInv, AtByte, AtGpioout, Done, Pending,
         BeforeListen, asked, core1
  <2>3. CASE n \in DebugCommand
    <3>1. b = (IF n.on THEN DebugOn ELSE DebugOff) /\ Len(Bytes(n)) = 1 /\ n.kind = "debug"
          /\ n.on \in BOOLEAN
      BY <2>1, <2>3, CommandBytes DEF DebugCommand
    <3>2. k' = 0 /\ state' = 0 /\ text_debug' = n.on
      <4>1. k' = 0
        BY <1>0, <2>1, <3>1
      <4>2. b # STX /\ DebugOn # DebugOff
        BY <3>1 DEF STX, DebugOn, DebugOff
      <4>3. text_debug' = (IF b = DebugOn THEN TRUE ELSE IF b = DebugOff THEN FALSE ELSE text_debug)
            /\ state' = 0
        BY <1>3, <4>2, Zenon DEF AtStart
      <4>4. CASE n.on
        <5>1. b = DebugOn
          BY <3>1, <4>4
        <5> QED
          BY <4>1, <4>3, <4>4, <5>1
      <4>5. CASE ~n.on
        <5>1. b = DebugOff
          BY <3>1, <4>5
        <5>2. text_debug' = FALSE /\ n.on = FALSE
          BY <3>1, <4>2, <4>3, <4>5, <5>1, Zenon
        <5> QED
          BY <4>1, <4>3, <5>2
      <4> QED
        BY <4>4, <4>5
    <3>3. askedPins' = askedPins /\ askedLevel' = askedLevel /\ askedDebug' = n.on
      BY <1>0, <3>1, <3>2 DEF Ask
    <3>4. TypeOK'
      BY <1>0, <2>1, <3>1, <3>2, <3>3 DEF TypeOK, core1
    <3> QED
      BY <1>0, <2>1, <3>2, <3>3, <3>4 DEF CommandInv, AtByte, AtGpioout, Done, Pending,
         BeforeListen, core1
  <2>4. CASE n = Newline
    <3>1. b = 10 /\ Len(Bytes(n)) = 1 /\ n.kind = "newline"
      BY <2>1, <2>4, CommandBytes
    <3>2. k' = 0 /\ state' = 0 /\ text_debug' = text_debug
      BY <1>0, <1>3, <2>1, <3>1 DEF AtStart, STX, DebugOn, DebugOff
    <3>3. askedPins' = askedPins /\ askedLevel' = askedLevel /\ askedDebug' = askedDebug
      BY <1>0, <3>1, <3>2 DEF Ask
    <3>4. TypeOK'
      BY <1>0, <2>1, <3>2, <3>3 DEF TypeOK, core1
    <3> QED
      BY <1>0, <2>1, <3>2, <3>3, <3>4 DEF CommandInv, AtByte, AtGpioout, Done, Pending,
         BeforeListen, core1
  <2> QED
    BY <2>2, <2>3, <2>4 DEF Command
<1>4. CASE AtKind(b)
  <2>1. /\ k = 1 /\ b = Bytes(n)[2] /\ n \in GpioCommand \cup PwmCommand
        /\ UNCHANGED <<level, text_debug, pc, temp, c>>
    BY <1>0, <1>1, <1>2, <1>4 DEF AtKind, b
  <2>2. Len(Bytes(n)) \in {3, 4} /\ b = IF n \in GpioCommand THEN GPIO ELSE PWM
    BY <2>1, CommandBytes
  <2>3. k' = 2 /\ UNCHANGED asked /\ state' = IF n \in GpioCommand THEN 128 ELSE 144
    <3>1. k' = 2
      <4>1. CASE Len(Bytes(n)) = 3
        BY <1>0, <2>1, <4>1
      <4>2. CASE Len(Bytes(n)) = 4
        BY <1>0, <2>1, <4>2
      <4> QED
        BY <2>2, <4>1, <4>2
    <3>2. UNCHANGED asked
      BY <1>0, <3>1
    <3>3. state' = IF b = GPIO THEN 128 ELSE IF b = PWM THEN 144 ELSE 1
      BY <1>4 DEF AtKind
    <3>4. state' = IF n \in GpioCommand THEN 128 ELSE 144
      BY <2>2, <3>3 DEF GPIO, PWM
    <3> QED
      BY <3>1, <3>2, <3>4
  <2>4. TypeOK'
    BY <1>0, <2>1, <2>3 DEF TypeOK, asked, core1
  <2> QED
    BY <1>0, <2>1, <2>3, <2>4 DEF CommandInv, AtByte, AtGpioout, Done, Pending,
       BeforeListen, asked, core1
<1>5. CASE AtGpio(b)
  <2>1. /\ k = 2 /\ b = Bytes(n)[3] /\ n \in GpioCommand
        /\ UNCHANGED <<level, text_debug, temp>> /\ c' = b /\ pc' = "put" /\ state' = 0
    BY <1>0, <1>1, <1>2, <1>5 DEF AtGpio, b
  <2>2. Len(Bytes(n)) = 3 /\ b = GpioByte(n) /\ n.kind = "gpio"
    BY <2>1, CommandBytes
  <2>3. k' = 0 /\ Ask(n)
    BY <1>0, <2>1, <2>2
  <2>4. /\ askedPins' = [askedPins EXCEPT ![n.pin] = After(n, @)]
        /\ askedLevel' = askedLevel /\ askedDebug' = askedDebug
    BY <2>2, <2>3 DEF Ask
  <2>5. askedPins' \in [Pins -> PinConfig]
    <3>1. n.pin \in Pins
      BY <2>1 DEF GpioCommand
    <3>2. askedPins[n.pin] \in PinConfig /\ askedPins \in [Pins -> PinConfig]
      BY <1>0, <3>1 DEF TypeOK
    <3>3. After(n, askedPins[n.pin]) \in PinConfig
      BY <2>1, <3>2, AfterPin
    <3> QED
      BY <2>4, <3>2, <3>3
  <2>6. c' \in Nat
    BY <2>1, <2>2, OperandBits
  <2>7. TypeOK'
    BY <1>0, <2>1, <2>3, <2>4, <2>5, <2>6 DEF TypeOK, core1
  <2> QED
    BY <1>0, <2>1, <2>2, <2>3, <2>4, <2>7 DEF CommandInv, AtByte, AtGpioout, Done, Pending,
       BeforeListen, core1
<1>6. CASE AtSlice(b)
  <2>1. /\ k = 2 /\ b = Bytes(n)[3] /\ n \in PwmCommand /\ n \notin GpioCommand
        /\ UNCHANGED <<level, text_debug, pc, c>> /\ temp' = b /\ state' = 145
    BY <1>0, <1>1, <1>2, <1>6 DEF AtSlice, b
  <2>2. Len(Bytes(n)) = 4 /\ b = n.num /\ n.num \in Nat
    <3>1. n.num \in Nums
      BY <2>1 DEF PwmCommand
    <3>2. n.num \in 0 .. 255
      BY <3>1, PinsAssumption, Zenon DEF PinsAssumption
    <3> QED
      BY <2>1, <3>2, CommandBytes
  <2>3. k' = 3 /\ UNCHANGED asked
    BY <1>0, <2>1, <2>2
  <2>4. TypeOK'
    BY <1>0, <2>1, <2>2, <2>3 DEF TypeOK, asked, core1
  <2> QED
    BY <1>0, <2>1, <2>2, <2>3, <2>4 DEF CommandInv, AtByte, AtGpioout, Done, Pending,
       BeforeListen, asked, core1
<1>7. CASE AtLevel(b)
  <2>1. /\ k = 3 /\ b = Bytes(n)[4] /\ n \in PwmCommand /\ temp = n.num
        /\ UNCHANGED <<text_debug, pc, temp, c>> /\ state' = 0
        /\ level' = [level EXCEPT ![temp] = b]
    BY <1>0, <1>1, <1>2, <1>7 DEF AtLevel, b
  <2>2. /\ Len(Bytes(n)) = 4 /\ b = n.level /\ n.kind = "pwm"
        /\ n.num \in Nums /\ n.level \in Levels
    BY <2>1, CommandBytes DEF PwmCommand
  <2>3. k' = 0 /\ Ask(n)
    BY <1>0, <2>1, <2>2
  <2>4. /\ askedLevel' = [askedLevel EXCEPT ![n.num] = n.level]
        /\ askedPins' = askedPins /\ askedDebug' = askedDebug
    BY <2>2, <2>3 DEF Ask
  <2>5. level' = askedLevel'
    BY <1>0, <2>1, <2>2, <2>4
  <2>6. TypeOK'
    <3>1. level' \in [Nums -> 0 .. 255] /\ askedLevel' \in [Nums -> Levels]
      <4>1. askedLevel \in [Nums -> Levels]
        BY <1>0 DEF TypeOK
      <4>2. askedLevel' \in [Nums -> Levels]
        BY <2>2, <2>4, <4>1
      <4> QED
        BY <2>5, <4>2, LevelsAssumption
    <3> QED
      BY <1>0, <2>1, <2>3, <2>4, <3>1 DEF TypeOK, core1
  <2> QED
    BY <1>0, <2>1, <2>3, <2>4, <2>5, <2>6 DEF CommandInv, AtByte, AtGpioout, Done, Pending,
       BeforeListen, core1
<1> QED
  BY <1>0, <1>3, <1>4, <1>5, <1>6, <1>7 DEF Parse

(* gpioout: the two steps bring the pin to what was asked *)
LEMMA GpiooutCommandInv ==
    ASSUME CommandInv, Put \/ SetDir
    PROVE  CommandInv'
<1> DEFINE p == cmd.pin
<1>1. /\ pc \in {"put", "dir"} /\ listening /\ k = 0 /\ state = 0 /\ cmd \in GpioCommand
      /\ c = GpioByte(cmd) /\ pins \in [Pins -> PinConfig] /\ TypeOK /\ Pending /\ Done
  BY DEF Put, SetDir, CommandInv, AtGpioout, TypeOK
<1>2. /\ Pin(c) = p /\ Bit(c, 16) = cmd.out /\ Bit(c, 32) = cmd.pull /\ Bit(c, 64) = cmd.val
      /\ p \in Pins /\ Pull(cmd.pull, cmd.val) \in {"up", "down", "none"}
      /\ cmd.out \in {0, 1} /\ cmd.val \in {0, 1} /\ pins[p] \in PinConfig
  BY <1>1, OperandBits, AfterPin DEF GpioCommand
<1> HIDE DEF p
<1>3. /\ UNCHANGED <<level, text_debug, state, temp, c, core1, sender>>
      /\ pc' \in {"byte", "dir"}
  BY DEF Put, SetDir
<1>4. CASE Put
  <2>1. /\ pc = "put" /\ pc' = "dir"
        /\ pins' = [pins EXCEPT ![p] = IF cmd.out = 1
                      THEN [@ EXCEPT !.level = cmd.val]
                      ELSE [@ EXCEPT !.pull = Pull(cmd.pull, cmd.val)]]
    BY <1>2, <1>4 DEF Put
  <2>2. pins' \in [Pins -> PinConfig]
    <3>1. (IF cmd.out = 1 THEN [pins[p] EXCEPT !.level = cmd.val]
                          ELSE [pins[p] EXCEPT !.pull = Pull(cmd.pull, cmd.val)]) \in PinConfig
      BY <1>2 DEF PinConfig
    <3> QED
      BY <1>1, <2>1, <3>1
  <2>3. askedPins' = [pins' EXCEPT ![p].out = (cmd.out = 1)]
    <3>1. askedPins = [pins EXCEPT ![p] = After(cmd, @)]
      BY <1>1, <2>1 DEF Pending, p
    <3>2. pins'[p] = IF cmd.out = 1 THEN [pins[p] EXCEPT !.level = cmd.val]
                                    ELSE [pins[p] EXCEPT !.pull = Pull(cmd.pull, cmd.val)]
      BY <1>1, <1>2, <2>1
    <3>3. After(cmd, pins[p]) = [pins'[p] EXCEPT !.out = (cmd.out = 1)]
      <4>1. CASE cmd.out = 1
        BY <1>2, <3>2, <4>1 DEF After, PinConfig
      <4>2. CASE cmd.out # 1
        BY <1>2, <3>2, <4>2 DEF After, PinConfig
      <4> QED
        BY <4>1, <4>2
    <3>4. askedPins' = askedPins
      BY <1>3 DEF sender, asked
    <3> QED
      BY <1>1, <2>1, <3>1, <3>3, <3>4
  <2>4. TypeOK'
    BY <1>1, <1>3, <2>1, <2>2 DEF TypeOK, core1, sender, asked
  <2> QED
    BY <1>1, <1>3, <2>1, <2>3, <2>4 DEF CommandInv, AtByte, AtGpioout, Done, Pending,
       BeforeListen, core1, sender, asked, p
<1>5. CASE SetDir
  <2>1. /\ pc = "dir" /\ pc' = "byte"
        /\ pins' = [pins EXCEPT ![p].out = (cmd.out = 1)]
    BY <1>2, <1>5 DEF SetDir
  <2>2. pins' = askedPins /\ askedPins' = askedPins
    BY <1>1, <1>3, <2>1 DEF Pending, sender, asked, p
  <2>3. TypeOK'
    BY <1>1, <1>3, <2>1, <2>2 DEF TypeOK, core1, sender, asked
  <2> QED
    BY <1>1, <1>3, <2>1, <2>2, <2>3 DEF CommandInv, AtByte, AtGpioout, Done, Pending,
       BeforeListen, core1, sender, asked
<1> QED
  BY <1>4, <1>5

(* main_1: no command is parsed while it sets the pins up *)
LEMMA SetupCommandInv ==
    ASSUME CommandInv, Setup
    PROVE  CommandInv'
<1>1. ~listening
  BY DEF CommandInv, Done, Setup, SetupGpio, SetupOthers, Listen
<1>2. /\ pc = "idle" /\ UNCHANGED <<text_debug, callback, sender>> /\ TypeOK /\ BeforeListen
  BY <1>1 DEF CommandInv, BeforeListen, Setup, SetupGpio, SetupOthers, Listen
<1>3. CASE SetupGpio
  <2> PICK p \in Pins \ i : pins' = [pins EXCEPT ![p] = SetupPin] /\ i' = i \cup {p}
    BY <1>3 DEF SetupGpio
  <2>1. SetupPin \in PinConfig /\ pins \in [Pins -> PinConfig] /\ i \subseteq Pins
    BY <1>2 DEF SetupPin, PinConfig, TypeOK
  <2>2. pins' \in [Pins -> PinConfig] /\ i' \subseteq Pins
    BY <2>1
  <2>3. \A x \in i' : pins'[x] = SetupPin
    <3>1. \A x \in i : pins[x] = SetupPin
      BY <1>1, <1>2 DEF BeforeListen
    <3> SUFFICES ASSUME NEW x \in i' PROVE pins'[x] = SetupPin
      OBVIOUS
    <3>2. CASE x = p
      BY <2>1, <3>2
    <3>3. CASE x # p
      BY <2>1, <3>1, <3>3
    <3> QED
      BY <3>2, <3>3
  <2>4. UNCHANGED <<level, pc1, listening>> /\ pc1 = "gpio"
    BY <1>3 DEF SetupGpio
  <2>5. TypeOK'
    BY <1>2, <2>2, <2>4 DEF TypeOK, callback, sender, asked
  <2> QED
    BY <1>1, <1>2, <2>3, <2>4, <2>5 DEF CommandInv, AtByte, AtGpioout, Done, Pending,
       BeforeListen, callback, sender, asked
<1>4. CASE SetupOthers
  <2>1. level' = [s \in Nums |-> 0] /\ UNCHANGED <<pins, i, listening>> /\ i = Pins /\ pc1' = "recv"
    BY <1>4 DEF SetupOthers
  <2>2. level' \in [Nums -> 0 .. 255]
    BY <2>1
  <2>3. TypeOK'
    BY <1>2, <2>1, <2>2 DEF TypeOK, callback, sender, asked
  <2> QED
    BY <1>1, <1>2, <2>1, <2>3 DEF CommandInv, AtByte, AtGpioout, Done, Pending,
       BeforeListen, callback, sender, asked
<1>5. CASE Listen
  <2>1. UNCHANGED <<pins, level, i>> /\ listening' = TRUE /\ pc1 = "recv" /\ pc1' = "loop"
    BY <1>5 DEF Listen, hw
  <2>2. i = Pins /\ level = [s \in Nums |-> 0] /\ askedLevel = [s \in Nums |-> 0]
    BY <1>1, <1>2, <2>1 DEF BeforeListen
  <2>3. pins = askedPins
    <3>1. \A p \in Pins : pins[p] = SetupPin
      BY <1>1, <1>2, <2>2 DEF BeforeListen
    <3>2. pins = [p \in Pins |-> SetupPin]
      BY <1>2, <3>1 DEF TypeOK
    <3> QED
      BY <1>1, <1>2, <3>2 DEF BeforeListen
  <2>4. text_debug = askedDebug
    <3>1. text_debug /\ askedDebug /\ text_debug \in BOOLEAN /\ askedDebug \in BOOLEAN
      BY <1>1, <1>2 DEF BeforeListen, TypeOK
    <3> QED
      BY <3>1
  <2>5. TypeOK'
    BY <1>2, <2>1 DEF TypeOK, callback, sender, asked
  <2> QED
    BY <1>1, <1>2, <2>1, <2>2, <2>3, <2>4, <2>5 DEF CommandInv, AtByte, AtGpioout, Done,
       Pending, BeforeListen, callback, sender, asked
<1> QED
  BY <1>3, <1>4, <1>5 DEF Setup

LEMMA NextCommandInv ==
    ASSUME CommandInv, [Next]_vars
    PROVE  CommandInv'
<1>1. CASE Setup
  BY <1>1, SetupCommandInv
<1>2. CASE Receive
  <2>1. /\ pc = "idle" /\ listening /\ pc' = "byte" /\ state' = 0 /\ temp' = 0
        /\ cmd' = Newline /\ k' = 0 /\ UNCHANGED <<pins, level, text_debug, c, pc1, i, listening>>
        /\ UNCHANGED <<askedPins, askedLevel, askedDebug>>
    BY <1>2 DEF Receive, hw, core1, asked
  <2>2. TypeOK'
    BY <2>1 DEF CommandInv, TypeOK, Command
  <2> QED
    BY <2>1, <2>2 DEF CommandInv, AtByte, AtGpioout, Done, Pending, BeforeListen
<1>3. CASE \E n \in Command : Byte(n)
  BY <1>3, ByteCommandInv
<1>4. CASE Put \/ SetDir
  BY <1>4, GpiooutCommandInv
<1>5. CASE DatagramEnds
  <2>1. /\ pc = "byte" /\ pc' = "idle"
        /\ UNCHANGED <<pins, level, text_debug, state, temp, c, pc1, i, listening>>
        /\ UNCHANGED <<cmd, k, askedPins, askedLevel, askedDebug>>
    BY <1>5 DEF DatagramEnds, hw, core1, sender, asked
  <2>2. TypeOK'
    BY <2>1 DEF CommandInv, TypeOK
  <2> QED
    BY <2>1, <2>2 DEF CommandInv, AtByte, AtGpioout, Done, Pending, BeforeListen
<1>6. CASE UNCHANGED vars
  BY <1>6 DEF vars, hw, callback, core1, sender, asked, CommandInv, TypeOK, AtByte, AtGpioout,
     Done, Pending, BeforeListen
<1> QED
  BY <1>1, <1>2, <1>3, <1>4, <1>5, <1>6 DEF Next

THEOREM CommandsInvariant == Spec => []CommandInv
<1> QED
  BY InitCommandInv, NextCommandInv, PTL DEF Spec

-----------------------------------------------------------------------------
(* The parser's locals and the pins keep their ranges, for every table of   *)
(* pins and slices (misterpico.c:106-113, 531-583).                         *)
THEOREM CommandsTypeCorrect == Spec => []TypeOK
<1>1. CommandInv => TypeOK
  BY DEF CommandInv
<1> QED
  BY <1>1, CommandsInvariant, PTL

(* Between two bytes the outputs are what the commands that came whole ask, *)
(* whatever their operands are and wherever a datagram stops                *)
(* (misterpico.c:538-580, 309-329, 647-653).                                *)
THEOREM CommandsDoneAsAsked == Spec => []DoneAsAsked
<1>1. CommandInv => DoneAsAsked
  BY DEF CommandInv, Done, DoneAsAsked
<1> QED
  BY <1>1, CommandsInvariant, PTL

(* An output changes direction only when the rest of it is as asked         *)
(* (misterpico.c:315-322).                                                  *)
THEOREM CommandsNoGlitch == Spec => NoGlitch
<1> DEFINE Steady == \A p \in Pins : listening /\ pins'[p].out # pins[p].out => pins'[p] = askedPins[p]
<1>1. CommandInv /\ [Next]_vars => [Steady]_vars
  <2> SUFFICES ASSUME CommandInv, Next, NEW p \in Pins, listening, pins'[p].out # pins[p].out
               PROVE  pins'[p] = askedPins[p]
    OBVIOUS
  <2>1. CASE Setup
    BY <2>1 DEF Setup, SetupGpio, SetupOthers, Listen, CommandInv, Done, hw
  <2>2. CASE Receive \/ (\E n \in Command : Byte(n)) \/ DatagramEnds
    BY <2>2 DEF Receive, Byte, DatagramEnds, hw
  <2>3. CASE Put
    <3>1. pins \in [Pins -> PinConfig]
      BY DEF CommandInv, TypeOK
    <3>2. pins'[p].out = pins[p].out
      BY <2>3, <3>1 DEF Put, PinConfig
    <3> QED
      BY <3>2
  <2>4. CASE SetDir
    <3>1. /\ cmd \in GpioCommand /\ c = GpioByte(cmd) /\ pc = "dir"
          /\ askedPins = [pins EXCEPT ![cmd.pin].out = (cmd.out = 1)]
      BY <2>4 DEF SetDir, CommandInv, AtGpioout, Pending
    <3>2. Pin(c) = cmd.pin /\ Bit(c, 16) = cmd.out
      BY <3>1, OperandBits
    <3> QED
      BY <2>4, <3>1, <3>2 DEF SetDir
  <2> QED
    BY <2>1, <2>2, <2>3, <2>4 DEF Next
<1> QED
  BY <1>1, CommandsInvariant, PTL DEF Spec, NoGlitch
===============================================================================
