------------------------------ MODULE Core1Loop ------------------------------
(***************************************************************************)
(* loop_1 of misterpico: core 1 runs the output loops of the PWM inputs,   *)
(* the ADC and the one-wire sensors every few milliseconds, and catches up *)
(* one tick at a time when a transmission held it up.  All of them build   *)
(* what they send in sharedbuf, as binary data and, while text_debug is    *)
(* set, as text.  Core 0 changes text_debug at any moment.                 *)
(*                                                                         *)
(* A character of text is the number Char; only its not being NUL matters. *)
(* As the program is built no one-wire context exists: owctx is NULL and   *)
(* ow_devicecount is 0.                                                    *)
(***************************************************************************)
EXTENDS Integers

CONSTANTS
    SHAREDBUFLEN,  \* 2048
    Channels,      \* ADCIN_NUM, 5
    Pwms,          \* NUMPWMIN, 3
    PwmTicks, AdcTicks, OneWireTicks,  \* 8, 9 and ONEWIRELOOPMS = 23
    Samples,       \* readings of the ADC in a datagram, 16
    Conversion,    \* 750 ms
    PwmText,       \* lengths of a line of PWM text
    Readings,      \* what adc_read returns on a channel: 12 bits
    Duties,        \* duty cycles of the PWM inputs: 8 bits
    MaxDue,        \* bound: ticks the loop can be behind
    MaxDebug       \* bound: changes of text_debug

Channel == 0 .. Channels - 1
Max12 == 4095    \* of a reading of the ADC
Max16 == 65535   \* of a uint16_t

ASSUME SizesAssumption ==
    /\ Channels \in Nat \ {0} /\ Pwms \in Nat
    /\ SHAREDBUFLEN \in Nat /\ SHAREDBUFLEN > 3 + 2 * Channels /\ SHAREDBUFLEN > 3 + Pwms
    /\ Channels < 256 /\ Pwms < 256
    /\ PwmText \subseteq Nat
ASSUME TicksAssumption ==
    /\ PwmTicks \in 1 .. 255 /\ AdcTicks \in 1 .. 255 /\ OneWireTicks \in 1 .. 255
    /\ Samples \in 1 .. 16 /\ Conversion \in Nat /\ Conversion + OneWireTicks <= Max16 /\ MaxDue \in Nat \ {0} /\ MaxDebug \in Nat
ASSUME InputsAssumption ==
    Readings \in [Channel -> SUBSET (0 .. Max12)] /\ Duties \subseteq 0 .. 255

VARIABLES
    pc, due,            \* core 1, and the ticks time_us_64 is past timealarm
    pwmoutcount, adcoutcount, onewireoutcount,
    adccount, adctot,
    i,                  \* the channel adc_output_loop is at
    ourms,              \* of onewire_output_loop
    sharedbuf, text_debug,
    debugs,             \* the commands 'd' and 'D' core 0 has parsed
    sum, since, texted  \* history: the readings summed without wrap and the ticks
                        \* since the last ADC datagram; text in this one

counts == <<pwmoutcount, adcoutcount, onewireoutcount>>
adc == <<adccount, adctot, i>>
history == <<sum, since, texted>>
flag == <<text_debug, debugs>>
vars == <<pc, due, counts, adc, ourms, sharedbuf, flag, history>>

-----------------------------------------------------------------------------
(* Strings in sharedbuf *)
Char == 256
Cells == 0 .. SHAREDBUFLEN - 1

StrLen(buf) == CHOOSE n \in Cells : buf[n] = 0 /\ \A j \in 0 .. n - 1 : buf[j] # 0

(* Mutant of AppendText: snprintf is given the length of the whole buffer *)
AppendUnbounded(buf, len) ==
    [j \in Cells |-> IF j < StrLen(buf) THEN buf[j]
                     ELSE IF j < StrLen(buf) + len THEN Char
                     ELSE IF j = StrLen(buf) + len THEN 0 ELSE buf[j]]

(* BPRINTF of a text of len characters *)
AppendText(buf, len) ==
    LET start == StrLen(buf)
        end == IF start + len < SHAREDBUFLEN THEN start + len ELSE SHAREDBUFLEN - 1
    IN  [j \in Cells |-> IF j < start THEN buf[j]
                         ELSE IF j < end THEN Char
                         ELSE IF j = end THEN 0 ELSE buf[j]]

(* BPREP *)
Prep(buf) == [buf EXCEPT ![0] = 0]

(* The bytes 0x0e, kind and count that start a datagram *)
Start(buf, kind, count) == [buf EXCEPT ![0] = 14, ![1] = kind, ![2] = count]

High(tot) == tot \div 4096
Low(tot) == (tot \div 16) % 256

-----------------------------------------------------------------------------
Init ==
    /\ pc = "loop" /\ due = 0
    /\ pwmoutcount = 0 /\ adcoutcount = 0 /\ onewireoutcount = 0
    /\ adccount = 0 /\ adctot = [x \in Channel |-> 0] /\ i = 0
    /\ ourms = 0
    /\ sharedbuf = [j \in Cells |-> 0] /\ text_debug = TRUE /\ debugs = 0
    /\ sum = [x \in Channel |-> 0] /\ since = 0 /\ texted = FALSE

(* A millisecond passes *)
Clock ==
    /\ due < MaxDue
    /\ due' = due + 1
    /\ UNCHANGED <<pc, counts, adc, ourms, sharedbuf, flag, history>>

(* Core 0 parses the commands 'd' and 'D' *)
Debug ==
    /\ debugs < MaxDebug
    /\ debugs' = debugs + 1
    /\ text_debug' = ~text_debug
    /\ UNCHANGED <<pc, due, counts, adc, ourms, sharedbuf, history>>

(* timeus > timealarm *)
Wake ==
    /\ pc = "loop" /\ due > 0
    /\ due' = due - 1
    /\ pwmoutcount' = pwmoutcount + 1
    /\ pc' = IF pwmoutcount' >= PwmTicks THEN "pwm" ELSE "adc"
    /\ since' = since + 1
    /\ UNCHANGED <<adcoutcount, onewireoutcount, adc, ourms, sharedbuf, flag, sum, texted>>

(* pwm_output_loop: the text, which is sent on its own *)
PwmPrint ==
    /\ pc = "pwm"
    /\ IF text_debug
       THEN \E len \in PwmText : sharedbuf' = AppendText(Prep(sharedbuf), len)
       ELSE UNCHANGED sharedbuf
    /\ pc' = "pwmsend"
    /\ UNCHANGED <<due, counts, adc, ourms, flag, history>>

(* pwm_output_loop: the data *)
PwmSend ==
    /\ pc = "pwmsend"
    /\ \E d \in [0 .. Pwms - 1 -> Duties] :
         sharedbuf' = [j \in Cells |-> IF j \in 3 .. Pwms + 2 THEN d[j - 3]
                                       ELSE Start(sharedbuf, 80, Pwms)[j]]
    /\ pwmoutcount' = 0
    /\ pc' = "adc"
    /\ UNCHANGED <<due, adcoutcount, onewireoutcount, adc, ourms, flag, history>>

(* adc_output_loop is not due *)
AdcSkip ==
    /\ pc = "adc" /\ adcoutcount + 1 < AdcTicks
    /\ adcoutcount' = adcoutcount + 1
    /\ pc' = "onewire"
    /\ UNCHANGED <<due, pwmoutcount, onewireoutcount, adc, ourms, sharedbuf, flag, history>>

(* adc_output_loop: a reading of every channel.  loop_1 resets adcoutcount  *)
(* when it returns; nothing reads it before.                                *)
AdcSample ==
    /\ pc = "adc" /\ adcoutcount + 1 >= AdcTicks
    /\ adccount' = adccount + 1
    /\ \E r \in [Channel -> UNION {Readings[x] : x \in Channel}] :
         /\ \A x \in Channel : r[x] \in Readings[x]
         /\ adctot' = [x \in Channel |-> (adctot[x] + r[x]) % (Max16 + 1)]
         /\ sum' = [x \in Channel |-> sum[x] + r[x]]
    /\ adcoutcount' = 0
    /\ pc' = IF adccount' >= Samples THEN "adchead" ELSE "onewire"
    /\ UNCHANGED <<due, pwmoutcount, onewireoutcount, i, ourms, sharedbuf, flag, since, texted>>

(* The start of the text, then that of the data *)
AdcHead ==
    /\ pc = "adchead"
    /\ adccount' = 0
    /\ sharedbuf' = Start(IF text_debug THEN AppendText(Prep(sharedbuf), 5) ELSE sharedbuf, 86, Channels)
    /\ i' = 0
    /\ texted' = text_debug
    /\ pc' = "adcitem"
    /\ UNCHANGED <<due, counts, adctot, ourms, flag, sum, since>>

(* Mutant of AdcItem: the low byte comes first *)
AdcItemSwapped ==
    /\ pc = "adcitem"
    /\ LET buf == IF text_debug THEN AppendText(sharedbuf, 9) ELSE sharedbuf
       IN  sharedbuf' = [buf EXCEPT ![2 * i + 3] = Low(adctot[i]), ![2 * i + 4] = High(adctot[i])]
    /\ adctot' = [adctot EXCEPT ![i] = 0]
    /\ i' = i + 1
    /\ texted' = (texted \/ text_debug)
    /\ pc' = IF i' = Channels THEN "adcsend" ELSE "adcitem"
    /\ UNCHANGED <<due, counts, adccount, ourms, flag, sum, since>>

(* A channel, as text and then as data *)
AdcItem ==
    /\ pc = "adcitem"
    /\ LET buf == IF text_debug THEN AppendText(sharedbuf, 9) ELSE sharedbuf
       IN  sharedbuf' = [buf EXCEPT ![2 * i + 3] = High(adctot[i]), ![2 * i + 4] = Low(adctot[i])]
    /\ adctot' = [adctot EXCEPT ![i] = 0]
    /\ i' = i + 1
    /\ texted' = (texted \/ text_debug)
    /\ pc' = IF i' = Channels THEN "adcsend" ELSE "adcitem"
    /\ UNCHANGED <<due, counts, adccount, ourms, flag, sum, since>>

(* The end of the text, and both datagrams *)
AdcSend ==
    /\ pc = "adcsend"
    /\ sharedbuf' = IF text_debug THEN AppendText(sharedbuf, 1) ELSE sharedbuf
    /\ texted' = FALSE
    /\ sum' = [x \in Channel |-> 0] /\ since' = 0
    /\ pc' = "onewire"
    /\ UNCHANGED <<due, counts, adc, ourms, flag>>

(* onewire_output_loop, without a context and without devices *)
OneWire ==
    /\ pc = "onewire"
    /\ IF onewireoutcount + 1 >= OneWireTicks
       THEN /\ onewireoutcount' = 0
            /\ ourms' = IF ourms >= Conversion THEN 0 ELSE ourms + OneWireTicks
       ELSE /\ onewireoutcount' = onewireoutcount + 1
            /\ UNCHANGED ourms
    /\ pc' = "loop"
    /\ UNCHANGED <<due, pwmoutcount, adcoutcount, adc, sharedbuf, flag, history>>

Loop == Wake \/ PwmPrint \/ PwmSend \/ AdcSkip \/ AdcSample \/ AdcHead \/ AdcItem \/ AdcSend \/ OneWire
Next == Loop \/ Clock \/ Debug

Spec == Init /\ [][Next]_vars

-----------------------------------------------------------------------------
Places == {"loop", "pwm", "pwmsend", "adc", "adchead", "adcitem", "adcsend", "onewire"}

(* Type invariant of the loop: every counter keeps its width. *)
TypeOK ==
    /\ pc \in Places
    /\ due \in 0 .. MaxDue
    /\ pwmoutcount \in 0 .. PwmTicks /\ adcoutcount \in 0 .. AdcTicks - 1
    /\ onewireoutcount \in 0 .. OneWireTicks - 1
    /\ adccount \in 0 .. Samples /\ adctot \in [Channel -> 0 .. Max16] /\ i \in 0 .. Channels
    /\ ourms \in 0 .. Max16
    /\ sharedbuf \in [Cells -> 0 .. Char] /\ text_debug \in BOOLEAN
    /\ debugs \in 0 .. MaxDebug
    /\ sum \in [Channel -> Nat] /\ since \in Nat /\ texted \in BOOLEAN

(* A string operation on sharedbuf stops inside it, whatever mixture of     *)
(* text and data the loops left there and whenever text_debug changes       *)
(* (misterpico.c:48-51).                                                    *)
Terminated == \E j \in Cells : sharedbuf[j] = 0

(* adctot holds every reading since the last datagram: 16 readings of 12    *)
(* bits do not wrap it, and none is lost or kept (misterpico.c:497-521).    *)
Sent(x) == (pc = "adcitem" /\ x < i) \/ pc = "adcsend"
AdcTotals == \A x \in Channel : adctot[x] = IF Sent(x) THEN 0 ELSE sum[x]

(* An ADC datagram comes every AdcTicks * Samples ticks, also while the     *)
(* loop catches up, and carries the mean of the readings in between.  Text  *)
(* printed into the same buffer can damage it, whenever text_debug changes, *)
(* only if one of the bytes it carries is NUL (misterpico.c:492-529,        *)
(* 596-610).                                                                *)
Intact(buf) ==
    \A x \in Channel : buf[2 * x + 3] = High(sum[x]) /\ buf[2 * x + 4] = Low(sum[x])
HasNul == \E x \in Channel : High(sum[x]) = 0 \/ Low(sum[x]) = 0
AdcDatagram ==
    [][pc = "adcsend" /\ pc' = "onewire" =>
         /\ since = AdcTicks * Samples
         /\ sharedbuf'[0] = 14 /\ sharedbuf'[1] = 86 /\ sharedbuf'[2] = Channels
         /\ Intact(sharedbuf') \/ ((texted \/ text_debug) /\ HasNul)]_vars
=============================================================================
