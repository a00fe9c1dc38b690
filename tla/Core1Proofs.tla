----------------------------- MODULE Core1Proofs -----------------------------
(***************************************************************************)
(* Proofs about what core 1 runs: the callback of its timer, which samples *)
(* the PWM inputs, for every number of inputs, every depth of the          *)
(* smoothing and every clock; and its loop, for every number of channels,  *)
(* every length of sharedbuf and every period.                             *)
(***************************************************************************)
EXTENDS PwmIn, Core1Loop, WellFoundedInduction, TLAPS

-----------------------------------------------------------------------------
(* What the provers need about integer division and remainder. *)

(* The quotient is the largest multiple that fits. *)
LEMMA DivBounds ==
    ASSUME NEW a \in Nat, NEW b \in Nat \ {0}
    PROVE  /\ a \div b \in Nat
           /\ b * (a \div b) <= a
           /\ a < b * (a \div b) + b
  OBVIOUS

(* A quotient is below k when the dividend is below k divisors. *)
LEMMA DivLess ==
    ASSUME NEW a \in Nat, NEW b \in Nat \ {0}, NEW k \in Nat, a < k * b
    PROVE  a \div b < k
  OBVIOUS

(* An exact quotient gives the dividend back. *)
LEMMA DivExact ==
    ASSUME NEW a \in Nat, NEW b \in Nat \ {0}, a % b = 0
    PROVE  b * (a \div b) = a
  OBVIOUS

(* A remainder is below the divisor, and changes nothing that already is. *)
LEMMA ModBounds ==
    ASSUME NEW a \in Int, NEW b \in Nat \ {0}
    PROVE  /\ a % b \in 0 .. b - 1
           /\ a \in 0 .. b - 1 => a % b = a
  OBVIOUS

-----------------------------------------------------------------------------
(* One step of the smoothing. *)

(* misterpico.c:367-372: whatever the counter and the window, the sample    *)
(* fits its uint8_t.                                                        *)
LEMMA SampleInRange ==
    ASSUME NEW cur \in Nat, NEW max \in Int
    PROVE  Sample(cur, max) \in 0 .. Full
<1>1. CASE cur >= max
  BY <1>1, FilterAssumption DEF Sample
<1>2. CASE cur < max /\ cur = 0
  BY <1>2, FilterAssumption DEF Sample
<1>3. CASE cur < max /\ cur # 0
  <2>1. max \in Nat \ {0} /\ Full * cur \in Nat
    BY <1>3, FilterAssumption
  <2>2. Full * cur < (Full + 1) * max
    BY <1>3, <2>1, FilterAssumption
  <2>3. (Full * cur) \div max < Full + 1
    BY <2>1, <2>2, DivLess, FilterAssumption
  <2>4. (Full * cur) \div max \in Nat
    BY <2>1, DivBounds
  <2>5. Sample(cur, max) = (Full * cur) \div max
    BY <1>3, <2>1 DEF Sample
  <2> QED
    BY <2>3, <2>4, <2>5, FilterAssumption
<1> QED
  BY <1>1, <1>2, <1>3

(* misterpico.c:374-381: from a total in range, the new total is in range,  *)
(* nothing wraps, and the new duty is its quotient.                         *)
LEMMA FilterStep ==
    ASSUME NEW sample \in 0 .. Full,
           NEW total \in 0 .. Full * Rot,
           NEW duty \in 0 .. Full, duty = total \div Rot
    PROVE  LET new == NewTotal(sample, duty, total) IN
           /\ new \in 0 .. Full * Rot
           /\ NewDuty(new) = new \div Rot
           /\ NewDuty(new) \in 0 .. Full
           /\ Between(NewDuty(new), duty, sample)
<1> DEFINE new == NewTotal(sample, duty, total)
<1>1. Full \in Nat \ {0} /\ Rot \in Nat \ {0} /\ Full * Rot \in Nat /\ TotalMod \in Nat
      /\ Full * Rot < TotalMod
  BY FilterAssumption
<1>2. total \in Nat /\ Rot * duty <= total /\ total < Rot * duty + Rot
  BY <1>1, DivBounds
<1>3. /\ new \in 0 .. Full * Rot
      /\ \/ sample = Full /\ duty = 0 /\ new = Full * Rot
         \/ sample = 0 /\ duty = Full /\ new = 0
         \/ new = total + sample - duty
  <2>1. CASE sample = Full /\ duty = 0
    BY <2>1, <1>1 DEF NewTotal
  <2>2. CASE sample = 0 /\ duty = Full
    BY <2>2, <1>1 DEF NewTotal
  <2>3. CASE ~(sample = Full /\ duty = 0) /\ ~(sample = 0 /\ duty = Full)
    <3>1. new = (total + sample - duty) % TotalMod
      BY <2>3 DEF NewTotal
    <3>2. duty <= total
      BY <1>1, <1>2
    <3>3. total + sample - duty <= Full * Rot
      <4>1. CASE sample <= duty
        BY <4>1, <1>1
      <4>2. CASE sample > duty
        <5>1. duty + 1 <= Full
          BY <4>2, <1>1
        <5>2. Rot * duty + Rot = Rot * (duty + 1)
          BY <1>1
        <5>3. Full * Rot - (Rot * duty + Rot) = Rot * (Full - (duty + 1))
          BY <1>1
        <5>4. Rot * (Full - (duty + 1)) >= Full - (duty + 1)
          BY <5>1, <1>1
        <5>5. total <= Full * Rot - (Full - (duty + 1)) - 1
          BY <1>1, <1>2, <5>3, <5>4
        <5> QED
          BY <5>5, <1>1
      <4> QED
        BY <4>1, <4>2, <1>1
    <3>4. total + sample - duty \in 0 .. TotalMod - 1
      BY <3>2, <3>3, <1>1, <1>2
    <3>5. new = total + sample - duty
      BY <3>1, <3>4, <1>1, ModBounds
    <3> QED
      BY <3>2, <3>3, <3>5, <1>1, <1>2
  <2> QED
    BY <2>1, <2>2, <2>3
<1> DEFINE q == new \div Rot
<1> HIDE DEF new
<1>4. q \in Nat /\ Rot * q <= new /\ new < Rot * q + Rot
  BY <1>1, <1>3, DivBounds
<1> HIDE DEF q
<1>5. q <= Full
  <2>1. Rot * q < Rot * (Full + 1)
    BY <1>1, <1>3, <1>4
  <2> QED
    BY <2>1, <1>1, <1>4
<1>6. NewDuty(new) = q
  <2>1. q \in 0 .. (Full + 1) - 1 /\ Full + 1 \in Nat \ {0} /\ q \in Int
    BY <1>1, <1>4, <1>5
  <2>2. q % (Full + 1) = q
    BY ONLY <2>1, ModBounds
  <2> QED
    BY <2>2 DEF NewDuty, q
<1>7. Between(q, duty, sample)
  <2>1. CASE sample = Full /\ duty = 0 /\ new = Full * Rot
    BY <2>1, <1>4, <1>5, <1>1 DEF Between
  <2>2. CASE sample = 0 /\ duty = Full /\ new = 0
    BY <2>2, <1>4, <1>5, <1>1 DEF Between
  <2>3. CASE new = total + sample - duty /\ sample >= duty
    <3>1. Rot * duty < Rot * q + Rot
      BY <2>3, <1>1, <1>2, <1>4
    <3>2. duty <= q
      BY <3>1, <1>1, <1>4
    <3>3. Rot * q < Rot * duty + Rot + (sample - duty)
      BY <2>3, <1>1, <1>2, <1>4
    <3>4. sample - duty <= Rot * (sample - duty)
      BY <2>3, <1>1
    <3>5. Rot * q < Rot * (sample + 1)
      BY <3>3, <3>4, <1>1, <1>4
    <3>6. q <= sample
      BY <3>5, <1>1, <1>4
    <3> QED
      BY <3>2, <3>6 DEF Between
  <2>4. CASE new = total + sample - duty /\ sample < duty
    <3>1. Rot * q < Rot * duty + Rot
      BY <2>4, <1>1, <1>2, <1>4
    <3>2. q <= duty
      BY <3>1, <1>1, <1>4
    <3>3. Rot * duty - (duty - sample) < Rot * q + Rot
      BY <2>4, <1>1, <1>2, <1>4
    <3>4. duty - sample <= Rot * (duty - sample)
      BY <2>4, <1>1
    <3>5. Rot * sample < Rot * (q + 1)
      BY <3>3, <3>4, <1>1, <1>4
    <3>6. sample <= q
      BY <3>5, <1>1, <1>4
    <3> QED
      BY <3>2, <3>6 DEF Between
  <2> QED
    BY <2>1, <2>2, <2>3, <2>4, <1>3, <1>1
<1> QED
  BY <1>3, <1>4, <1>5, <1>6, <1>7, <1>1 DEF new, q

-----------------------------------------------------------------------------
(* The clock. *)

(* time_us_32 stays below its modulus, since the tick counter wraps with it *)
LEMMA UsInRange ==
    ASSUME NEW n \in 0 .. ClockTicks - 1
    PROVE  Us(n) \in 0 .. TimeMod - 1
<1>1. /\ ClkMHz \in Nat \ {0} /\ Div \in Nat \ {0} /\ TimeMod \in Nat \ {0}
      /\ TimeMod * ClkMHz \in Nat /\ (TimeMod * ClkMHz) % Div = 0
  BY TimeAssumption
<1>2. ClockTicks \in Nat /\ Div * ClockTicks = TimeMod * ClkMHz
  BY <1>1, DivBounds, DivExact DEF ClockTicks
<1>3. n * Div \in Nat /\ n * Div < Div * ClockTicks
  BY <1>1, <1>2
<1>4. n * Div < TimeMod * ClkMHz
  BY <1>2, <1>3
<1> QED
  BY <1>1, <1>3, <1>4, DivLess, DivBounds DEF Us

(* Two readings of the clock differ by a natural number below its modulus,  *)
(* wrapped or not (misterpico.c:343-346).                                   *)
LEMMA ElapsedInRange ==
    ASSUME NEW from \in 0 .. TimeMod - 1, NEW to \in 0 .. TimeMod - 1
    PROVE  Elapsed(from, to) \in 0 .. TimeMod - 1
  BY TimeAssumption DEF Elapsed

(* A number of microseconds stands for a natural number of counts *)
LEMMA CountsNat ==
    ASSUME NEW us \in Nat
    PROVE  Counts(us) \in Nat
<1>1. us * ClkMHz \in Nat /\ Div \in Nat \ {0}
  BY TimeAssumption
<1> QED
  BY <1>1, DivBounds DEF Counts
-----------------------------------------------------------------------------
(* The inductive invariant: the widths and the scale of the filter together.*)
(* Neither is inductive alone: that dutycycle fits its byte follows from    *)
(* the bound on runtotal, and the new runtotal is in range only because     *)
(* dutycycle is its quotient.                                               *)
FilterInv == SamplerTypeOK /\ FilterInRange

LEMMA InitFilterInv == SamplerInit => FilterInv
<1> SUFFICES ASSUME SamplerInit PROVE FilterInv
  OBVIOUS
<1>1. 0 \in 0 .. Full /\ 0 \in 0 .. TotalMod - 1 /\ 0 \div Rot = 0 /\ 0 <= Full * Rot
  BY FilterAssumption
<1>2. 0 \in Input /\ 0 \in 0 .. TimeMod - 1 /\ 0 \in 0 .. CounterMod - 1 /\ 0 \in 0 .. MaxIsr
  BY FilterAssumption, TimeAssumption DEF Input
<1>3. Us(now) \in 0 .. TimeMod - 1
  BY UsInRange DEF SamplerInit
<1> QED
  BY <1>1, <1>2, <1>3 DEF SamplerInit, FilterInv, SamplerTypeOK, FilterInRange

(* ComputeDuty moves every channel by one step of the smoothing. *)
LEMMA ComputeDutyStep ==
    ASSUME FilterInv, ComputeDuty
    PROVE  /\ scratch' \in [Input -> 0 .. Full]
           /\ runtotal' \in [Input -> 0 .. Full * Rot]
           /\ dutycycle' \in [Input -> 0 .. Full]
           /\ \A c \in Input :
                /\ dutycycle'[c] = runtotal'[c] \div Rot
                /\ Between(dutycycle'[c], dutycycle[c], scratch'[c])
<1> DEFINE maxcount == Counts(Elapsed(startus, t))
<1>1. maxcount \in Nat
  BY ElapsedInRange, CountsNat, TimeAssumption DEF FilterInv, SamplerTypeOK
<1>2. scratch' = [c \in Input |-> Sample(counter[c], maxcount)]
  BY DEF ComputeDuty
<1> HIDE DEF maxcount
<1>3. ASSUME NEW c \in Input
      PROVE  scratch'[c] \in 0 .. Full
  <2>1. counter[c] \in Nat
    BY TimeAssumption DEF FilterInv, SamplerTypeOK
  <2>2. maxcount \in Int
    BY <1>1
  <2>3. Sample(counter[c], maxcount) \in 0 .. Full
    BY ONLY <2>1, <2>2, SampleInRange
  <2> QED
    BY <1>2, <2>3
<1>4. /\ runtotal' = [c \in Input |-> NewTotal(scratch'[c], dutycycle[c], runtotal[c])]
      /\ dutycycle' = [c \in Input |-> NewDuty(runtotal'[c])]
  BY DEF ComputeDuty
<1>5. ASSUME NEW c \in Input
      PROVE  /\ runtotal'[c] \in 0 .. Full * Rot
             /\ dutycycle'[c] \in 0 .. Full
             /\ dutycycle'[c] = runtotal'[c] \div Rot
             /\ Between(dutycycle'[c], dutycycle[c], scratch'[c])
  <2>1. /\ runtotal[c] \in 0 .. Full * Rot /\ dutycycle[c] \in 0 .. Full
        /\ dutycycle[c] = runtotal[c] \div Rot
    BY FilterAssumption DEF FilterInv, SamplerTypeOK, FilterInRange
  <2>2. scratch'[c] \in 0 .. Full
    BY <1>3
  <2>3. /\ runtotal'[c] = NewTotal(scratch'[c], dutycycle[c], runtotal[c])
        /\ dutycycle'[c] = NewDuty(runtotal'[c])
    BY <1>4
  <2> QED
    BY <2>1, <2>2, <2>3, FilterStep
<1> QED
  BY <1>2, <1>3, <1>4, <1>5

LEMMA NextFilterInv == FilterInv /\ [SamplerNext]_sampler => FilterInv'
<1> SUFFICES ASSUME FilterInv, [SamplerNext]_sampler PROVE FilterInv'
  OBVIOUS
<1> USE DEF FilterInv, SamplerTypeOK, FilterInRange
<1>0. /\ Us(now) \in 0 .. TimeMod - 1 /\ 0 \in Input /\ 0 \in 0 .. MaxIsr
      /\ 0 \in 0 .. CounterMod - 1
  BY UsInRange, FilterAssumption, TimeAssumption DEF Input
<1>1. CASE ReadClock
  BY <1>0, <1>1 DEF ReadClock, hw
<1>2. CASE DisableSlice
  <2>1. slice' \in Input
    <3>1. (slice' = slice + 1 /\ slice + 1 < NumIn) \/ slice' = 0
      BY <1>2 DEF DisableSlice
    <3>2. slice \in Input
      OBVIOUS
    <3> QED
      BY ONLY <3>1, <3>2, FilterAssumption DEF Input
  <2>2. enabled' \in [Input -> BOOLEAN]
    BY <1>2 DEF DisableSlice
  <2> QED
    BY <1>2, <2>1, <2>2 DEF DisableSlice, state
<1>3. CASE ComputeDuty
  <2>1. runtotal' \in [Input -> 0 .. TotalMod - 1] /\ (\A c \in Input : runtotal'[c] <= Full * Rot)
    BY <1>3, ComputeDutyStep, FilterAssumption
  <2> QED
    BY <1>3, <2>1, ComputeDutyStep DEF ComputeDuty, hw
<1>4. CASE ResetCounters
  BY <1>0, <1>4 DEF ResetCounters, state
<1>5. CASE EnableSlice
  <2>1. slice' \in Input
    <3>1. (slice' = slice + 1 /\ slice + 1 < NumIn) \/ slice' = 0
      BY <1>5 DEF EnableSlice
    <3>2. slice \in Input
      OBVIOUS
    <3> QED
      BY ONLY <3>1, <3>2, FilterAssumption DEF Input
  <2>2. enabled' \in [Input -> BOOLEAN]
    BY <1>5 DEF EnableSlice
  <2> QED
    BY <1>5, <2>1, <2>2 DEF EnableSlice, state
<1>6. CASE StampStart
  BY <1>0, <1>6 DEF StampStart, hw
<1>7. CASE Return
  BY <1>0, <1>7 DEF Return, state, hw
<1>8. CASE Tick
  <2>1. now' \in 0 .. ClockTicks - 1
    <3>1. now + 1 \in Int /\ ClockTicks \in Nat \ {0}
      <4>1. TimeMod * ClkMHz \in Nat /\ Div \in Nat \ {0}
        BY TimeAssumption
      <4>2. ClockTicks \in Nat
        BY <4>1, DivBounds DEF ClockTicks
      <4> QED
        BY <4>2
    <3> QED
      BY <1>8, <3>1, ModBounds DEF Tick
  <2>2. counter' \in [Input -> 0 .. CounterMod - 1]
    <3>1. ASSUME NEW c \in Input
          PROVE (counter[c] + 1) % CounterMod \in 0 .. CounterMod - 1
      <4>1. counter[c] + 1 \in Int /\ CounterMod \in Nat \ {0}
        BY TimeAssumption
      <4> QED
        BY ONLY <4>1, ModBounds
    <3> QED
      BY <1>8, <3>1 DEF Tick
  <2>3. busy' \in 0 .. MaxIsr
    BY <1>8, TimeAssumption DEF Tick
  <2> QED
    BY <1>8, <2>1, <2>2, <2>3 DEF Tick, state
<1>9. ASSUME NEW c \in Input, Toggle(c) PROVE FilterInv'
  BY <1>9 DEF Toggle, state
<1>10. CASE UNCHANGED sampler
  BY <1>10 DEF sampler, state, hw
<1> QED
  BY <1>1, <1>2, <1>3, <1>4, <1>5, <1>6, <1>7, <1>8, <1>9, <1>10 DEF SamplerNext, Callback

THEOREM FilterCorrect == SamplerSpec => []FilterInv
<1> QED
  BY InitFilterInv, NextFilterInv, PTL DEF SamplerSpec

(* Every variable of the sampler keeps its width (struct pwmin,             *)
(* misterpico.c:123-133), for every clock and every number of channels.     *)
THEOREM SamplerTypeCorrect == SamplerSpec => []SamplerTypeOK
<1>1. FilterInv => SamplerTypeOK
  BY DEF FilterInv
<1> QED
  BY <1>1, FilterCorrect, PTL

(* The smoothing of misterpico.c:374-381 never wraps its accumulator and    *)
(* never leaves its scale, for every depth and every sequence of samples.   *)
THEOREM FilterStaysInRange == SamplerSpec => []FilterInRange
<1>1. FilterInv => FilterInRange
  BY DEF FilterInv
<1> QED
  BY <1>1, FilterCorrect, PTL

(* No update of dutycycle overshoots the sample it moves towards            *)
(* (misterpico.c:374-381, the two shortcuts included).                      *)
THEOREM FilterNeverOvershoots == SamplerSpec => NoOvershoot
<1>1. FilterInv /\ [SamplerNext]_sampler =>
        [\A c \in Input : isr = "compute" /\ isr' # isr
            => Between(dutycycle'[c], dutycycle[c], scratch'[c])]_sampler
  <2> SUFFICES ASSUME FilterInv, [SamplerNext]_sampler, isr = "compute", isr' # isr, NEW c \in Input
               PROVE  Between(dutycycle'[c], dutycycle[c], scratch'[c])
    OBVIOUS
  <2>1. ComputeDuty
    BY DEF SamplerNext, Callback, ReadClock, DisableSlice, ResetCounters, EnableSlice,
           StampStart, Return, Tick, Toggle, sampler, state
  <2> QED
    BY <2>1, ComputeDutyStep
<1> QED
  BY <1>1, FilterCorrect, PTL DEF SamplerSpec, NoOvershoot

-----------------------------------------------------------------------------
(* The loop *)
Last == SHAREDBUFLEN - 1
Buffer == {buf \in [Cells -> 0 .. Char] : buf[Last] = 0}

(* strlen stops at the first NUL *)
LEMMA StrLenStops ==
    ASSUME NEW buf \in Buffer
    PROVE  /\ StrLen(buf) \in Cells
           /\ buf[StrLen(buf)] = 0
           /\ \A n \in Nat : (\A j \in 0 .. n - 1 : j \in Cells /\ buf[j] # 0) => StrLen(buf) >= n
<1> DEFINE Nul == {n \in Cells : buf[n] = 0}
<1>1. Last \in Nul /\ Nul \subseteq Nat /\ Cells \subseteq Nat
  BY SizesAssumption DEF Buffer, Last, Cells
<1>2. PICK m \in Nul : \A y \in Nul : ~ (<<y, m>> \in OpToRel(<, Nat))
  <2> HIDE DEF Nul
  <2> QED
    BY <1>1, NatLessThanWellFounded, WFMin
<1>3. \A y \in Nul : ~ (y < m)
  BY <1>1, <1>2 DEF OpToRel
<1>4. m \in Cells /\ buf[m] = 0 /\ \A j \in 0 .. m - 1 : buf[j] # 0
  <2>1. m \in Cells /\ buf[m] = 0
    OBVIOUS
  <2>2. ASSUME NEW j \in 0 .. m - 1 PROVE buf[j] # 0
    <3>1. j \in Cells /\ j < m
      BY <2>1, SizesAssumption DEF Cells
    <3> QED
      BY <1>3, <3>1
  <2> QED
    BY <2>1, <2>2
<1>5. StrLen(buf) \in Cells /\ buf[StrLen(buf)] = 0
  BY <1>4 DEF StrLen
<1> QED
  BY <1>1, <1>5

(* What text appended to buf leaves alone: everything before its first NUL *)
KeepsPrefix(new, buf) ==
    \A n \in Nat, x \in Cells :
      (\A j \in 0 .. n - 1 : j \in Cells /\ buf[j] # 0) /\ x < n => new[x] = buf[x]

(* BPRINTF keeps the end of the buffer and what comes before the string's *)
(* end                                                                     *)
LEMMA AppendKeeps ==
    ASSUME NEW buf \in Buffer, NEW len \in Nat
    PROVE  AppendText(buf, len) \in Buffer /\ KeepsPrefix(AppendText(buf, len), buf)
<1> DEFINE s == StrLen(buf)
           e == IF s + len < SHAREDBUFLEN THEN s + len ELSE SHAREDBUFLEN - 1
           new == [j \in Cells |-> IF j < s THEN buf[j] ELSE IF j < e THEN Char
                                   ELSE IF j = e THEN 0 ELSE buf[j]]
<1>1. s \in Cells /\ s \in Nat /\ SHAREDBUFLEN \in Nat /\ Last \in Cells
  BY StrLenStops, SizesAssumption DEF Cells, Last
<1>2. AppendText(buf, len) = new
  BY DEF AppendText
<1>3. e \in Nat /\ e <= Last
  BY <1>1 DEF Cells, Last
<1>4. buf \in [Cells -> 0 .. Char] /\ buf[Last] = 0 /\ 0 \in 0 .. Char /\ Char \in 0 .. Char
  BY DEF Buffer, Char
<1>5. \A n \in Nat : (\A j \in 0 .. n - 1 : j \in Cells /\ buf[j] # 0) => s >= n
  BY StrLenStops
<1> HIDE DEF s, e
<1>6. new \in [Cells -> 0 .. Char]
  BY <1>4
<1>7. new[Last] = 0
  BY <1>1, <1>3, <1>4 DEF Last
<1>8. \A n \in Nat, x \in Cells :
        (\A j \in 0 .. n - 1 : j \in Cells /\ buf[j] # 0) /\ x < n => new[x] = buf[x]
  BY <1>1, <1>5 DEF Cells
<1> HIDE DEF new
<1> QED
  BY <1>2, <1>6, <1>7, <1>8 DEF Buffer, KeepsPrefix

(* Writing bytes keeps the end of the buffer *)
LEMMA WriteKeeps ==
    ASSUME NEW buf \in Buffer, NEW j \in Nat, j < Last, NEW v \in 0 .. Char
    PROVE  [buf EXCEPT ![j] = v] \in Buffer
  BY SizesAssumption DEF Buffer, Cells, Last

Started(buf, kind, count) == buf[0] = 14 /\ buf[1] = kind /\ buf[2] = count

LEMMA StartKeeps ==
    ASSUME NEW buf \in Buffer, NEW kind \in 1 .. 255, NEW count \in 0 .. 255
    PROVE  Start(buf, kind, count) \in Buffer /\ Started(Start(buf, kind, count), kind, count)
<1> DEFINE b1 == [buf EXCEPT ![0] = 14]
           b2 == [b1 EXCEPT ![1] = kind]
           b3 == [b2 EXCEPT ![2] = count]
<1>1. Last \in Nat /\ Last > 2 /\ {0, 1, 2} \subseteq Cells
  BY SizesAssumption DEF Last, Cells
<1>0. /\ 14 \in 0 .. Char /\ kind \in 0 .. Char /\ count \in 0 .. Char
      /\ 0 \in Nat /\ 1 \in Nat /\ 2 \in Nat /\ 0 < Last /\ 1 < Last /\ 2 < Last
  BY <1>1 DEF Char
<1>2. b1 \in Buffer
  BY <1>0, WriteKeeps, Zenon
<1>3. b2 \in Buffer
  <2> HIDE DEF b1
  <2> QED
    BY <1>0, <1>2, WriteKeeps, Zenon
<1>4. b3 \in Buffer
  <2> HIDE DEF b2
  <2> QED
    BY <1>0, <1>3, WriteKeeps, Zenon
<1>5. Start(buf, kind, count) = b3
  BY DEF Start
<1>6. b3[0] = 14 /\ b3[1] = kind /\ b3[2] = count
  BY <1>1 DEF Buffer
<1> QED
  BY <1>4, <1>5, <1>6 DEF Started

(* The widths *)
LEMMA Widths == Max12 \in Nat /\ Max16 \in Nat /\ Max12 = 4095 /\ Max16 = 65535
  BY DEF Max12, Max16

(* The bytes of a total *)
LEMMA TotalBytes ==
    ASSUME NEW tot \in 0 .. Max16
    PROVE  High(tot) \in 0 .. 15 /\ Low(tot) \in 0 .. 255
<1>1. tot \div 4096 \in 0 .. 15
  BY Widths
<1>2. (tot \div 16) % 256 \in 0 .. 255
  <2>1. \A u \in Nat : u % 256 \in 0 .. 255
    OBVIOUS
  <2>2. tot \div 16 \in Nat
    BY Widths
  <2> QED
    BY <2>1, <2>2
<1> QED
  BY <1>1, <1>2 DEF High, Low

-----------------------------------------------------------------------------
(* The inductive invariant.  The history counts with the counters (Phase,   *)
(* Sums), so that neither wraps; the datagram built so far is intact, or    *)
(* damaged after a NUL of its own (Built).                                  *)
InDatagram == pc \in {"adcitem", "adcsend"}
Taken == IF InDatagram THEN Samples ELSE adccount

AtPlaces ==
    /\ pwmoutcount < PwmTicks \/ pc \in {"pwm", "pwmsend"}
    /\ pc = "adchead" => adccount = Samples
    /\ pc # "adchead" => adccount < Samples
    /\ InDatagram => adccount = 0
    /\ pc = "adchead" \/ InDatagram => adcoutcount = 0
    /\ pc = "adcitem" => i < Channels
    /\ pc = "adcsend" => i = Channels
    /\ ourms < Conversion + OneWireTicks

Phase == since = AdcTicks * Taken + adcoutcount + (IF pc \in {"pwm", "pwmsend", "adc"} THEN 1 ELSE 0)

Sums == \A x \in Channel : sum[x] <= Max12 * Taken

Damaged(n) == texted /\ \E y \in 0 .. n - 1 : High(sum[y]) = 0 \/ Low(sum[y]) = 0
Holds(buf, x) == buf[2 * x + 3] = High(sum[x]) /\ buf[2 * x + 4] = Low(sum[x])
Built == InDatagram =>
    /\ sharedbuf[0] = 14 /\ sharedbuf[1] = 86 /\ sharedbuf[2] = Channels
    /\ (\A x \in 0 .. i - 1 : Holds(sharedbuf, x)) \/ Damaged(i)

LoopInv == TypeOK /\ sharedbuf \in Buffer /\ AtPlaces /\ Phase /\ Sums /\ AdcTotals /\ Built

LEMMA InitLoopInv == Init => LoopInv
<1> SUFFICES ASSUME Init PROVE LoopInv
  OBVIOUS
<1>1. sharedbuf \in Buffer
  BY SizesAssumption DEF Init, Buffer, Last, Cells, Char
<1>2. TypeOK
  <2>1. sharedbuf \in [Cells -> 0 .. Char]
    BY <1>1 DEF Buffer
  <2>2. adctot \in [Channel -> 0 .. Max16] /\ sum \in [Channel -> Nat]
    BY Widths DEF Init
  <2>3. text_debug \in BOOLEAN /\ texted \in BOOLEAN
    BY DEF Init
  <2>4. pc \in Places
    BY DEF Init, Places
  <2>5. /\ due \in 0 .. MaxDue /\ pwmoutcount \in 0 .. PwmTicks /\ adcoutcount \in 0 .. AdcTicks - 1
        /\ onewireoutcount \in 0 .. OneWireTicks - 1 /\ adccount \in 0 .. Samples /\ i \in 0 .. Channels
        /\ ourms \in 0 .. Max16 /\ debugs \in 0 .. MaxDebug /\ since \in Nat
    BY SizesAssumption, TicksAssumption, Widths DEF Init
  <2> QED
    BY <2>1, <2>2, <2>3, <2>4, <2>5 DEF TypeOK
<1>3. AtPlaces /\ Phase
  BY TicksAssumption DEF Init, AtPlaces, Phase, Taken, InDatagram
<1>4. Sums /\ AdcTotals /\ Built
  <2>1. Taken = 0 /\ ~InDatagram /\ sum = [x \in Channel |-> 0] /\ adctot = sum /\ pc = "loop"
    BY DEF Init, Taken, InDatagram
  <2> QED
    BY <2>1, Widths DEF Sums, AdcTotals, Sent, Built
<1> QED
  BY <1>1, <1>2, <1>3, <1>4 DEF LoopInv

(* The steps that leave the ADC's totals and the datagram alone: Phase and  *)
(* AtPlaces are all there is to check.                                      *)
LEMMA OutsideAdc ==
    ASSUME LoopInv, TypeOK', sharedbuf' \in Buffer, AtPlaces', Phase',
           UNCHANGED <<adc, sum>>, ~InDatagram, ~InDatagram'
    PROVE  LoopInv'
<1>1. Taken' = Taken
  BY DEF Taken, adc
<1>2. Sums'
  BY <1>1 DEF LoopInv, Sums
<1>3. AdcTotals'
  BY DEF LoopInv, AdcTotals, Sent, InDatagram, adc
<1>4. Built'
  BY DEF Built
<1> QED
  BY <1>2, <1>3, <1>4 DEF LoopInv

(* Core 0 and the clock touch no more than text_debug and due *)
LEMMA EnvironmentLoopInv ==
    ASSUME LoopInv, Clock \/ Debug \/ UNCHANGED vars
    PROVE  LoopInv'
<1>1. /\ UNCHANGED <<pc, pwmoutcount, adcoutcount, onewireoutcount, adccount, adctot, i>>
      /\ UNCHANGED <<ourms, sharedbuf, sum, since, texted>>
  BY DEF Clock, Debug, vars, counts, adc, history
<1>2. due' \in 0 .. MaxDue /\ debugs' \in 0 .. MaxDebug
  BY TicksAssumption DEF LoopInv, TypeOK, Clock, Debug, vars, flag
<1>3. text_debug' \in BOOLEAN
  BY Zenon DEF LoopInv, TypeOK, Clock, Debug, vars, flag
<1>4. TypeOK'
  BY <1>1, <1>2, <1>3 DEF LoopInv, TypeOK
<1>5. AtPlaces' /\ Phase' /\ Sums' /\ sharedbuf' \in Buffer
  BY <1>1 DEF LoopInv, AtPlaces, Phase, Sums, Taken, InDatagram
<1>6. AdcTotals' /\ Built'
  BY <1>1 DEF LoopInv, AdcTotals, Sent, Built, InDatagram, Damaged, Holds
<1> QED
  BY <1>4, <1>5, <1>6 DEF LoopInv

LEMMA WakeLoopInv ==
    ASSUME LoopInv, Wake
    PROVE  LoopInv'
<1>1. /\ pc = "loop" /\ due > 0 /\ due' = due - 1 /\ pwmoutcount' = pwmoutcount + 1
      /\ pc' = (IF pwmoutcount' >= PwmTicks THEN "pwm" ELSE "adc") /\ since' = since + 1
      /\ UNCHANGED <<adcoutcount, onewireoutcount, adccount, adctot, i>>
      /\ UNCHANGED <<ourms, sharedbuf, text_debug, debugs, sum, texted>>
  BY DEF Wake, adc, flag
<1>2. TypeOK /\ AtPlaces /\ Phase /\ sharedbuf \in Buffer /\ Taken \in Nat /\ ~InDatagram /\ ~InDatagram'
      /\ Taken' = Taken
  BY <1>1, TicksAssumption DEF LoopInv, TypeOK, Taken, InDatagram
<1>3. due' \in 0 .. MaxDue /\ pwmoutcount' \in 0 .. PwmTicks /\ since' \in Nat /\ pc' \in Places
  BY <1>1, <1>2, TicksAssumption DEF TypeOK, AtPlaces, Places
<1>4. TypeOK'
  BY <1>1, <1>2, <1>3 DEF TypeOK
<1>5. AtPlaces'
  BY <1>1, <1>2, TicksAssumption DEF AtPlaces, InDatagram, TypeOK
<1>6. Phase'
  <2> DEFINE p == AdcTicks * Taken
  <2>1. p \in Nat /\ since = p + adcoutcount /\ adcoutcount \in Nat
    BY <1>1, <1>2, TicksAssumption DEF Phase, TypeOK
  <2>2. p' = p
    BY <1>2
  <2> HIDE DEF p
  <2>3. since' = p + adcoutcount' + 1
    BY <1>1, <2>1
  <2> QED
    BY <1>1, <2>2, <2>3 DEF Phase, p
<1> QED
  BY <1>1, <1>2, <1>4, <1>5, <1>6, OutsideAdc DEF adc

LEMMA PwmLoopInv ==
    ASSUME LoopInv, PwmPrint \/ PwmSend
    PROVE  LoopInv'
<1>1. /\ pc \in {"pwm", "pwmsend"} /\ pc' \in {"pwmsend", "adc"}
      /\ pc' = "pwmsend" => pwmoutcount' = pwmoutcount
      /\ pc' = "adc" => pwmoutcount' = 0
      /\ UNCHANGED <<due, adcoutcount, onewireoutcount, adccount, adctot, i>>
      /\ UNCHANGED <<ourms, text_debug, debugs, sum, since, texted>>
  BY DEF PwmPrint, PwmSend, counts, adc, flag, history
<1>2. TypeOK /\ AtPlaces /\ Phase /\ sharedbuf \in Buffer /\ ~InDatagram /\ ~InDatagram'
      /\ Taken' = Taken
  BY <1>1 DEF LoopInv, Taken, InDatagram
<1>3. sharedbuf' \in Buffer
  <2>1. CASE PwmPrint
    <3>1. [sharedbuf EXCEPT ![0] = 0] \in Buffer
      <4>1. 0 \in Nat /\ 0 < Last /\ 0 \in 0 .. Char
        BY SizesAssumption DEF Last, Char
      <4> QED
        BY <1>2, <4>1, WriteKeeps, Zenon
    <3>2. \A len \in PwmText : len \in Nat
      BY SizesAssumption
    <3>3. \A len \in PwmText : AppendText(Prep(sharedbuf), len) \in Buffer
      BY <3>1, <3>2, AppendKeeps, Zenon DEF Prep
    <3> QED
      BY <1>2, <2>1, <3>3, Zenon DEF PwmPrint
  <2>2. CASE PwmSend
    <3>1. PICK d \in [0 .. Pwms - 1 -> Duties] :
            sharedbuf' = [j \in Cells |-> IF j \in 3 .. Pwms + 2 THEN d[j - 3]
                                          ELSE Start(sharedbuf, 80, Pwms)[j]]
      BY <2>2 DEF PwmSend
    <3>2. Start(sharedbuf, 80, Pwms) \in Buffer
      <4>1. 80 \in 1 .. 255 /\ Pwms \in 0 .. 255
        BY SizesAssumption
      <4> QED
        BY <1>2, <4>1, StartKeeps, Zenon
    <3>3. \A x \in 0 .. Pwms - 1 : d[x] \in 0 .. Char
      <4>1. Duties \subseteq 0 .. 255
        BY InputsAssumption, Zenon
      <4>2. \A v \in 0 .. 255 : v \in 0 .. Char
        BY DEF Char
      <4>3. \A x \in 0 .. Pwms - 1 : d[x] \in Duties
        BY <3>1, Zenon
      <4> QED
        BY <4>1, <4>2, <4>3, Zenon
    <3>4. \A j \in Cells : (IF j \in 3 .. Pwms + 2 THEN d[j - 3] ELSE Start(sharedbuf, 80, Pwms)[j])
                           \in 0 .. Char
      <4> SUFFICES ASSUME NEW j \in Cells
                   PROVE  (IF j \in 3 .. Pwms + 2 THEN d[j - 3] ELSE Start(sharedbuf, 80, Pwms)[j])
                          \in 0 .. Char
        OBVIOUS
      <4>1. CASE j \in 3 .. Pwms + 2
        <5>1. j - 3 \in 0 .. Pwms - 1
          BY <4>1, SizesAssumption
        <5> QED
          BY <3>3, <4>1, <5>1
      <4>2. CASE ~(j \in 3 .. Pwms + 2)
        BY <3>2, <4>2 DEF Buffer
      <4> QED
        BY <4>1, <4>2
    <3>5. Last \in Cells /\ ~(Last \in 3 .. Pwms + 2)
      BY SizesAssumption DEF Last, Cells
    <3>6. sharedbuf'[Last] = 0
      BY <3>1, <3>2, <3>5 DEF Buffer
    <3> QED
      BY <3>1, <3>4, <3>6 DEF Buffer
  <2> QED
    BY <2>1, <2>2
<1>4. TypeOK'
  <2>1. sharedbuf' \in [Cells -> 0 .. Char]
    BY <1>3 DEF Buffer
  <2>2. pwmoutcount' \in 0 .. PwmTicks /\ pc' \in Places
    BY <1>1, <1>2, TicksAssumption DEF TypeOK, Places
  <2> QED
    BY <1>1, <1>2, <2>1, <2>2 DEF TypeOK
<1>5. AtPlaces'
  BY <1>1, <1>2, TicksAssumption DEF AtPlaces, InDatagram
<1>6. Phase'
  BY <1>1, <1>2 DEF Phase
<1> QED
  BY <1>1, <1>2, <1>3, <1>4, <1>5, <1>6, OutsideAdc DEF adc

LEMMA OneWireLoopInv ==
    ASSUME LoopInv, OneWire
    PROVE  LoopInv'
<1>1. /\ pc = "onewire" /\ pc' = "loop"
      /\ UNCHANGED <<due, pwmoutcount, adcoutcount, adccount, adctot, i>>
      /\ UNCHANGED <<sharedbuf, text_debug, debugs, sum, since, texted>>
  BY DEF OneWire, adc, flag, history
<1>2. TypeOK /\ AtPlaces /\ Phase /\ sharedbuf \in Buffer /\ ~InDatagram /\ ~InDatagram'
      /\ Taken' = Taken
  BY <1>1 DEF LoopInv, Taken, InDatagram
<1>3. ourms' < Conversion + OneWireTicks /\ ourms' \in 0 .. Max16
      /\ onewireoutcount' \in 0 .. OneWireTicks - 1
  <2> DEFINE top == Max16
  <2>1. /\ onewireoutcount \in 0 .. OneWireTicks - 1 /\ OneWireTicks \in Nat \ {0}
        /\ ourms \in 0 .. top /\ ourms < Conversion + OneWireTicks
        /\ Conversion \in Nat /\ Conversion + OneWireTicks <= top /\ top \in Nat
    <3>1. onewireoutcount \in 0 .. OneWireTicks - 1 /\ ourms \in 0 .. top
      BY <1>2 DEF TypeOK
    <3>2. ourms < Conversion + OneWireTicks
      BY <1>2 DEF AtPlaces
    <3>3. Conversion \in Nat /\ Conversion + OneWireTicks <= top /\ OneWireTicks \in Nat \ {0}
      BY TicksAssumption
    <3>4. top \in Nat
      BY Widths
    <3> QED
      BY <3>1, <3>2, <3>3, <3>4
  <2> HIDE DEF top
  <2>2. CASE onewireoutcount + 1 >= OneWireTicks
    <3>1. onewireoutcount' = 0 /\ ourms' = IF ourms >= Conversion THEN 0 ELSE ourms + OneWireTicks
      BY <2>2 DEF OneWire
    <3> QED
      BY <2>1, <3>1 DEF top
  <2>3. CASE ~(onewireoutcount + 1 >= OneWireTicks)
    <3>1. onewireoutcount' = onewireoutcount + 1 /\ ourms' = ourms
      BY <2>3 DEF OneWire
    <3> QED
      BY <2>1, <2>3, <3>1 DEF top
  <2> QED
    BY <2>2, <2>3
<1>4. TypeOK'
  <2>1. pc' \in Places
    BY <1>1 DEF Places
  <2> QED
    BY <1>1, <1>2, <1>3, <2>1 DEF TypeOK
<1>5. AtPlaces'
  BY <1>1, <1>2, <1>3 DEF AtPlaces, InDatagram
<1>6. Phase'
  BY <1>1, <1>2 DEF Phase
<1> QED
  BY <1>1, <1>2, <1>4, <1>5, <1>6, OutsideAdc DEF adc

LEMMA AdcSkipLoopInv ==
    ASSUME LoopInv, AdcSkip
    PROVE  LoopInv'
<1>1. /\ pc = "adc" /\ pc' = "onewire"
      /\ adcoutcount + 1 < AdcTicks /\ adcoutcount' = adcoutcount + 1
      /\ UNCHANGED <<due, pwmoutcount, onewireoutcount, adccount, adctot, i>>
      /\ UNCHANGED <<ourms, sharedbuf, text_debug, debugs, sum, since, texted>>
  BY DEF AdcSkip, adc, flag, history
<1>2. TypeOK /\ AtPlaces /\ Phase /\ sharedbuf \in Buffer /\ ~InDatagram /\ ~InDatagram'
      /\ Taken' = Taken
  BY <1>1 DEF LoopInv, Taken, InDatagram
<1>3. adcoutcount \in Nat /\ adcoutcount' \in 0 .. AdcTicks - 1 /\ pc' \in Places
  BY <1>1, <1>2, TicksAssumption DEF TypeOK, Places
<1>4. TypeOK'
  BY <1>1, <1>2, <1>3 DEF TypeOK
<1>5. AtPlaces'
  BY <1>1, <1>2 DEF AtPlaces, InDatagram
<1>6. Phase'
  <2> DEFINE p == AdcTicks * Taken
  <2>1. since = p + adcoutcount + 1 /\ p' = p
    BY <1>1, <1>2 DEF Phase
  <2>2. p \in Nat
    BY <1>2, TicksAssumption DEF Taken, InDatagram, TypeOK
  <2> HIDE DEF p
  <2>3. since' = p' + adcoutcount' + 0
    BY <1>1, <1>3, <2>1, <2>2
  <2> QED
    BY <1>1, <2>3 DEF Phase, p
<1> QED
  BY <1>1, <1>2, <1>4, <1>5, <1>6, OutsideAdc DEF adc

(* Sixteen readings of twelve bits fit sixteen *)
LEMMA ReadingsFit ==
    ASSUME NEW n \in 0 .. 15, NEW u \in Nat, u <= Max12 * n, NEW v \in 0 .. Max12
    PROVE  /\ u + v <= Max12 * (n + 1)
           /\ u + v \in 0 .. Max16
           /\ (u + v) % (Max16 + 1) = u + v
<1>1. u + v <= Max12 * (n + 1)
  BY Widths
<1>2. u + v <= Max16
  BY Widths
<1>3. Max12 \in Nat /\ v \in Nat /\ u + v \in Nat
  BY Widths
<1>4. \A a \in Nat, m \in Nat : a <= m => a % (m + 1) = a
  OBVIOUS
<1>5. Max16 \in Nat
  BY Widths
<1>6. (u + v) % (Max16 + 1) = u + v
  BY <1>2, <1>3, <1>4, <1>5
<1>7. u + v \in 0 .. Max16
  BY <1>2, <1>3, <1>5
<1> QED
  BY <1>1, <1>6, <1>7

LEMMA AdcSampleLoopInv ==
    ASSUME LoopInv, AdcSample
    PROVE  LoopInv'
<1>1. PICK r \in [Channel -> UNION {Readings[x] : x \in Channel}] :
         /\ \A x \in Channel : r[x] \in Readings[x]
         /\ adctot' = [x \in Channel |-> (adctot[x] + r[x]) % (Max16 + 1)]
         /\ sum' = [x \in Channel |-> sum[x] + r[x]]
  BY DEF AdcSample
<1>2. /\ pc = "adc" /\ adcoutcount + 1 >= AdcTicks /\ adccount' = adccount + 1
      /\ adcoutcount' = 0 /\ pc' = (IF adccount' >= Samples THEN "adchead" ELSE "onewire")
      /\ UNCHANGED <<due, pwmoutcount, onewireoutcount, i, ourms, sharedbuf>>
      /\ UNCHANGED <<text_debug, debugs, since, texted>>
  BY DEF AdcSample, flag
<1>3. TypeOK /\ AtPlaces /\ Phase /\ Sums /\ AdcTotals /\ sharedbuf \in Buffer /\ ~InDatagram /\ ~InDatagram'
      /\ Taken = adccount /\ Taken' = adccount'
  BY <1>2 DEF LoopInv, Taken, InDatagram
<1>4. adccount \in 0 .. 15 /\ adccount < Samples /\ adccount' \in 0 .. Samples
  BY <1>2, <1>3, TicksAssumption DEF TypeOK, AtPlaces
<1>5. ASSUME NEW x \in Channel
      PROVE  /\ adctot'[x] = sum'[x] /\ sum'[x] \in Nat /\ adctot'[x] \in 0 .. Max16
             /\ sum'[x] <= Max12 * adccount'
  <2>1. r[x] \in 0 .. Max12
    BY <1>1, InputsAssumption
  <2>2. sum[x] \in Nat /\ sum[x] <= Max12 * adccount /\ adctot[x] = sum[x]
    BY <1>2, <1>3 DEF Sums, AdcTotals, Sent, TypeOK
  <2>3. adctot'[x] = (sum[x] + r[x]) % (Max16 + 1) /\ sum'[x] = sum[x] + r[x]
    BY <1>1, <2>2
  <2>4. /\ sum[x] + r[x] <= Max12 * (adccount + 1) /\ sum[x] + r[x] \in 0 .. Max16
        /\ (sum[x] + r[x]) % (Max16 + 1) = sum[x] + r[x]
    BY <1>4, <2>1, <2>2, ReadingsFit
  <2>5. sum[x] + r[x] \in Nat
    <3>1. \A n : \A v \in 0 .. n : v \in Nat
      OBVIOUS
    <3>2. r[x] \in Nat
      BY <2>1, <3>1
    <3> QED
      BY <2>2, <3>2
  <2> QED
    BY <1>2, <2>3, <2>4, <2>5
<1>6. adctot' \in [Channel -> 0 .. Max16] /\ sum' \in [Channel -> Nat]
  <2> DEFINE range == 0 .. Max16
  <2>1. adctot' = [x \in Channel |-> adctot'[x]] /\ sum' = [x \in Channel |-> sum'[x]]
    BY <1>1
  <2>2. \A x \in Channel : adctot'[x] \in range /\ sum'[x] \in Nat
    BY <1>5
  <2> HIDE DEF range
  <2>3. adctot' \in [Channel -> range] /\ sum' \in [Channel -> Nat]
    BY <2>1, <2>2
  <2> QED
    BY <2>3 DEF range
<1>7. TypeOK'
  <2>1. adcoutcount' \in 0 .. AdcTicks - 1 /\ pc' \in Places
    BY <1>2, TicksAssumption DEF Places
  <2> QED
    BY <1>2, <1>3, <1>4, <1>6, <2>1 DEF TypeOK
<1>8. AtPlaces'
  BY <1>2, <1>3, <1>4, TicksAssumption DEF AtPlaces, InDatagram
<1>9. Phase'
  <2>1. adcoutcount = AdcTicks - 1 /\ AdcTicks \in Nat /\ adccount \in Nat
    BY <1>2, <1>3, <1>4, TicksAssumption DEF TypeOK
  <2>2. since = AdcTicks * adccount + adcoutcount + 1
    BY <1>2, <1>3 DEF Phase
  <2>3. AdcTicks * (adccount + 1) = AdcTicks * adccount + AdcTicks
    BY <2>1
  <2>4. since' = AdcTicks * adccount' + 0 + 0
    BY <1>2, <2>1, <2>2, <2>3
  <2> QED
    BY <1>2, <1>3, <2>4 DEF Phase
<1>10. Sums' /\ AdcTotals' /\ Built'
  BY <1>2, <1>3, <1>5 DEF Sums, AdcTotals, Sent, Built, InDatagram
<1> QED
  BY <1>2, <1>3, <1>7, <1>8, <1>9, <1>10 DEF LoopInv

LEMMA AdcHeadLoopInv ==
    ASSUME LoopInv, AdcHead
    PROVE  LoopInv'
<1>1. /\ pc = "adchead" /\ pc' = "adcitem" /\ adccount' = 0 /\ i' = 0 /\ texted' = text_debug
      /\ sharedbuf' = Start(IF text_debug THEN AppendText(Prep(sharedbuf), 5) ELSE sharedbuf, 86, Channels)
      /\ UNCHANGED <<due, pwmoutcount, adcoutcount, onewireoutcount, adctot>>
      /\ UNCHANGED <<ourms, text_debug, debugs, sum, since>>
  BY DEF AdcHead, counts, flag
<1>2. TypeOK /\ AtPlaces /\ Phase /\ Sums /\ AdcTotals /\ sharedbuf \in Buffer
      /\ Taken = adccount /\ adccount = Samples /\ Taken' = Samples /\ InDatagram'
  BY <1>1 DEF LoopInv, AtPlaces, Taken, InDatagram
<1>3. /\ sharedbuf' \in Buffer
      /\ sharedbuf'[0] = 14 /\ sharedbuf'[1] = 86 /\ sharedbuf'[2] = Channels
  <2> DEFINE buf == IF text_debug THEN AppendText(Prep(sharedbuf), 5) ELSE sharedbuf
  <2>1. Prep(sharedbuf) \in Buffer
    <3>1. 0 \in Nat /\ 0 < Last /\ 0 \in 0 .. Char
      BY SizesAssumption DEF Last, Char
    <3> QED
      BY <1>2, <3>1, WriteKeeps, Zenon DEF Prep
  <2>2. AppendText(Prep(sharedbuf), 5) \in Buffer
    <3>1. 5 \in Nat
      OBVIOUS
    <3> QED
      BY <2>1, <3>1, AppendKeeps, Zenon
  <2>3. buf \in Buffer
    BY <1>2, <2>2
  <2>4. sharedbuf' = Start(buf, 86, Channels)
    BY <1>1
  <2>5. 86 \in 1 .. 255 /\ Channels \in 0 .. 255
    BY SizesAssumption
  <2> HIDE DEF buf
  <2>6. Start(buf, 86, Channels) \in Buffer /\ Started(Start(buf, 86, Channels), 86, Channels)
    BY <2>3, <2>5, StartKeeps, Zenon
  <2> QED
    BY <2>4, <2>6 DEF Started
<1>4. TypeOK'
  <2>1. sharedbuf' \in [Cells -> 0 .. Char] /\ texted' \in BOOLEAN
    BY <1>1, <1>2, <1>3, Zenon DEF Buffer, TypeOK
  <2>2. adccount' \in 0 .. Samples /\ i' \in 0 .. Channels /\ pc' \in Places
    BY <1>1, SizesAssumption, TicksAssumption DEF Places
  <2> QED
    BY <1>1, <1>2, <2>1, <2>2 DEF TypeOK
<1>5. AtPlaces'
  BY <1>1, <1>2, SizesAssumption, TicksAssumption DEF AtPlaces, InDatagram
<1>6. Phase' /\ Sums'
  BY <1>1, <1>2 DEF Phase, Sums
<1>7. AdcTotals'
  BY <1>1, <1>2 DEF AdcTotals, Sent, Channel
<1>8. Built'
  BY <1>1, <1>3 DEF Built
<1> QED
  BY <1>3, <1>4, <1>5, <1>6, <1>7, <1>8 DEF LoopInv

(* What comes before the channel at hand stays as it is, unless a NUL there *)
(* made the text start inside it                                            *)
LEMMA TextKeeps ==
    ASSUME LoopInv, pc \in {"adcitem", "adcsend"}, NEW len \in Nat,
           NEW buf, buf = IF text_debug THEN AppendText(sharedbuf, len) ELSE sharedbuf
    PROVE  /\ buf \in Buffer
           /\ buf[0] = 14 /\ buf[1] = 86 /\ buf[2] = Channels
           /\ \/ \A x \in 0 .. i - 1 : Holds(buf, x)
              \/ /\ texted \/ text_debug
                 /\ \E y \in 0 .. i - 1 : High(sum[y]) = 0 \/ Low(sum[y]) = 0
<1>1. /\ sharedbuf \in Buffer /\ i \in 0 .. Channels
      /\ sharedbuf[0] = 14 /\ sharedbuf[1] = 86 /\ sharedbuf[2] = Channels
      /\ (\A x \in 0 .. i - 1 : Holds(sharedbuf, x)) \/ Damaged(i)
  BY DEF LoopInv, TypeOK, Built, InDatagram
<1>2. SHAREDBUFLEN \in Nat /\ Channels \in Nat /\ SHAREDBUFLEN > 3 + 2 * Channels /\ Channels # 0
  BY SizesAssumption
<1>3. CASE ~text_debug
  BY <1>1, <1>3 DEF Damaged
<1>4. CASE text_debug
  <2>1. /\ AppendText(sharedbuf, len) \in Buffer
        /\ \A n \in Nat, x \in Cells :
             (\A j \in 0 .. n - 1 : j \in Cells /\ sharedbuf[j] # 0) /\ x < n => buf[x] = sharedbuf[x]
    <3>1. buf = AppendText(sharedbuf, len)
      BY <1>4
    <3>2. AppendText(sharedbuf, len) \in Buffer /\ KeepsPrefix(AppendText(sharedbuf, len), sharedbuf)
      BY <1>1, AppendKeeps, Zenon
    <3> QED
      BY <3>1, <3>2 DEF KeepsPrefix
  <2>2. buf \in Buffer
    BY <1>4, <2>1
  <2>3. buf[0] = 14 /\ buf[1] = 86 /\ buf[2] = Channels
    <3>1. \A j \in 0 .. 3 - 1 : j \in Cells /\ sharedbuf[j] # 0
      BY <1>1, <1>2 DEF Cells
    <3>2. \A x \in Cells : x < 3 => buf[x] = sharedbuf[x]
      BY <2>1, <3>1
    <3> QED
      BY <1>1, <1>2, <3>2 DEF Cells
  <2>4. CASE Damaged(i)
    BY <1>4, <2>2, <2>3, <2>4 DEF Damaged
  <2>5. CASE \E y \in 0 .. i - 1 : High(sum[y]) = 0 \/ Low(sum[y]) = 0
    BY <1>4, <2>2, <2>3, <2>5
  <2>6. CASE /\ \A x \in 0 .. i - 1 : Holds(sharedbuf, x)
             /\ ~ \E y \in 0 .. i - 1 : High(sum[y]) = 0 \/ Low(sum[y]) = 0
    <3> DEFINE n == 2 * i + 3
    <3>1. n \in Nat /\ n < SHAREDBUFLEN
      BY <1>1, <1>2
    <3>2. ASSUME NEW j \in 0 .. n - 1 PROVE j \in Cells /\ sharedbuf[j] # 0
      <4>1. j \in Cells
        BY <1>1, <1>2, <3>1 DEF Cells
      <4>2. CASE j \in {0, 1, 2}
        BY <1>1, <1>2, <4>1, <4>2
      <4>3. CASE j \notin {0, 1, 2}
        <5>1. PICK x \in 0 .. i - 1 : j = 2 * x + 3 \/ j = 2 * x + 4
          <6>1. (j - 3) \div 2 \in 0 .. i - 1
            BY <1>1, <4>3
          <6>2. j = 2 * ((j - 3) \div 2) + 3 \/ j = 2 * ((j - 3) \div 2) + 4
            BY <1>1, <4>3
          <6> QED
            BY <6>1, <6>2
        <5>2. Holds(sharedbuf, x) /\ High(sum[x]) # 0 /\ Low(sum[x]) # 0
          BY <2>6
        <5> QED
          BY <4>1, <5>1, <5>2 DEF Holds
      <4> QED
        BY <4>1, <4>2, <4>3
    <3>3. \A x \in Cells : x < n => buf[x] = sharedbuf[x]
      <4> HIDE DEF n
      <4> QED
        BY <2>1, <3>1, <3>2
    <3>4. ASSUME NEW x \in 0 .. i - 1 PROVE Holds(buf, x)
      <4>1. 2 * x + 3 \in Cells /\ 2 * x + 4 \in Cells /\ 2 * x + 3 < n /\ 2 * x + 4 < n
        BY <1>1, <1>2 DEF Cells
      <4>2. buf[2 * x + 3] = sharedbuf[2 * x + 3] /\ buf[2 * x + 4] = sharedbuf[2 * x + 4]
        BY <3>3, <4>1
      <4> QED
        BY <2>6, <4>2 DEF Holds
    <3> QED
      BY <2>2, <2>3, <3>4
  <2> QED
    BY <1>1, <2>4, <2>5, <2>6
<1> QED
  BY <1>3, <1>4

LEMMA AdcItemLoopInv ==
    ASSUME LoopInv, AdcItem
    PROVE  LoopInv'
<1> DEFINE buf == IF text_debug THEN AppendText(sharedbuf, 9) ELSE sharedbuf
           mid == [buf EXCEPT ![2 * i + 3] = High(adctot[i])]
<1>1. /\ pc = "adcitem" /\ i' = i + 1 /\ pc' = (IF i' = Channels THEN "adcsend" ELSE "adcitem")
      /\ sharedbuf' = [mid EXCEPT ![2 * i + 4] = Low(adctot[i])]
      /\ adctot' = [adctot EXCEPT ![i] = 0]
      /\ texted' = (texted \/ text_debug)
      /\ UNCHANGED <<due, pwmoutcount, adcoutcount, onewireoutcount, adccount>>
      /\ UNCHANGED <<ourms, text_debug, debugs, sum, since>>
  BY DEF AdcItem, counts, flag
<1>2. /\ TypeOK /\ AtPlaces /\ Phase /\ Sums /\ AdcTotals
      /\ Taken' = Taken /\ InDatagram /\ InDatagram'
  BY <1>1 DEF LoopInv, Taken, InDatagram
<1>3. /\ i \in 0 .. Channels - 1 /\ i \in Channel /\ Channels \in Nat /\ SHAREDBUFLEN \in Nat
      /\ SHAREDBUFLEN > 3 + 2 * Channels
  BY <1>1, <1>2, SizesAssumption DEF TypeOK, AtPlaces, Channel
<1>4. /\ buf \in Buffer
      /\ buf[0] = 14 /\ buf[1] = 86 /\ buf[2] = Channels
      /\ \/ \A x \in 0 .. i - 1 : Holds(buf, x)
         \/ /\ texted \/ text_debug
            /\ \E y \in 0 .. i - 1 : High(sum[y]) = 0 \/ Low(sum[y]) = 0
  <2>1. pc \in {"adcitem", "adcsend"} /\ 9 \in Nat
    BY <1>1
  <2>2. \E b : b = buf
    OBVIOUS
  <2> QED
    BY <2>1, TextKeeps
<1>5. adctot[i] = sum[i] /\ adctot[i] \in 0 .. Max16
  BY <1>1, <1>2, <1>3 DEF AdcTotals, Sent, TypeOK
<1>6. High(sum[i]) \in 0 .. 15 /\ Low(sum[i]) \in 0 .. 255
  BY <1>5, TotalBytes
<1>7. /\ sharedbuf' \in Buffer
      /\ \A x \in Cells : x # 2 * i + 3 /\ x # 2 * i + 4 => sharedbuf'[x] = buf[x]
      /\ sharedbuf'[2 * i + 3] = High(sum[i]) /\ sharedbuf'[2 * i + 4] = Low(sum[i])
  <2> DEFINE h == High(sum[i])
             l == Low(sum[i])
             a == 2 * i + 3
             b == 2 * i + 4
             last == [mid EXCEPT ![b] = l]
  <2>1. h \in 0 .. Char /\ l \in 0 .. Char
    BY <1>6 DEF Char
  <2>2. /\ a \in Nat /\ b \in Nat /\ a < Last /\ b < Last /\ a # b
        /\ a \in Cells /\ b \in Cells
    BY <1>3 DEF Cells, Last
  <2>3. sharedbuf' = [[buf EXCEPT ![a] = h] EXCEPT ![b] = l]
    BY <1>1, <1>5
  <2> HIDE DEF buf, mid, h, l, a, b, last
  <2>4. [buf EXCEPT ![a] = h] \in Buffer
    BY <1>4, <2>1, <2>2, WriteKeeps, Zenon
  <2>5. [[buf EXCEPT ![a] = h] EXCEPT ![b] = l] \in Buffer
    BY <2>1, <2>2, <2>4, WriteKeeps, Zenon
  <2>6. /\ \A x \in Cells : x # a /\ x # b => sharedbuf'[x] = buf[x]
        /\ sharedbuf'[a] = h /\ sharedbuf'[b] = l
    BY <1>4, <2>2, <2>3 DEF Buffer
  <2> QED
    BY <2>3, <2>5, <2>6 DEF a, b, h, l
<1> HIDE DEF buf, mid
<1>8. Built'
  <2>1. {0, 1, 2} \subseteq Cells
    BY <1>3 DEF Cells
  <2>2. sharedbuf'[0] = 14 /\ sharedbuf'[1] = 86 /\ sharedbuf'[2] = Channels
    BY <1>3, <1>4, <1>7, <2>1
  <2>3. CASE \A x \in 0 .. i - 1 : Holds(buf, x)
    <3>1. ASSUME NEW x \in 0 .. i' - 1 PROVE Holds(sharedbuf, x)'
      <4>1. x \in 0 .. i
        BY <1>1, <1>3
      <4>2. CASE x = i
        BY <1>1, <1>7, <4>2 DEF Holds
      <4>3. CASE x # i
        <5>1. x \in 0 .. i - 1
          BY <1>3, <4>1, <4>3
        <5>2. /\ 2 * x + 3 \in Cells /\ 2 * x + 4 \in Cells
              /\ 2 * x + 3 # 2 * i + 3 /\ 2 * x + 3 # 2 * i + 4
              /\ 2 * x + 4 # 2 * i + 3 /\ 2 * x + 4 # 2 * i + 4
          BY <1>3, <5>1 DEF Cells
        <5>3. sharedbuf'[2 * x + 3] = buf[2 * x + 3] /\ sharedbuf'[2 * x + 4] = buf[2 * x + 4]
          BY <1>7, <5>2
        <5> QED
          BY <1>1, <2>3, <5>1, <5>3 DEF Holds
      <4> QED
        BY <4>2, <4>3
    <3> QED
      BY <1>1, <1>2, <2>2, <3>1 DEF Built, Holds
  <2>4. CASE /\ texted \/ text_debug
             /\ \E y \in 0 .. i - 1 : High(sum[y]) = 0 \/ Low(sum[y]) = 0
    <3>1. PICK y \in 0 .. i - 1 : High(sum[y]) = 0 \/ Low(sum[y]) = 0
      BY <2>4
    <3>2. y \in 0 .. i' - 1
      BY <1>1, <1>3
    <3>3. Damaged(i)'
      BY <1>1, <2>4, <3>1, <3>2 DEF Damaged
    <3> QED
      BY <2>2, <3>3 DEF Built, Damaged
  <2> QED
    BY <1>4, <2>3, <2>4
<1>9. TypeOK'
  <2>1. sharedbuf' \in [Cells -> 0 .. Char]
    BY <1>7, Zenon DEF Buffer
  <2>2. texted' \in BOOLEAN
    BY <1>1, <1>2, Zenon DEF TypeOK
  <2>3. adctot' \in [Channel -> 0 .. Max16]
    <3>1. 0 \in 0 .. Max16
      BY Widths
    <3> DEFINE range == 0 .. Max16
    <3>2. adctot \in [Channel -> range]
      BY <1>2 DEF TypeOK
    <3> HIDE DEF range
    <3>3. 0 \in range
      BY <3>1 DEF range
    <3>4. adctot' \in [Channel -> range]
      BY <1>1, <3>2, <3>3
    <3> QED
      BY <3>4 DEF range
  <2>4. i' \in 0 .. Channels /\ pc' \in Places
    BY <1>1, <1>3 DEF Places
  <2> QED
    BY <1>1, <1>2, <2>1, <2>2, <2>3, <2>4 DEF TypeOK
<1>10. AtPlaces'
  BY <1>1, <1>2, <1>3 DEF AtPlaces, InDatagram
<1>11. Phase' /\ Sums'
  BY <1>1, <1>2 DEF Phase, Sums
<1>12. AdcTotals'
  <2>1. ASSUME NEW x \in Channel
        PROVE  adctot'[x] = IF (pc' = "adcitem" /\ x < i') \/ pc' = "adcsend" THEN 0 ELSE sum[x]
    <3>1. x \in 0 .. Channels - 1 /\ adctot \in [Channel -> 0 .. Max16]
      BY <1>2 DEF Channel, TypeOK
    <3>2. adctot[x] = IF x < i THEN 0 ELSE sum[x]
      BY <1>1, <1>2 DEF AdcTotals, Sent
    <3>3. CASE x = i
      BY <1>1, <1>3, <3>1, <3>3
    <3>4. CASE x # i
      <4>1. adctot'[x] = adctot[x]
        BY <1>1, <3>1, <3>4
      <4>2. x < i' <=> x < i
        BY <1>1, <1>3, <3>1, <3>4
      <4>3. pc' = "adcsend" => x < i
        BY <1>1, <1>3, <3>1, <3>4
      <4> QED
        BY <1>1, <3>2, <4>1, <4>2, <4>3
    <3> QED
      BY <3>3, <3>4
  <2> QED
    BY <1>1, <2>1 DEF AdcTotals, Sent
<1> QED
  BY <1>7, <1>8, <1>9, <1>10, <1>11, <1>12 DEF LoopInv

LEMMA AdcSendLoopInv ==
    ASSUME LoopInv, AdcSend
    PROVE  LoopInv'
<1>1. /\ pc = "adcsend" /\ pc' = "onewire"
      /\ sharedbuf' = (IF text_debug THEN AppendText(sharedbuf, 1) ELSE sharedbuf)
      /\ texted' = FALSE /\ sum' = [x \in Channel |-> 0] /\ since' = 0
      /\ UNCHANGED <<due, pwmoutcount, adcoutcount, onewireoutcount, adccount, adctot, i>>
      /\ UNCHANGED <<ourms, text_debug, debugs>>
  BY DEF AdcSend, counts, adc, flag
<1>2. /\ TypeOK /\ AtPlaces /\ AdcTotals /\ sharedbuf \in Buffer
      /\ adccount = 0 /\ adcoutcount = 0 /\ Taken' = 0 /\ ~InDatagram'
  BY <1>1 DEF LoopInv, AtPlaces, Taken, InDatagram
<1>3. sharedbuf' \in Buffer
  <2>1. 1 \in Nat
    OBVIOUS
  <2>2. AppendText(sharedbuf, 1) \in Buffer
    BY <1>2, <2>1, AppendKeeps, Zenon
  <2> QED
    BY <1>1, <1>2, <2>2, Zenon
<1>4. TypeOK'
  <2>1. sharedbuf' \in [Cells -> 0 .. Char]
    BY <1>3, Zenon DEF Buffer
  <2>2. texted' \in BOOLEAN /\ sum' \in [Channel -> Nat] /\ since' \in Nat
    BY <1>1
  <2>3. pc' \in Places
    BY <1>1 DEF Places
  <2> QED
    BY <1>1, <1>2, <2>1, <2>2, <2>3 DEF TypeOK
<1>5. AtPlaces'
  BY <1>1, <1>2, TicksAssumption DEF AtPlaces, InDatagram
<1>6. Phase'
  BY <1>1, <1>2, TicksAssumption DEF Phase
<1>7. Sums'
  BY <1>1, <1>2, Widths DEF Sums
<1>8. AdcTotals' /\ Built'
  BY <1>1, <1>2 DEF AdcTotals, Sent, Built
<1> QED
  BY <1>3, <1>4, <1>5, <1>6, <1>7, <1>8 DEF LoopInv

LEMMA NextLoopInv == LoopInv /\ [Next]_vars => LoopInv'
  BY EnvironmentLoopInv, WakeLoopInv, PwmLoopInv, OneWireLoopInv, AdcSkipLoopInv,
     AdcSampleLoopInv, AdcHeadLoopInv, AdcItemLoopInv, AdcSendLoopInv DEF Next, Loop

THEOREM CoreInvariant == Spec => []LoopInv
  BY InitLoopInv, NextLoopInv, PTL DEF Spec

-----------------------------------------------------------------------------
(* Every counter of the loop keeps its width, for every number of channels, *)
(* every size of the buffer and every period that fits a byte.              *)
THEOREM CoreTypeCorrect == Spec => []TypeOK
<1>1. LoopInv => TypeOK
  BY DEF LoopInv
<1> QED
  BY <1>1, CoreInvariant, PTL

(* strlen always stops inside sharedbuf: the last byte stays NUL, whatever  *)
(* text and data the loops mix in the rest.                                 *)
THEOREM CoreTerminated == Spec => []Terminated
<1>1. LoopInv => Terminated
  <2>1. Last \in Cells
    BY SizesAssumption DEF Last, Cells
  <2> QED
    BY <2>1 DEF LoopInv, Buffer, Terminated
<1> QED
  BY <1>1, CoreInvariant, PTL

(* A total never wraps, and no reading is lost or counted twice. *)
THEOREM CoreAdcTotals == Spec => []AdcTotals
<1>1. LoopInv => AdcTotals
  BY DEF LoopInv
<1> QED
  BY <1>1, CoreInvariant, PTL

(* A datagram of the ADC comes every AdcTicks * Samples ticks with the mean *)
(* of the readings in between, damaged by text only if it carries a NUL.    *)
THEOREM CoreAdcDatagram == Spec => AdcDatagram
<1> DEFINE Good ==
      /\ since = AdcTicks * Samples
      /\ sharedbuf'[0] = 14 /\ sharedbuf'[1] = 86 /\ sharedbuf'[2] = Channels
      /\ Intact(sharedbuf') \/ ((texted \/ text_debug) /\ HasNul)
<1>1. ASSUME LoopInv, [Next]_vars, pc = "adcsend", pc' = "onewire"
      PROVE  Good
  <2>1. AdcSend
    BY <1>1 DEF Next, Loop, Clock, Debug, Wake, PwmPrint, PwmSend, AdcSkip, AdcSample, AdcHead,
                AdcItem, OneWire, vars
  <2>2. since = AdcTicks * Samples
    <3>1. Taken = Samples /\ adcoutcount = 0 /\ AdcTicks * Samples \in Nat
      BY <1>1, TicksAssumption DEF LoopInv, AtPlaces, Taken, InDatagram
    <3>2. since = AdcTicks * Taken + 0 + 0
      BY <1>1, <3>1 DEF LoopInv, Phase
    <3> DEFINE p == AdcTicks * Taken
    <3>3. p = AdcTicks * Samples /\ p \in Nat
      BY <3>1
    <3>4. since = p + 0 + 0
      BY <3>2
    <3> HIDE DEF p
    <3> QED
      BY <3>3, <3>4
  <2>3. sharedbuf' = (IF text_debug THEN AppendText(sharedbuf, 1) ELSE sharedbuf)
    BY <2>1 DEF AdcSend
  <2>4. /\ sharedbuf'[0] = 14 /\ sharedbuf'[1] = 86 /\ sharedbuf'[2] = Channels
        /\ \/ \A x \in 0 .. i - 1 : Holds(sharedbuf', x)
           \/ /\ texted \/ text_debug
              /\ \E y \in 0 .. i - 1 : High(sum[y]) = 0 \/ Low(sum[y]) = 0
    BY <1>1, <2>3, TextKeeps
  <2>5. 0 .. i - 1 = Channel
    BY <1>1 DEF LoopInv, AtPlaces, Channel
  <2> QED
    BY <2>2, <2>4, <2>5 DEF Intact, HasNul, Holds
<1>2. LoopInv /\ [Next]_vars => [pc = "adcsend" /\ pc' = "onewire" => Good]_vars
  BY <1>1
<1> QED
  BY <1>2, CoreInvariant, PTL DEF Spec, AdcDatagram
===============================================================================
