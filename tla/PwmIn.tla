-------------------------------- MODULE PwmIn --------------------------------
(***************************************************************************)
(* The PWM input sampler of misterpico.c: main_pwm_loop, the callback of a *)
(* repeating timer of core 1, measures how long each input pin was high    *)
(* over a window of about PWMIN_PERIODUS with a gated hardware counter and *)
(* smooths the result in runtotal / dutycycle.                             *)
(*                                                                         *)
(* One tick of `now' is one count of the gated counters (PWMIN_DIV cycles  *)
(* of clk_sys).  Time goes on while the callback runs: between any two of  *)
(* its statements that read the clock or touch a counter.                  *)
(***************************************************************************)
EXTENDS Integers

CONSTANTS
    NumIn,       \* NUMPWMIN
    Full,        \* 255: the full-scale sample
    Rot,         \* 2^PWMIN_ROTATE: the depth of the smoothing
    Period,      \* PWMIN_PERIODUS
    ClkMHz,      \* clk_sys in MHz
    Div,         \* PWMIN_DIV
    TimeMod,     \* 2^32: time_us_32 wraps
    CounterMod,  \* 2^16: the counters wrap
    TotalMod,    \* 2^16: runtotal is a uint16_t
    MaxLate,     \* bound: microseconds an alarm may be late
    MaxIsr       \* bound: ticks one callback may take

ASSUME FilterAssumption ==
    /\ NumIn \in Nat \ {0}
    /\ Full \in Nat \ {0}
    /\ Rot \in Nat \ {0}
    /\ Full * Rot < TotalMod
    /\ TotalMod \in Nat
ASSUME TimeAssumption ==
    /\ Period \in Nat \ {0} /\ ClkMHz \in Nat \ {0} /\ Div \in Nat \ {0}
    /\ Period * ClkMHz >= Div
    /\ TimeMod \in Nat \ {0} /\ CounterMod \in Nat \ {0}
    /\ (TimeMod * ClkMHz) % Div = 0
    /\ MaxLate \in Nat /\ MaxIsr \in Nat

Input == 0 .. NumIn - 1

VARIABLES
    measuring, dutycycle, runtotal, startus,  \* struct pwmin
    t,                                        \* local of main_pwm_loop
    scratch,                                  \* its local, kept per channel
    isr, slice,                               \* where the callback is, and its i
    now, retus, busy,          \* the clock, the last return, ticks in this call
    level, enabled, counter,   \* the pins and the PWM slices that count them
    sawLow, sawHigh            \* history: levels seen since the slice's reset

state == <<measuring, dutycycle, runtotal, startus, t, scratch>>
hw == <<level, enabled, counter, sawLow, sawHigh>>
sampler == <<state, isr, slice, now, retus, busy, hw>>

-----------------------------------------------------------------------------
(* time_us_32, and the counts a number of microseconds stands for *)
ClockTicks == (TimeMod * ClkMHz) \div Div
Us(ticks) == (ticks * Div) \div ClkMHz
Counts(us) == (us * ClkMHz) \div Div
SinceReturn == (Us(now) - retus) % TimeMod

(* Mutant of Elapsed: the wrap of the clock is forgotten *)
ElapsedSigned(from, to) == to - from

(* The difference of two readings, as the code computes it: one microsecond *)
(* short when the clock wrapped in between.                                 *)
Elapsed(from, to) == IF from <= to THEN to - from ELSE to + (TimeMod - 1) - from

Sample(cur, max) ==
    CASE cur >= max -> Full
      [] cur < max /\ cur = 0 -> 0
      [] OTHER -> (Full * cur) \div max

(* Mutants of NewTotal: a rail taken too soon, and half the difference *)
NewTotalEagerRail(sample, duty, total) ==
    IF sample = Full \/ duty = 0 THEN Full * Rot ELSE (total + sample - duty) % TotalMod
NewTotalDamped(sample, duty, total) == (total + ((sample - duty) \div 2)) % TotalMod

(* The smoothing, with the two shortcuts from one rail to the other *)
NewTotal(sample, duty, total) ==
    CASE sample = Full /\ duty = 0 -> Full * Rot
      [] sample = 0 /\ duty = Full -> 0
      [] OTHER -> (total + sample - duty) % TotalMod

NewDuty(total) == (total \div Rot) % (Full + 1)

-----------------------------------------------------------------------------
SamplerInit ==
    /\ measuring = FALSE /\ startus = 0 /\ t = 0
    /\ dutycycle = [c \in Input |-> 0]
    /\ runtotal = [c \in Input |-> 0]
    /\ scratch = [c \in Input |-> 0]
    /\ isr = "idle" /\ slice = 0 /\ busy = 0
    /\ now \in 0 .. ClockTicks - 1
    /\ retus = Us(now)
    /\ level \in [Input -> BOOLEAN]
    /\ enabled = [c \in Input |-> FALSE]
    /\ counter = [c \in Input |-> 0]
    /\ sawLow = [c \in Input |-> FALSE]
    /\ sawHigh = [c \in Input |-> FALSE]

(* The alarm is due Period after the previous return: t = time_us_32() *)
ReadClock ==
    /\ isr = "idle"
    /\ SinceReturn >= Period
    /\ t' = Us(now)
    /\ busy' = 0
    /\ slice' = 0
    /\ isr' = IF ~measuring THEN "reset"
              ELSE IF Elapsed(startus, t') >= Period THEN "disable"
              ELSE "return"
    /\ UNCHANGED <<measuring, dutycycle, runtotal, startus, scratch, now, retus, hw>>

(* pwm_set_enabled(pwminslice[i], false), one slice after the other *)
DisableSlice ==
    /\ isr = "disable"
    /\ enabled' = [enabled EXCEPT ![slice] = FALSE]
    /\ IF slice + 1 < NumIn THEN slice' = slice + 1 /\ isr' = isr
                           ELSE slice' = 0 /\ isr' = "compute"
    /\ UNCHANGED <<state, now, retus, busy, level, counter, sawLow, sawHigh>>

(* The counters stand still: the loop over the slices is one step *)
ComputeDuty ==
    /\ isr = "compute"
    /\ LET maxcount == Counts(Elapsed(startus, t)) IN
       scratch' = [c \in Input |-> Sample(counter[c], maxcount)]
    /\ runtotal' = [c \in Input |->
                      NewTotal(scratch'[c], dutycycle[c], runtotal[c])]
    /\ dutycycle' = [c \in Input |-> NewDuty(runtotal'[c])]
    /\ measuring' = FALSE
    /\ isr' = "reset"
    /\ UNCHANGED <<startus, t, slice, now, retus, busy, hw>>

(* Mutant of ResetCounters: the counters go on from the last window *)
ResetNothing ==
    /\ isr = "reset"
    /\ sawLow' = [c \in Input |-> FALSE]
    /\ sawHigh' = [c \in Input |-> FALSE]
    /\ isr' = "enable"
    /\ UNCHANGED <<state, slice, now, retus, busy, level, enabled, counter>>

ResetCounters ==
    /\ isr = "reset"
    /\ counter' = [c \in Input |-> 0]
    /\ sawLow' = [c \in Input |-> FALSE]
    /\ sawHigh' = [c \in Input |-> FALSE]
    /\ isr' = "enable"
    /\ UNCHANGED <<state, slice, now, retus, busy, level, enabled>>

EnableSlice ==
    /\ isr = "enable"
    /\ enabled' = [enabled EXCEPT ![slice] = TRUE]
    /\ IF slice + 1 < NumIn THEN slice' = slice + 1 /\ isr' = isr
                           ELSE slice' = 0 /\ isr' = "stamp"
    /\ UNCHANGED <<state, now, retus, busy, level, counter, sawLow, sawHigh>>

(* pwmin.startus = time_us_32(); pwmin.measuring = true *)
StampStart ==
    /\ isr = "stamp"
    /\ startus' = Us(now)
    /\ measuring' = TRUE
    /\ isr' = "return"
    /\ UNCHANGED <<dutycycle, runtotal, t, scratch, slice, now, retus, busy, hw>>

(* return(true): the alarm pool arms the next call Period from now *)
Return ==
    /\ isr = "return"
    /\ retus' = Us(now)
    /\ isr' = "idle"
    /\ UNCHANGED <<state, slice, now, busy, hw>>

Callback == \/ ReadClock \/ DisableSlice \/ ComputeDuty
            \/ ResetCounters \/ EnableSlice \/ StampStart \/ Return

-----------------------------------------------------------------------------
(* One count of time: a slice that is enabled counts a pin that is high.   *)
(* The two guards bound how late the alarm and how slow the callback is.   *)
Tick ==
    /\ IF isr = "idle" THEN SinceReturn < Period + MaxLate /\ busy' = busy
                      ELSE busy < MaxIsr /\ busy' = busy + 1
    /\ now' = (now + 1) % ClockTicks
    /\ counter' = [c \in Input |->
                     IF enabled[c] /\ level[c] THEN (counter[c] + 1) % CounterMod
                                               ELSE counter[c]]
    /\ sawLow' = [c \in Input |-> sawLow[c] \/ (enabled[c] /\ ~level[c])]
    /\ sawHigh' = [c \in Input |-> sawHigh[c] \/ (enabled[c] /\ level[c])]
    /\ UNCHANGED <<state, isr, slice, retus, level, enabled>>

(* The signal on one input pin changes *)
Toggle(c) ==
    /\ level' = [level EXCEPT ![c] = ~@]
    /\ UNCHANGED <<state, isr, slice, now, retus, busy, enabled, counter, sawLow, sawHigh>>

SamplerNext == Callback \/ Tick \/ (\E c \in Input : Toggle(c))

SamplerSpec == SamplerInit /\ [][SamplerNext]_sampler

(* The callback runs to its end and the clock does not stop *)
FairSampler == SamplerSpec /\ WF_sampler(Callback) /\ WF_sampler(Tick)

-----------------------------------------------------------------------------
(* Type invariant of the sampler: every variable has its width. *)
SamplerTypeOK ==
    /\ measuring \in BOOLEAN
    /\ startus \in 0 .. TimeMod - 1 /\ t \in 0 .. TimeMod - 1
    /\ dutycycle \in [Input -> 0 .. Full]
    /\ runtotal \in [Input -> 0 .. TotalMod - 1]
    /\ scratch \in [Input -> 0 .. Full]
    /\ isr \in {"idle", "disable", "compute", "reset", "enable", "stamp", "return"}
    /\ slice \in Input
    /\ now \in 0 .. ClockTicks - 1 /\ retus \in 0 .. TimeMod - 1
    /\ busy \in 0 .. MaxIsr
    /\ level \in [Input -> BOOLEAN] /\ enabled \in [Input -> BOOLEAN]
    /\ counter \in [Input -> 0 .. CounterMod - 1]
    /\ sawLow \in [Input -> BOOLEAN] /\ sawHigh \in [Input -> BOOLEAN]

(* The smoothing never leaves its scale: runtotal stays within Full * Rot   *)
(* and dutycycle is the part of it a reader sees, so that neither the       *)
(* unsigned subtraction of misterpico.c:379 nor the store in a uint8_t of   *)
(* line 381 ever wraps.                                                     *)
FilterInRange ==
    \A c \in Input : /\ runtotal[c] <= Full * Rot
                       /\ dutycycle[c] = runtotal[c] \div Rot

(* A new dutycycle lies between the old one and the new sample: the filter  *)
(* (misterpico.c:374-381, shortcuts included) never overshoots its input.   *)
Between(x, a, b) == (a <= x /\ x <= b) \/ (b <= x /\ x <= a)
NoOvershoot ==
    [][\A c \in Input :
         isr = "compute" /\ isr' # isr
           => Between(dutycycle'[c], dutycycle[c], scratch'[c])]_sampler

(* A window in which the pin was never high reads 0, and one in which it    *)
(* was never low reads full scale but for the microsecond time_us_32        *)
(* truncates: the clock is read before the slices stop and after they start *)
(* (misterpico.c:340, 352, 391, 392), also when the 32-bit clock wraps.     *)
CountsPerUs == (ClkMHz + Div - 1) \div Div
SampleTellsLevel ==
    [][isr = "compute" /\ isr' # isr =>
         \A c \in Input :
             /\ ~sawHigh[c] => scratch'[c] = 0
             /\ ~sawLow[c] =>
                  LET m == Counts(Elapsed(startus, t)) IN
                  scratch'[c] >= (Full * (m - CountsPerUs + 1)) \div m]_sampler

(* The gated counters never wrap: a window is closed before a pin that      *)
(* stays high has counted CounterMod, even when the window that straddles   *)
(* the wrap of time_us_32 comes out one short and lasts two periods         *)
(* (misterpico.c:346, 348).                                                 *)
NoCounterWrap ==
    [][\A c \in Input : counter'[c] < counter[c] => isr = "reset"]_sampler

(* Windows are closed again and again, whatever the clock does at its wrap, *)
(* and a steady sample is reached exactly, not just approached: the fixed   *)
(* point of the filter is the sample itself (misterpico.c:341-394).         *)
SteadySampleIsReached ==
    /\ []<>(isr = "compute")
    /\ \A c \in Input : \A v \in 0 .. Full :
         <>[](scratch[c] = v) => <>[](dutycycle[c] = v)
=============================================================================
