CONSTANTS
    NumIn = 1
    Full = 3
    Rot = 2
    Period = 3
    ClkMHz = 3
    Div = 2
    TimeMod = 12
    CounterMod = 18
    TotalMod = 8
    MaxLate = 1
    MaxIsr = 2
    SHAREDBUFLEN = 30
    Channels = 2
    Pwms = 1
    PwmTicks = 3
    AdcTicks = 2
    OneWireTicks = 1
    Samples = 16
    Conversion = 1
    PwmText = {9}
    Readings <- MCReadings
    Duties = {0}
    MaxDue = 1
    MaxDebug = 2
    MaxByte = 4
    Esc = 3
    MinRun = 3
    MaxLength = 8
    Values = {0, 1, 3}
SPECIFICATION MCSpec
INVARIANTS Terminated Lossless ExpansionBounded
PROPERTIES SampleTellsLevel NoOvershoot NoCounterWrap AdcDatagram SteadyInputIsReached
