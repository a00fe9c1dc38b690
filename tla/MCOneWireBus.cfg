CONSTANTS
    d1 = d1
    d2 = d2
    Devices <- MCDevices
    Family <- MCFamily
    ANY = ANY
    BAD = BAD
    Raw <- MCRaw
    Start <- MCStart
    Cfgs <- MCCfgs
    Remain = 3
    MaxChanges = 1
SPECIFICATION Spec
INVARIANTS TypeOK NoContention ConversionPowered ReadingIsLatest ResolutionSet
