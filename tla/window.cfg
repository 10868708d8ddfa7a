SPECIFICATION FairSpec
CONSTANTS
    Macs = {m1, m2}
    Ifaces = {wlo1}
    NoIface = NoIface
    MaxLimit = 2
    Unknown = Unknown
    Failed = Failed
    Earlier <- AnyLimit
    Toggled = {}
    Limited = {}
    Directions = {}
    Rates = {}
    Maxima = {0, 1}
    Clicks = 1
INVARIANTS TypeOK AdmissionAlone
PROPERTIES TypingIsKept Settles
