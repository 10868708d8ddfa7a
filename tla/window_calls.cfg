SPECIFICATION FairSpec
CONSTANTS
    Macs = {m1}
    Ifaces = {wlo1}
    NoIface = NoIface
    MaxLimit = 0
    Unknown = Unknown
    Failed = Failed
    Earlier <- AnyBlocked
    Toggled = {m1}
    Limited = {m1}
    Directions = {"download"}
    Rates = {1}
    Maxima = {}
    Clicks = 2
PROPERTIES TypingIsKept Settles
