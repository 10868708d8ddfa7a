SPECIFICATION Spec
CONSTANTS
    Macs = {m1}
    Ifaces = {wlo1}
    NoIface = NoIface
    MaxLimit = 0
    Unknown = Unknown
    Failed = Failed
    Earlier <- Nothing
    Toggled = {}
    Limited = {m1}
    Directions = {"download", "upload"}
    Rates = {1}
    Maxima = {}
    Clicks = 1
PROPERTIES UntouchedKept
