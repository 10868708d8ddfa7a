SPECIFICATION Spec
CONSTANTS
    Macs = {m1, m2}
    Ifaces = {wlo1}
    NoIface = NoIface
    MaxLimit = 1
    Unknown = Unknown
    Failed = Failed
    Earlier <- Nothing
    Toggled = {}
    Limited = {}
    Directions = {}
    Rates = {}
    Maxima = {0, 1}
    Clicks = 1
PROPERTIES ReconcileKeepsMaximum
