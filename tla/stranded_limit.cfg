SPECIFICATION PunctualSpec
CONSTANTS
    Macs = {m1, m2}
    Ifaces = {wlo1}
    NoIface = NoIface
    MaxLimit = 2
    Helpers = {h1, h2}
    Asked <- AnyRequest
    Free = Free
INVARIANTS BlockNeverRefused
