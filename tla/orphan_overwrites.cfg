SPECIFICATION Spec
CONSTANTS
    Macs = {m1, m2}
    Ifaces = {wlo1}
    NoIface = NoIface
    MaxLimit = 1
    Helpers = {h1, h2}
    Asked <- AnyRequest
    Free = Free
PROPERTIES AcknowledgedStays
