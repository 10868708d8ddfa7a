SPECIFICATION Spec
CONSTANTS
    Clients = {c1, c2}
    Ifaces = {wlo1, wlx2}
    Ifb = hotstream0
    Rates = {500, 800}
    Asked <- MovingHotspot
    UnlimitedKbit = 2000000
    FirstClassid = 10
    DefaultClassid = 12
    LastClassid = 12
SYMMETRY Symmetry
INVARIANTS TypeOK InconsistentOnlyAtDefault TcAccepts UploadsAreRedirected
PROPERTIES RedirectReady LimitsMoveAsAsked ForeignUntouched
CONSTRAINT OneStray
