SPECIFICATION FairSpec
CONSTANTS
    Macs = {m1, m2}
    Ifaces = {wlo1, wlx2}
    NoIface = NoIface
    MaxLimit = 2
    Helpers = {h1, h2}
    Asked <- FewRequests
    Free = Free
INVARIANTS MutualExclusion RulesCoherent
PROPERTIES EveryCallReturns LockIsReleased
