SPECIFICATION Spec
CONSTANTS
    wlo1 = wlo1
    eth0 = eth0
    Ifaces = {wlo1, eth0}
    Subnets = {hotnet}
    None = None
    Routes <- BothOrNone
    Handles = {h1, h2, h3, h4, h5}
    DockerRules = 1
SYMMETRY Symmetry
INVARIANTS OneRunSuffices
PROPERTIES DockerUntouched
