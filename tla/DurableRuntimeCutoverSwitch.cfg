CONSTANTS
    Hosts = {h0, h1, h2}
    Releases = {r0, r1}
    FirstHost = h0
    FirstRelease = r0
    None = none
    Prompt = {}
    MaxLeft = 1
SPECIFICATION Spec
SYMMETRY Symmetry
CHECK_DEADLOCK FALSE
INVARIANT RolledBackKeepsAuthority
