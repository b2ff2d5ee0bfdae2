CONSTANTS
    Hosts = {h0, h1, h2}
    FirstHost = h0
    Calls = {c1, c2}
    Prompt = {"quiesce-active", "switch-traffic", "resume-active"}
SPECIFICATION FairSpec
INVARIANTS WorkIsAtAuthority AuthorityIsNotStopped AdmitsBetweenCutovers
PROPERTY OutageEnds
CHECK_DEADLOCK FALSE
