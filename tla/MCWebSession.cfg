\* Two tabs, two keys, one of which may only read.
SPECIFICATION Spec
CONSTANTS
    r = r
    w = w
    Tab = {t1, t2}
    Token = {r, w}
    Writers = {w}
    MaxProbes = 2
    MaxCalls = 1
    MaxClicks = 2
    MaxFaults = 1
    None = None
PROPERTIES
    GateSettles
CHECK_DEADLOCK FALSE
