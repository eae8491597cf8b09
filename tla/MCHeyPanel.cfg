\* One message to start with, one that can be posted.
SPECIFICATION Spec
CONSTANTS
    t1 = t1
    t2 = t2
    c1 = c1
    c2 = c2
    inbox = inbox
    doing = doing
    old = old
    new = new
    Thread = {t1, t2}
    Alias = Alias
    Home = t1
    NameOf <- MCNameOf
    ListCap = 1
    Card = {c1, c2}
    Lane = {inbox, doing}
    Inbox = inbox
    Text = {old}
    FirstBoard <- MCFirstBoard
    MaxLog = 2
    MaxClicks = 3
    MaxCalls = 2
    None = None
INVARIANTS
    TypeOK
PROPERTIES
    PaneRefines
    PaneCatchesUp
    OptimismEnds
