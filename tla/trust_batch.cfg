CONSTANTS
    a = a
    b = b
    s = s
    Nodes = {a, b}
    Links <- OneWay
    Identified = {}
    Lax = {a, b}
    Subjects = {s}
    Levels = {1}
    Times = {}
    MaxPerSync = 2
    Recent = 2
    Quota <- NoneAndThree
    MaxTasks = 2
    MaxNet = 1
    None = None
SPECIFICATION Spec
INVARIANTS TrustFollowsLog
PROPERTIES AddNeverOverwrites
