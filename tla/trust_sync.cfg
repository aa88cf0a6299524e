CONSTANTS
    a = a
    b = b
    s = s
    Nodes = {a, b}
    Links <- OneWay
    Identified = {a}
    Lax = {a, b}
    Subjects = {s}
    Levels = {1}
    Times = {}
    MaxPerSync = 1
    Recent = 1
    Quota <- OneAndTwo
    MaxTasks = 2
    MaxNet = 1
    None = None
SPECIFICATION Spec
INVARIANTS TypeOK StoredIsLogged
