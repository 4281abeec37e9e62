SPECIFICATION FairSpec
CONSTANTS
    Pages = {"D01_1", "D01_2"}
    a1 = a1
    a2 = a2
    a3 = a3
    Records = {a1, a2, a3}
    Editions <- MCEditions
    Workers = 2
    NoTag = NoTag
    MaxChanges = 1
    MaxFaults = 2
INVARIANTS NotModifiedIsSafe DiskIsSafe
PROPERTIES EventuallyComplete
