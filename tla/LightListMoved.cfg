SPECIFICATION Spec
CONSTANTS
    Pages = {"D01_1", "D01_2"}
    a1 = a1
    a2 = a2
    a3 = a3
    Records = {a1, a2, a3}
    Editions <- MCMovedEditions
    Workers = 2
    NoTag = NoTag
    MaxChanges = 1
    MaxFaults = 0
INVARIANTS NotModifiedIsSafe
