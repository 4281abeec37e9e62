SPECIFICATION MCSpec
CONSTANTS
    PoiTypes = {"Marina", "Hazard"}
    NoTypes = NoTypes
    Sources = {"ac", "enc"}
    Outputs = {"notes", "alarm"}
    Notes = "notes"
    ActiveCaptain = "ac"
    TypesOf <- MCTypesOf
    Configs <- MCConfigs
    None = None
    Routers = {r1, r2}
    MaxStarts = 2
    MaxFaults = 2
    Forms <- MCForms
    Raws <- MCRaws
    Trimmed <- MCTrimmed
    Edits <- MCEdits
    Texts = {Blank, 5, 400}
    Absent = Absent
    Junk = Junk
    Unset = Unset
    Blank = Blank
    MaxEdits = 2
INVARIANTS
    DeadAlarmStaysReported
