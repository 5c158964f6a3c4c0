\* One server and an intent with a number that is not finite.
SPECIFICATION FilesSpec
CONSTANTS
    Server = {s1}
    Export = {"good", "aliased"}
    Intent = {i1, inf}
    NonFinite = {inf}
    None = None
    Absent = Absent
    Traits <- OneGoodPath
    MaxWrites = 2
INVARIANTS
    IntentIsReturned
CHECK_DEADLOCK FALSE
