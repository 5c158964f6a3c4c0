\* Two servers over one disk: failures, crashes, withheld answers, a power loss, and
\* an intent the store cannot read back; the cleared one it can.
SPECIFICATION FilesSpec
CONSTANTS
    Server = {s1, s2}
    Export = {"good", "aliased"}
    Intent = {i1}
    NonFinite = {i1}
    None = None
    Absent = Absent
    Traits <- OneGoodPath
    MaxWrites = 3
SYMMETRY ServerSymmetry
INVARIANTS
    FilesInv
    TornOnlyIfNew
    LeftoversAreNamed
    IntentIsOfTheLastSet
PROPERTIES
    KeepsFiles
\* The bound on writes stops it.
CHECK_DEADLOCK FALSE
