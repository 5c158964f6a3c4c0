\* Torn lines, some inside a character, never cost another record its line.
SPECIFICATION AuditSpec
CONSTANTS
    Kind = {"plain", "wide"}
    Size = 3
    Cut = 1
    MaxRecords = 5
INVARIANTS
    LogInv
    AcknowledgedIsRead
    DamageIsCounted
PROPERTIES KeepsTrail
CHECK_DEADLOCK FALSE
