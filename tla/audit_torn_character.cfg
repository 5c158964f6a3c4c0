\* A line torn inside a character.
SPECIFICATION AuditSpec
CONSTANTS
    Kind = {"plain", "wide"}
    Size = 3
    Cut = 1
    MaxRecords = 3
INVARIANTS NeverFatal
CHECK_DEADLOCK FALSE
