\* A server process over its log: sink failures, lines torn inside a character, crashes.
SPECIFICATION BrokerSpec
CONSTANTS
    Kind = {"wide"}
    Size = 2
    Cut = 1
    MaxRecords = 3
    Tier <- EachTier
    Unregistered = "nothing"
    Confirmations = {TRUE, FALSE}
INVARIANTS
    BrokerTypeOK
    AnsweredIsAudited
    OnlyGatedCallsRun
    WorseningIsOnRecord
\* The bound on records stops it.
CHECK_DEADLOCK FALSE
