SPECIFICATION Spec
CONSTANTS
    None = None
    NaN = NaN
    PosInf = PosInf
    NegInf = NegInf
    ValueError = ValueError
    plain = plain
    cycle = cycle
    nested = nested
    handle = handle
    engineId = engineId
    blankId = blankId
    customerName = customerName
    Unparseable = Unparseable
    Registered <- MCRegistered
    Unit = 4
    InertNode = plain
    RequiredSections <- MCSections
    Heap <- MCHeap
    Blank <- MCBlank
    Requests <- MCRequests
INVARIANTS
    ReportAgreesWithEvidence
    BundleIsBlindToNames
    NoNumberIsUnvouched
    EveryMetricIsAccountedFor
    BandSurroundsResonance
    CoverageJudgesRealTargets
    EveryCandidateIsDecidedOnce
    OnlyValuesTravel
    IdAnomaliesAreExact
    ExportReadsBack
\* A request ends when its last call returned.
CHECK_DEADLOCK FALSE
