SPECIFICATION Spec
CONSTANTS
    NoData = NoData
    Callers = {"library"}
    AmountLimit = 4
    SettingsTvr = {"transaction_exceeds_floor_limit"}
    StatusResponses <- CvmStatus
    Amounts <- CvmAmounts
    SelectTags <- CvmSelect
    Afls <- CvmAfls
    CvmLists <- CvmMcLists
    GpoResponses <- CvmGpo
    RecordResponses <- CvmRecords
    DdaResponses <- CvmDda
    AcResponses <- CvmAc
    Contactless = FALSE
    PlaintextPin = FALSE
    EncipheredPin = TRUE
    TerminalMethods = {"sda", "dda", "cda"}
    CryptogramAsked = "TC"
    CryptogramAskedArqc = "TC"
    MaxTransactions = 2
INVARIANTS
    CvmReportsAgree
    PinReportRestsOnVerify
    ReportedRuleApplies
PROPERTY
    PurchaseEnds
