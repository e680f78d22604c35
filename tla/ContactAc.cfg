SPECIFICATION Spec
CONSTANTS
    NoData = NoData
    Callers = {"simulator", "library"}
    AmountLimit = 2
    SettingsTvr = {"transaction_exceeds_floor_limit"}
    StatusResponses <- AcStatus
    Amounts <- AcAmounts
    SelectTags <- AcSelect
    Afls <- AcAfls
    CvmLists <- AcCvmLists
    GpoResponses <- AcGpo
    RecordResponses <- AcRecords
    DdaResponses <- AcDda
    AcResponses <- AcAnswers
    Contactless = TRUE
    PlaintextPin = TRUE
    EncipheredPin = FALSE
    TerminalMethods = {"sda", "dda", "cda"}
    CryptogramAsked = "ARQC"
    CryptogramAskedArqc = "TC"
    MaxTransactions = 2
INVARIANTS
    ContactTypeOK
    PurchaseRestsOnSignature
    KeyRestsOnRecords
PROPERTY
    CardSeesTvr
