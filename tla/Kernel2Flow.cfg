SPECIFICATION Spec
CONSTANTS
    NoData = NoData
    Configs <- FlowConfigs
    Amounts <- FlowAmounts
    SelectTags <- FlowSelect
    SettingsTvr = {"transaction_exceeds_floor_limit"}
    Afls <- FlowAfls
    GpoResponses <- FlowGpo
    RecordResponses <- FlowRecords
    AcResponses <- FlowAc
    TerminalCda = TRUE
    CardObeys = FALSE
    MaxTransactions = 2
INVARIANTS
    TypeOK
    LimitRespected
    KeyRecoveryHasStaticData
    ReportedTvrIsFinal
    ApprovalRestsOnSignature
PROPERTY
    TransactionEnds
    ImplementsPayment
