SPECIFICATION Spec
CONSTANTS
    NoData = NoData
    Configs <- CdaConfigs
    Amounts <- CdaAmounts
    SelectTags <- CdaSelect
    SettingsTvr = {"transaction_exceeds_floor_limit"}
    Afls <- CdaAfls
    GpoResponses <- CdaGpo
    RecordResponses <- CdaRecords
    AcResponses <- CdaAc
    TerminalCda = TRUE
    CardObeys = FALSE
    MaxTransactions = 2
INVARIANTS
    StaticDataIsAflData
    ApprovalRestsOnSignature
PROPERTY
    GenuineCardAuthenticates
