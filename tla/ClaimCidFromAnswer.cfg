SPECIFICATION Spec
CONSTANTS
    NoData = NoData
    Configs <- CdaConfigs
    Amounts <- CdaAmounts
    SelectTags <- CdaSelect
    SettingsTvr = {"transaction_exceeds_floor_limit"}
    Afls <- TaaAfls
    GpoResponses <- CdaGpo
    RecordResponses <- StaleRecords
    AcResponses <- StaleAc
    TerminalCda = TRUE
    CardObeys = FALSE
    MaxTransactions = 1
INVARIANT
    CidComesFromAnswer
