SPECIFICATION Spec
CONSTANTS
    NoData = NoData
    Configs <- TaaConfigs
    Amounts <- TaaAmounts
    SelectTags <- TaaSelect
    SettingsTvr = {}
    Afls <- TaaAfls
    GpoResponses <- TaaGpo
    RecordResponses <- TaaRecords
    AcResponses <- TaaAc
    TerminalCda = TRUE
    CardObeys = TRUE
    MaxTransactions = 1
INVARIANTS
    OfflineApprovalJustified
    CardSeesJudgedTvr
    CvmConsistent
    VerdictIsBorneOut
