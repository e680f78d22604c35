CONSTANTS
    PseAnswers <- MCPseAnswers
    RecordAnswers <- MCRecordAnswers
    SelectAnswers <- MCSelectAnswers
    DefaultTags <- MCDefaultTags
    Entries <- MCEntries
    LastRecord = 3
    MaxListed = 3
SPECIFICATION Spec
INVARIANTS
    SelectionTypeOK
    CandidatesAreListed
    HandOver
PROPERTIES
    SelectionEnds
