CONSTANTS
    Requests <- MCRequests
    Commands <- MCCommands
    Replies <- MCReplies
    StrayAnswers <- MCStrayAnswers
    LeMax <- MCLeMax
    MaxCommands = 2
    MaxRounds = 3
SPECIFICATION CommandSpec
INVARIANTS
    ExchangeTypeOK
    CommandReachesCard
PROPERTIES
    ImplementsAtomicExchange
