CONSTANTS
    Depth = 8
    JsonValues <- TheJsonValues
    Records <- TheRecords
    Requests <- TheRequests
    Prompts <- ThePrompts
    Conversations <- TheConversations
    Queries <- TheQueries
    Signatures <- TheSignatures
    Releases <- TheReleases
SPECIFICATION Spec
CHECK_DEADLOCK FALSE
INVARIANTS
    RecordsReadBack
    NothingRaw
    SavedIsReturned
    PromptsAreBounded
    GroupsAreWhole
    SearchesAreExact
    CallsAreKept
    RemovalsAnnounced
