\* Two channels, pages of two messages, every fault.
SPECIFICATION SummarySpec
CONSTANTS
    Channels = {"c1", "c2"}
    Home = "c1"
    Items <- TheItems
    Histories <- TheHistories
    Age <- TheAge
    Size <- TheSize
    Noise = {"noise"}
    Replies <- TheReplies
    Mine = {"root"}
    Asks = {"long"}
    Asked = {0, 9}
    MaxHours = 2
    DefaultHours = 1
    PageSize = 2
    MaxMessages <- Limits
    MaxThreads <- ThreadLimits
    MaxReplies <- ReplyLimits
    MaxTokens = 5
    Reserved = 2
    CharsPerToken = 3
    MayFail = {"history", "replies", "list", "model", "answer"}
INVARIANTS
    ChunksFit
    NothingLeftOut
    Accounted
