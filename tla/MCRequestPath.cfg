SPECIFICATION PathSpec
CONSTANTS
    MaxRetries = 2
    InitialDelay = 2
    MaxDelay = 5
    RetryAfters = {0, 1, 7}
    Callers = {1, 2, 3}
    Keys = {1, 2, 3}
    TTL = 1
    MaxEntries = 2
    MaxClock = 3
    MaxEventSize = 3
    MaxText = 6
    MaxFrames = 4
    MaxCalls = 2
    MaxEvents = 8
    MaxItems = 3
    MaxMessages = 5
    Families = {"anthropic", "chat", "responses", "gemini"}
    MaxBuilds = 2
    MaxRepairs = 1
    Calls = {c1, c2}
    MaxSafe = 6
    Requests = {1, 2}
    MaxRequests = 2
    Window = 2
    Capacity = 2
    Waiters = {1, 2}
    Orders <- SomeOrders
    CustomIds = {"a", "b"}
    DefaultModel = "model"
    MaxRequestsInBatch = 2
    Grace = 7
    AskedIntervals <- SomeIntervals
    DefaultInterval = 6
    MaxInterval = 10
    MaxNow = 12
    MaxContents = 6
    NotifyQueue = 1
    MaxInflight = 1
    MaxNotices = 3
    MaxQuestions = 2
    MaxPages = 2
    MaxModels = 3
    PageSize = 2
    MaxRegistered = 1
    MaxLayers = 2
    MaxAudio = 3
    Buffer = 1
    MaxTexts = 3
INVARIANT AttemptsAreOrderly
INVARIANT HitsAreFreshAnswers
INVARIANT RequestsAreAccepted
INVARIANT AnswersAreWhole
INVARIANT BooksBalance
 
INVARIANT JobsAreAnswered
INVARIANT BatchIsAnswered
INVARIANT SpeechEndsAsTold
INVARIANT ClientIsTrue
INVARIANT EmbeddingsMatch
PROPERTY EvictsDeadFirst
PROPERTY HttpEnds
CHECK_DEADLOCK FALSE
