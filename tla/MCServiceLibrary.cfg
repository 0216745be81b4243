CONSTANTS
    None = None
    NoValue = NoValue
    Malformed = Malformed
    TooLarge = TooLarge
    SizeLimit = 256
    Scripts <- SampleScripts
    KeepAliveMax = 2
    PayloadMax = 3
    AnswerBody <- SampleAnswer
    t1 = t1
    t2 = t2
    var = var
    label = label
    datum = datum
    Var <- Variables
    Label <- Labels
    Datum <- Numbers
    Cell <- Cells
    MaxLost = 1
    MaxKids = 2
    MaxDepth = 2
    Key <- Keys
    Value <- Data
    NullValue = Nil
    EscapeKey <- Plain
    LastDigit = 2
    MaxTag = 3
    Thread <- Threads
    Level <- Levels
    MaxCalls = 2
    MaxClock = 1
SPECIFICATION Spec
INVARIANTS
    ReadAsMeant
    ReaderStopsRight
    CellsAreOwned
    LinesIntact
    InStep
    AnswersComplete
    FormReadsBack
    RangesServed
    TextsConverted
    PathStaysInside
PROPERTIES
    RefinesInsertionOrder
    RefinesValues
    CallsReturn
CHECK_DEADLOCK FALSE
