SPECIFICATION FairSpec
CONSTANTS
    Messages <- MCMessages
    ContentLength <- MCContentLength
    Pieces = {"b", "c"}
    FileSizes = {0, 2}
    HeadSize = 3
    BufferSize = 13
    ByteSize = 13
    BodyWhole = TRUE
    HeadInTwo = TRUE
INVARIANT TypeOK
INVARIANT RequestMeant
INVARIANT CompleteIsTaken
INVARIANT ResponseExact
INVARIANT MapOwned
PROPERTY RequestAnswered
