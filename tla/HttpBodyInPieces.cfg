SPECIFICATION Spec
CONSTANTS
    Messages <- MCMessages
    ContentLength <- MCContentLength
    Pieces = {"b", "c"}
    FileSizes = {2}
    HeadSize = 3
    BufferSize = 13
    ByteSize = 13
    BodyWhole = FALSE
    HeadInTwo = TRUE
INVARIANT CompleteIsTaken
