SPECIFICATION FairSpec
CONSTANTS
    Streams <- ClientStreams
    READ_BUFFER_SIZE = 13
    HeaderSize = 3
    PageSize = 3
    FileSizes = {0, 1, 2}
    Addresses = {1, 2}
    MAP_FAILED <- MapFailed
    MaxConns = 2
INVARIANTS TypeOK ParsedAsWhole MappingsAccounted
PROPERTIES DeliversInOrder HandlersEnd
CHECK_DEADLOCK FALSE
