\* Archives of up to two entries over two paths (so a path may come
\* twice) of up to two bytes of two values (so a read may be cut into
\* chunks), with short reads and failures of libarchive.
CONSTANTS
    Names = {n1, n2}
    Bytes = {1, 2}
    MaxSize = 2
    MaxEntries = 2
    ShortReads = TRUE
    Failures = TRUE
SPECIFICATION FairSpec
INVARIANT TypeOK FilesHoldArchiveEntries ReadFindsEveryEntry
PROPERTY ReadFilesTerminates
CHECK_DEADLOCK FALSE
