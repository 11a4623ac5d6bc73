\* A 0 from archive_read_data before the end of an entry.
CONSTANTS
    Names = {n1, n2}
    Bytes = {1, 2}
    MaxSize = 2
    MaxEntries = 2
    ShortReads = TRUE
    Failures = TRUE
SPECIFICATION FairSpec
INVARIANT NoSilentLoss
CHECK_DEADLOCK FALSE
