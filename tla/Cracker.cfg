SPECIFICATION FairSpec
CONSTANTS
    thread_count = 3
    MaxPasswords = 2
    MaxLines = 2
INVARIANTS EachLineOnce OwnIds SplitAlone
PROPERTIES AllJoined
CHECK_DEADLOCK FALSE
