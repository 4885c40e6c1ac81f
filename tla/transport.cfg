SPECIFICATION FairSpec
CONSTANTS
    Newline = Newline
    Bad = Bad
    Bye = Bye
    PeerClosed = PeerClosed
    MaxWaits = 1
    MaxSends = 1
    MaxLines = 2
INVARIANT TypeOK
PROPERTIES
    ImplementsStreams
    Drains
CHECK_DEADLOCK FALSE
