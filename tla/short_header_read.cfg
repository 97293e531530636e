\* One download of a two-packet share file over a TCP stream that may
\* split the server's writes anywhere.
CONSTANTS
    Radix = 4
    IntWidth = 2
    UserId = 1
    Name <- MCName
    Packets <- MCPackets
SPECIFICATION Spec
PROPERTY DownloadEnds
\* The download ends: the session closes and the client stops.
CHECK_DEADLOCK FALSE
