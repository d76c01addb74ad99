\* All output sizes up to one that fits no pipe, for pipes of three bytes and a buffer of
\* three.  A method that has ended stays so, and one whose output does not fit stops.
SPECIFICATION FairSpec
CONSTANTS
    PipeCapacity = 3
    BufferSize = 3
    MaxOut = 6
    MaxErr = 4
CHECK_DEADLOCK FALSE
INVARIANTS
    TypeOK
    Complete
    RoomToRead
    NeverBothWait
    EndsOnlyIfFits
PROPERTIES
    LessToDo
    Returns
