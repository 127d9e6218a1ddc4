SPECIFICATION UnpackSpec
CONSTANTS
    MaxPieces = 3
    MaxPath = 4
    MaxMillis = 9
    MaxText = 4
    MaxInside = 4
    MaxSegment = 5
    Hour = 4
    Queries <- MCQueries
    Chars <- MCChars
    Statements <- MCStatements
    Segments <- MCSegments
INVARIANTS BindingsKept StripKeepsCode MillisKept PrecisionKept PathsAgree UnpackEnds LiteralsEndRight OrdinalsRight
CHECK_DEADLOCK FALSE
