SPECIFICATION Spec
CONSTANTS
    SEP = SEP
    EOR = EOR
    MaxTokens = 6
    Word <- MCWord
    Received <- MCReceived
    Values <- MCValues
INVARIANTS
    TypeOK
    LookupsAgree
    ParsedAsLines
    PrintsWhatItParsed
    ActionArrives
PROPERTIES
    ParsingEnds
CHECK_DEADLOCK FALSE
