CONSTANTS
    Versions = 3
    Length <- Lengths
    MaxRetries = 5
SPECIFICATION FairSpec
INVARIANTS CompleteIsWhole AcceptedIsExpected WindowIsRight StopIsHeard
PROPERTIES Ends WindowCloses
