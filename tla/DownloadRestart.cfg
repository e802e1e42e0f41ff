CONSTANTS
    Versions = 1
    Length <- Lengths
    MaxRetries = 2
SPECIFICATION Spec
PROPERTY RestartsFromScratch
