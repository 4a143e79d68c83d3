SPECIFICATION DecodersSpec
CONSTANTS
    HandleLens = {0, 4}
    NameLens = {0, 1, 4}
    NameUnits = {65, 321}
    MaxName = 4
    SignBit = 128
    MaxData = 4
    MaxProbes = 39
INVARIANTS
    
    
    CommandsAreRead
