CONSTANTS
    Chars <- MC_Chars
    MaxPart = 3
    MaxParts = 2
    Limit = 5
    Keep = 3
    DigestLen = 1
SPECIFICATION Spec
INVARIANT NoDotDash
