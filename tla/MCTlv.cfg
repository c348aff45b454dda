CONSTANTS
    Base = 4
    VarintLen = 3
    MaxPayload = 10
    MaxDecodeDepth = 4
    Values <- MCValues
    MaxValues = 2
    Chunks <- MCChunks
    MaxForeign = 5
SPECIFICATION Spec
INVARIANTS DecodesWhatWasWritten DecodesToNormalForm
CHECK_DEADLOCK FALSE
