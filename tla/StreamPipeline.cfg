SPECIFICATION Spec
CONSTANTS
    Depth = 2
    NChunks = 5
    BufferSize = 1
CHECK_DEADLOCK FALSE
INVARIANTS InOrderThenOneTerminal InnerStagesEndTheirStream SuccessIsComplete NoSilentClose
PROPERTIES KeepsContract AllStop
