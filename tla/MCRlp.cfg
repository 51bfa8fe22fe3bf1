SPECIFICATION Spec
CONSTANTS
    Base <- MCBase
    DataImmLenStart <- MCDataImmLenStart
    ListStart <- MCListStart
    MaxLengthBytes <- MCMaxLengthBytes
    Strings <- MCStrings
    Numbers <- MCNumbers
    ListSizes <- MCListSizes
    MaxCalls <- MCMaxCalls
    MaxOpen <- MCMaxOpen
    Inputs <- MCInputs
    Indices <- MCIndices

INVARIANT ReadsBack
INVARIANT StrictIsCanonical
 
PROPERTY LoopsEnd
