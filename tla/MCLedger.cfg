SPECIFICATION Spec
CONSTANTS
    i0 = i0
    i1 = i1
    m0 = m0
    m1 = m1
    m7 = m7
    m14 = m14
    Indices = {i0, i1}
    Default <- MCDefault
    PathSize <- MCPathSize
    Messages = {m0, m1, m7, m14}
    LengthOf <- MCLengthOf
    FirstRoom = 4
    SecondRoom = 2
    ThirdRoom = 2
    LengthSize = 1
    Calls <- MCCalls
    None = None
    Garbage = Garbage
    MaxStale = 1
INVARIANTS
    AsksWhatWasPassed
    SignatureIsGenuine
    AccountsAreTrue
PROPERTY CallsEnd
