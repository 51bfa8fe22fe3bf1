CONSTANTS
    k1 = k1
    k2 = k2
    b1 = b1
    None = None
    BadKey = BadKey
    Zero = Zero
    Bad = Bad
    MaxAddress = MaxAddress
    Stranger = Stranger
    Keys = {k1, k2}
    Bodies = {b1}
    Nonces = {0, 1}
    ChainIds = {0, 1, 13, 14, 65}
    Foreign <- MCForeign
    IntMax = 64
    LongLimit = 512
    WordLimit = 4096
SPECIFICATION Spec
INVARIANTS
    SignatureFits
    ReportIsTrue
    CachesAreFresh
