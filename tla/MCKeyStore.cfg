SPECIFICATION Spec
CONSTANTS
    u1 = u1
    u2 = u2
    a1 = a1
    p1 = p1
    p2 = p2
    zero = zero
    unknown = unknown
    nothing = nothing
    torn = torn
    Uuids <- MCUuids
    Addresses <- MCAddresses
    Passwords <- MCPasswords
    Zero <- zero
    Unknown <- unknown
    Nothing <- nothing
    Torn <- torn
    MaxFaults <- MCMaxFaults
SYMMETRY Symmetric
INVARIANTS  KeysAreSynced IndexOpens  HashesRecognised
