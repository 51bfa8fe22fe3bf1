SPECIFICATION Spec
CONSTANTS
    a1 = a1
    a2 = a2
    p1 = p1
    p2 = p2
    none = none
    absent = absent
    blank = blank
    Accounts <- MCAccounts
    Default <- a1
    Passwords <- MCPasswords
    NoPassword <- none
    Absent <- absent
    Blank <- blank
    MaxListed <- MCMaxListed
PROPERTY EveryCallReturns
