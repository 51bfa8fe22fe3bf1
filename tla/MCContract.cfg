SPECIFICATION Spec
CONSTANTS
    Interfaces <- MCInterfaces
    Arguments <- MCArguments
    MaxParams = 2
    Errors <- MCErrors
    Missing = Missing
INVARIANTS
    TailsAreFound
    AnswerDecodes
    SelectorIsDeclared
    
