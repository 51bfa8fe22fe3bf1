SPECIFICATION Spec
CONSTANTS
    t1 = t1
    t2 = t2
    Threads = {t1, t2}
    Providers = {p1, p2}
    Errors = {e1}
    CallsOf <- MCCallsOf
    DefaultBlock <- Latest
    Mixed = Mixed
    None = None
INVARIANTS
    PostsToOneProvider
    
    
