SPECIFICATION Spec
CONSTANTS
    Null = Null
    StaticTokens = {s1}
    Lifetime = 2
INVARIANTS
    RefusalIsBrief
