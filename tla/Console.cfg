SPECIFICATION Spec
CONSTANTS
    f1 = f1
    f2 = f2
    x = x
    Fds <- TwoFds
    Nobody = Nobody
    Printable <- OneCharacter
    Accounts <- OneAccount
    Quit <- QuitLine
    MaxFailed = 1
    SkipGuard = 3
    MaxLine = 2
SYMMETRY Symmetry
INVARIANTS
    TypeOK
    OneEntryEach
    NegotiationsAreSkipped
 
