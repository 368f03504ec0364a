SPECIFICATION Spec
CONSTANTS
    p1 = p1  reader = reader  writer = writer  spare = spare  minted = minted  operator = operator
    None = None 
    Projects = {p1}
    Credentials = {reader, writer, spare, minted, operator}
    Unissued = {minted}
    Requests = {r1, r2}
    Plans <- Asked
    Kind <- KindOf  ProjectOf <- Reaches  AccessOf <- Access
    MemoryConnections <- Memory  RegistryConnections <- Registry
    Burst = 1  SamplesPerMinute = 1  MaxSuppressed = 2
    Sealers = {r1, r2, "driver"}
    Auditors = {r1, r2}
    SealLimit = 2
    Initially <- Earlier
    InitiallySealed = 1  Elsewhere = {2}
    SignedIn = {operator}
    MaxOutside = 1
SYMMETRY Interchangeable
INVARIANTS SlotsAreAccounted AuthorityWasHeld ChangesAreOnTheRecord VerificationIsHonest
