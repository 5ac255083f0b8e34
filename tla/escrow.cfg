CONSTANTS
    e1 = e1
    e2 = e2
    alice = alice
    bob = bob
    vault = vault
    Ids = {e1, e2}
    Accounts = {alice, bob}
    Vault = vault
    NoAccount = NoAccount
    Funds <- AliceHasTwo
    MaxAmount = 2
    ReleaseTimes = {0, 2}
    Windows = {0, 1}
    MaxTime = 2
    MaxU64 = 3
SPECIFICATION Spec
SYMMETRY IdSymmetry
INVARIANTS
    TypeOK
    Solvent
    ClaimsRespectTimeLock
    DisputesInWindow
    IndexesAgree
PROPERTY PromiseKept
