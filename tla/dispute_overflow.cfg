CONSTANTS
    e1 = e1
    e2 = e2
    alice = alice
    bob = bob
    vault = vault
    Ids = {e1}
    Accounts = {alice, bob}
    Vault = vault
    NoAccount = NoAccount
    Funds <- AliceHasTwo
    MaxAmount = 1
    ReleaseTimes = {0}
    Windows = {0, 3}
    MaxTime = 2
    MaxU64 = 3
SPECIFICATION Spec
CHECK_DEADLOCK FALSE
INVARIANT DisputeCanBeRaised
