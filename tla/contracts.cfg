CONSTANTS
    alice = alice   bob = bob   usd = usd   xlm = xlm
    gold = gold     flex = flex free = free pro = pro
    ann = ann       ben = ben   cas = cas

    Accounts = {alice, bob}
    Vault = vault
    NoAccount = NoAccount
    Coins = {usd, xlm}
    Funds <- TestFunds
    MaxTime = 5
    MaxU128 = 7

    Workspaces = {"w1", "w2"}
    BookingIds = {b1, b2}
    PaymentToken = usd
    Rates = {1, 3}
    Slots = {0, 1, 3}
    Hour = 2
    NoWorkspace = NoWorkspace

    CreditAmounts = {1, 2}
    ExpiryTimes = {1, 2}
    MaxDated = 3

    StakingConfigs <- TestStakingConfigs
    StakingTiers = {gold, flex}
    TierOf <- TestStakingTiers
    StakeAmounts = {1, 2}
    Bps = 2
    Year = 2
    MaxStake = 3

    Tokens = {"t1", "t2"}
    TransferPeriod = 1
    PauseLengths = {1}
    Splits <- TestSplits
    ShareAmounts = {1, 2, 3, 4}
    AllowanceAmounts = {1}
    Dividends = {1, 3}
    MaxDividends = 4
    Keys = {k1}
    Values = {v1, v2}
    NoValue = NoValue
    MaxMetadata = 2

    RenewalConfigs <- TestRenewalConfigs
    UpgradeConfigs <- TestUpgradeConfigs
    Month = 1
    Annual = 2
    GivenDates = {1, 2}
    GivenStatuses = {"other"}
    MaxExpiry = 3
    MaxVersion = 2

    Subs = {"s1", "s2"}
    Durations = {1, 2}
    PauseConfigs <- TestPauseConfigs
    MaxPauses = 2
    Tiers = {free, pro}
    NoTier = NoTier
    Rank <- TestRank
    Promos = {p1, p2}
    PromoTerms <- TestTerms
    Cycle = 1

    Officers = {ann, ben, cas}
    ProposalActions <- TestActions
    Boards <- TestBoards
    LockTime = 1
    ExpiryTime = 1
    PendingLimit = 2
    MaxProposals = 2
SPECIFICATION ContractsSpec
INVARIANTS
    ContractsTypeOK RefundsCovered CreditsAddUp StakesBacked FractionsAddUp
    IndexAgrees TimeAccounted SubscribersCounted BoardCanAct
PROPERTIES
    CalendarKept OwnershipGuarded MembershipsKept OnlyProposalsDecide
CHECK_DEADLOCK FALSE
