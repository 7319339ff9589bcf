SPECIFICATION ContractsSpec
CONSTANTS
    alice = alice
    bob = bob
    carol = carol
    Nobody = Nobody
    Addresses = {alice, bob, carol}
    Delay = 1
    MaxTime = 3
    MaxAmount = 1
    Deployments = {"escrow", "vesting", "proxy", "upgradeable", "registry", "breaker", "governance", "multisig", "bridge", "staking", "snapshot", "multistaking", "random", "token", "amm", "flash_loan", "swap", "xlm_wrapper", "yield_farming", "yield", "contract_registry", "medianizer", "consumer", "revenue", "nft"}
    VestingTime = 4
    GrantAmount = 5
    Schedules <- GrantSchedules
    MaxGrants = 2
    UpgradeDelay = 2
    UpgradeTime = 3
    Codes = {"v1", "v2", "bad"}
    Broken = "bad"
    MaxApprovers = 2
    MaxRequired = 2
    UpgradeApprovals = 2
    AdminCount = 3
    Quorum = 3
    Schemas = {0, 1, 2}
    BreakerTime = 3
    LongestTimelock = 2
    VolumeWindow = 1
    Cooldown = 2
    Volumes = {2}
    Thresholds = {3}
    Baselines = {1}
    Multipliers = {3}
    MaxBots = 1
    MaxEntries = 2
    VotingTime = 1
    DefaultCredits = 4
    DefaultQuorum = 2
    Quorums = {5}
    Periods = {1}
    Votes = {1, 2}
    MaxIssued = 1
    MaxProposals = 1
    Deposits = 2
    MaxSigners = 3
    BridgeTime = 4
    BridgeAmount = 1
    Messages = {"m", "n"}
    Silence = 2
    ReplayWindow = 2
    ReplayWindows = {1}
    Ratios = {50, 100}
    SecondsPerLedger = 2
    CloseTimes = {1, 3}
    StakingTime = 4
    StakingAmount = 2
    StakingTiers <- TierChoice
    StakingCapacities = {4}
    BaseRate = 1
    Penalty = 50
    SnapshotAmount = 2
    LastEpoch = 2
    StakeAmount = 2
    FarmTime = 2
    FarmAmount = 3
    FarmRates = {2}
    EpochLength = 1
    DecayNumerator = 1
    DecayDenominator = 2
    FarmPrecision = 1
    YieldAmount = 3
    YieldPrecision = 2
    YieldDeposits = 2
    PayoutTokens = {"x", "y"}
    Whole = 2
    MaxPerBatch = 1
    RewardTokens = {"stake", "gift"}
    StakeToken = "stake"
    RewardPrecision = 3
    MaxDeposit = 1
    TokenTime = 2
    TokenAmount = 2
    TokenApprovals = 2
    PoolAmount = 6
    MinimumLiquidity = 1
    FeeNumerator = 9
    FeeDenominator = 10
    TransferFees = {0, 1}
    LoanAmount = 2
    Currencies = {"x", "y"}
    FeeRates = {1, 2}
    FeeUnit = 2
    MaxLoans = 1
    WrapAmount = 2
    WrapperAddress = "wrapper"
    NativeAmount = 2
    BaseEntries = 1
    Caps = {0, 1}
    WrapApprovals = 1
    SwapTime = 1
    SwapHeld = 8
    Q96 = 4
    HalfQ = 2
    TickRanges <- RunRanges
    TickPrices <- RunPrices
    SwapAmounts = {4}
    PriceLimits = {2, 8}
    MinFee = 1
    MaxFee = 2
    SwapFeeUnit = 4
    SwapWindow = 1
    VolumeThreshold = 4
    VolatilityThreshold = 4
    ReferralRates = {3}
    GrowthPrecision = 2
    MaxVolume = 6
    MaxGross = 4
    MinParticipants = 2
    MaxRounds = 2
    OracleTime = 1
    OraclePrices = {1, 4}
    MinSources = 2
    Heartbeats = {0}
    Deviations = {50}
    FeedTime = 3
    FeedPrices = {1, 4}
    TwapWindow = 2
    Staleness = 1
    MaxObservations = 2
    TwapWindows = {1}
    RecordedPrices = {1}
    MaxTokens = 2
    MaxEdits = 1
    MaxOperators = 1
SYMMETRY AddressSymmetry
INVARIANTS
    ContractsTypeOK
    OnePayee
    OwedIsHeld
    SharesAreFair
    CountedOnce
    BlindAndRobust
PROPERTIES
    SettledIsFrozen
    ChangeHasWaited
    UpgradesAreTimelocked
    
    NothingBeforeItsTime
    NothingIsTakenBack
    RoundingKeepsThePool
CHECK_DEADLOCK FALSE
