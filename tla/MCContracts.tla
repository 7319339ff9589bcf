----------------------------- MODULE MCContracts -----------------------------
(***************************************************************************)
(* The Soroban contracts on small instances.  They are deployed apart and  *)
(* share no state: a behaviour has one contract, one of Deployments, and a *)
(* run visits what all of them can do.  The escrow is this module's own    *)
(* and has its own variables; the others share those of Soroban.           *)
(***************************************************************************)
EXTENDS EscrowTimelock, FiniteSets, TLC

CONSTANTS
    alice, bob, carol,
    Deployments,        \* the contracts that a run is about
    VestingTime, GrantAmount, Schedules, MaxGrants,
    UpgradeDelay, UpgradeTime, Codes, Broken, MaxApprovers, MaxRequired,
    UpgradeApprovals,                                       \* of the proxy
    AdminCount, Quorum, Schemas,                            \* of upgradeable
    BreakerTime, LongestTimelock, VolumeWindow, Cooldown, Volumes, Thresholds,
    Baselines, Multipliers, MaxBots, MaxEntries,
    VotingTime, DefaultCredits, DefaultQuorum, Quorums, Periods, Votes, MaxIssued,
    MaxProposals,                                           \* of governance
    Deposits, MaxSigners,                                   \* of the m-of-n escrow
    BridgeTime, BridgeAmount, Messages, Silence, ReplayWindow, ReplayWindows, Ratios,
    SecondsPerLedger, CloseTimes,                           \* of the staking contract
    StakingTime, StakingAmount, StakingTiers, StakingCapacities, BaseRate, Penalty,
    SnapshotAmount, LastEpoch,
    StakeAmount, RewardTokens, StakeToken, RewardPrecision, MaxDeposit,
    FarmTime, FarmAmount, FarmRates, EpochLength, DecayNumerator, DecayDenominator,
    FarmPrecision,
    YieldAmount, YieldPrecision, YieldDeposits,
    PayoutTokens, Whole, MaxPerBatch,                       \* of the revenue distributor
    TokenTime, TokenAmount, TokenApprovals,
    PoolAmount, MinimumLiquidity, FeeNumerator, FeeDenominator, TransferFees, \* of the AMM
    SwapTime, SwapHeld, Q96, HalfQ, TickRanges, TickPrices, SwapAmounts, PriceLimits,
    MinFee, MaxFee, SwapFeeUnit, SwapWindow, VolumeThreshold, VolatilityThreshold,
    ReferralRates, GrowthPrecision, MaxVolume, MaxGross,    \* of the concentrated pool
    LoanAmount, Currencies, FeeRates, FeeUnit, MaxLoans,    \* of the flash loans
    WrapAmount, WrapperAddress, NativeAmount, BaseEntries, Caps, WrapApprovals,
    MinParticipants, MaxRounds,                             \* of the random draws
    OracleTime, OraclePrices, MinSources, Heartbeats, Deviations,   \* of the medians
    FeedTime, FeedPrices, TwapWindow, Staleness, MaxObservations, TwapWindows,
    RecordedPrices,                                         \* of the prices over time
    MaxTokens, MaxEdits, MaxOperators                       \* of the NFTs

ASSUME ProxyAssumption ==
    Nobody \notin Codes /\ UpgradeDelay \in Nat /\ MaxApprovers \in Nat

ASSUME UpgradeableAssumption ==
    AdminCount \in Nat /\ Quorum \in Nat /\ Schemas \subseteq Nat /\ 0 \in Schemas

ASSUME PauseAssumption == LongestTimelock \in Nat /\ Cooldown \in Nat

\* Everybody's balances have a sum, and the contracts' parameters are numbers, which
\* are not zero where the code divides by them.
ASSUME UsersAssumption == IsFiniteSet(Addresses) /\ Nobody \notin Addresses

ASSUME GovernanceAssumption ==
    /\ Votes \subseteq Nat /\ Periods \subseteq Nat /\ Quorums \subseteq Nat
    /\ DefaultQuorum \in Nat /\ DefaultCredits \in Nat

ASSUME VestingAssumption ==
    /\ GrantAmount \in Nat \ {0}
    /\ Schedules \subseteq [start : Nat, cliff : Nat, duration : Nat]

ASSUME StakingAssumption ==
    RewardPrecision \in Nat \ {0} /\ StakeToken \in RewardTokens

ASSUME LockAssumption ==
    /\ SecondsPerLedger \in Nat \ {0} /\ CloseTimes \subseteq Nat
    /\ StakingTiers # {}
    /\ \A tiers \in StakingTiers : \A i \in DOMAIN tiers : tiers[i].lock \in Nat

\* The farm's own address is not one of its users.
ASSUME FarmAssumption ==
    /\ "vault" \notin Addresses
    /\ FarmRates \subseteq Nat /\ DecayNumerator \in Nat /\ FarmPrecision \in Nat \ {0}
    /\ EpochLength \in Nat \ {0} /\ DecayDenominator \in Nat \ {0}

ASSUME YieldAssumption == YieldPrecision \in Nat \ {0}

ASSUME SnapshotAssumption == LastEpoch \in Nat

ASSUME RevenueAssumption == MaxPerBatch \in Nat \ {0} /\ Whole \in Nat \ {0}

ASSUME PoolAssumption ==
    /\ MinimumLiquidity \in Nat \ {0} /\ TransferFees \subseteq Nat
    /\ PoolAmount \in Nat /\ FeeNumerator \in 0 .. FeeDenominator
    /\ FeeDenominator \in Nat \ {0}

\* Prices do not fall from tick to tick, and no fee is the whole.
ASSUME SwapAssumption ==
    /\ SwapHeld \in Nat /\ Q96 \in Nat \ {0} /\ HalfQ \in Nat \ {0}
    /\ DOMAIN TickPrices \subseteq Int
    /\ \A i \in DOMAIN TickPrices : TickPrices[i] \in Nat \ {0}
    /\ \A r \in TickRanges : /\ r[1] \in DOMAIN TickPrices /\ r[2] \in DOMAIN TickPrices
                            /\ TickPrices[r[1]] <= TickPrices[r[2]]
    /\ SwapAmounts \subseteq Nat /\ PriceLimits \subseteq Nat /\ ReferralRates \subseteq Nat
    /\ MinFee \in Nat /\ MaxFee \in Nat /\ MinFee <= MaxFee /\ MaxFee < SwapFeeUnit
    /\ SwapFeeUnit \in Nat /\ GrowthPrecision \in Nat \ {0}
    /\ VolumeThreshold \in Nat \ {0} /\ VolatilityThreshold \in Nat \ {0}

ASSUME OracleAssumption ==
    /\ OraclePrices \subseteq Nat /\ MinSources \in Nat
    /\ Heartbeats \subseteq Nat /\ Deviations \subseteq Nat

ASSUME FeedAssumption ==
    /\ FeedPrices \subseteq Nat /\ TwapWindow \in Nat /\ Staleness \in Nat
    /\ TwapWindows \subseteq Nat /\ MaxObservations \in Nat \ {0}

ASSUME DrawAssumption == MaxRounds \in Nat

ASSUME LoanAssumption ==
    FeeRates \subseteq Nat /\ FeeRates # {} /\ FeeUnit \in Nat \ {0} /\ LoanAmount \in Nat

ASSUME WrapperAssumption == WrapperAddress \notin Addresses /\ NativeAmount \in Nat

ASSUME NftAssumption == MaxTokens \in Nat /\ MaxEdits \in Nat

VARIABLES contract, store, held, history        \* Soroban's, which shares now

contractVars == <<contract, store, held, now, history>>

AddressSymmetry == Permutations(Addresses)

Vesting == INSTANCE Vesting WITH MaxTime <- VestingTime, MaxAmount <- GrantAmount

Proxy == INSTANCE Proxy WITH
    MaxTime <- UpgradeTime, Delay <- UpgradeDelay, MaxApprovals <- UpgradeApprovals

Upgradeable == INSTANCE Upgradeable

Registry == INSTANCE SecurityRegistry

Breaker == INSTANCE CircuitBreaker WITH
    MaxTime <- BreakerTime, Delay <- LongestTimelock, Window <- VolumeWindow,
    Amounts <- Volumes

Governance == INSTANCE Governance WITH MaxTime <- VotingTime

Multisig == INSTANCE EscrowMultisig WITH MaxAmount <- Deposits

Bridge == INSTANCE Bridge WITH
    MaxTime <- BridgeTime, MaxAmount <- BridgeAmount, DefaultWindow <- ReplayWindow,
    Windows <- ReplayWindows

Staking == INSTANCE Staking WITH
    MaxTime <- StakingTime, MaxAmount <- StakingAmount, TierLists <- StakingTiers,
    Capacities <- StakingCapacities

Snapshot == INSTANCE SnapshotStaking WITH
    MaxAmount <- SnapshotAmount, MaxEpoch <- LastEpoch

MultiToken == INSTANCE MultiTokenStaking WITH
    MaxAmount <- StakeAmount, Tokens <- RewardTokens, Precision <- RewardPrecision

Random == INSTANCE Random

Token == INSTANCE Token WITH
    MaxTime <- TokenTime, MaxAmount <- TokenAmount, MaxApprovals <- TokenApprovals

AMM == INSTANCE AMM WITH MaxAmount <- PoolAmount

FlashLoan == INSTANCE FlashLoan WITH MaxAmount <- LoanAmount, Tokens <- Currencies

Concentrated == INSTANCE ConcentratedSwap WITH
    MaxTime <- SwapTime, MaxAmount <- SwapHeld, Ranges <- TickRanges, PriceAt <- TickPrices,
    Amounts <- SwapAmounts, Limits <- PriceLimits, FeeDenominator <- SwapFeeUnit,
    Window <- SwapWindow, Precision <- GrowthPrecision

Wrapper == INSTANCE XLMWrapper WITH
    MaxAmount <- WrapAmount, Self <- WrapperAddress, Native <- NativeAmount,
    MaxApprovals <- WrapApprovals

Farm == INSTANCE YieldFarming WITH
    MaxTime <- FarmTime, MaxAmount <- FarmAmount, Vault <- "vault", Rates <- FarmRates,
    Precision <- FarmPrecision

Yield == INSTANCE YieldDistribution WITH
    MaxAmount <- YieldAmount, Precision <- YieldPrecision, MaxDeposits <- YieldDeposits

Contracts == INSTANCE ContractRegistry WITH ContractTypes <- {"amm", "bridge"}

Medianizer == INSTANCE OracleMedianizer WITH
    MaxTime <- OracleTime, Prices <- OraclePrices, Thresholds <- Deviations

Consumer == INSTANCE OracleConsumer WITH
    MaxTime <- FeedTime, Prices <- FeedPrices, DefaultWindow <- TwapWindow,
    DefaultStaleness <- Staleness, Windows <- TwapWindows

Revenue == INSTANCE RevenueDistributor WITH
    Tokens <- PayoutTokens

NFT == INSTANCE NftMetadata

\* Grants of the runs: with and without a cliff, one that is all cliff, one of a unit.
GrantSchedules == {[start |-> s[1], cliff |-> s[2], duration |-> s[3]] :
    s \in {<<0, 0, 3>>, <<0, 2, 3>>, <<1, 1, 1>>, <<0, 1, 4>>, <<1, 3, 2>>}}

\* A longer lock has the higher multiplier.
TierChoice == {<<[lock |-> 1, multiplier |-> 1], [lock |-> 3, multiplier |-> 2]>>}

\* Positions of the runs are over three ticks.
RunRanges == {<<-1, 1>>}
RunPrices == [i \in {-1, 0, 1} |-> CASE i = -1 -> 2 [] i = 0 -> 4 [] OTHER -> 8]

Start ==
    \/ contract = "escrow" /\ store = 0 /\ held = 0 /\ history = 0
    \/ contract = "vesting" /\ Vesting!Init
    \/ contract = "proxy" /\ Proxy!Init
    \/ contract = "upgradeable" /\ Upgradeable!Init
    \/ contract = "registry" /\ Registry!Init
    \/ contract = "breaker" /\ Breaker!Init
    \/ contract = "governance" /\ Governance!Init
    \/ contract = "multisig" /\ Multisig!Init
    \/ contract = "bridge" /\ Bridge!Init
    \/ contract = "staking" /\ Staking!Init
    \/ contract = "snapshot" /\ Snapshot!Init
    \/ contract = "multistaking" /\ MultiToken!Init
    \/ contract = "random" /\ Random!Init
    \/ contract = "token" /\ Token!Init
    \/ contract = "amm" /\ AMM!Init
    \/ contract = "flash_loan" /\ FlashLoan!Init
    \/ contract = "swap" /\ Concentrated!Init
    \/ contract = "xlm_wrapper" /\ Wrapper!Init
    \/ contract = "yield_farming" /\ Farm!Init
    \/ contract = "yield" /\ Yield!Init
    \/ contract = "contract_registry" /\ Contracts!Init
    \/ contract = "medianizer" /\ Medianizer!Init
    \/ contract = "consumer" /\ Consumer!Init
    \/ contract = "revenue" /\ Revenue!Init
    \/ contract = "nft" /\ NFT!Init

ContractsInit ==
    /\ contract \in Deployments
    /\ Init /\ Start

Step ==
    \/ contract = "vesting" /\ Vesting!Next
    \/ contract = "proxy" /\ Proxy!Next
    \/ contract = "upgradeable" /\ Upgradeable!Next
    \/ contract = "registry" /\ Registry!Next
    \/ contract = "breaker" /\ Breaker!Next
    \/ contract = "governance" /\ Governance!Next
    \/ contract = "multisig" /\ Multisig!Next
    \/ contract = "bridge" /\ Bridge!Next
    \/ contract = "staking" /\ Staking!Next
    \/ contract = "snapshot" /\ Snapshot!Next
    \/ contract = "multistaking" /\ MultiToken!Next
    \/ contract = "random" /\ Random!Next
    \/ contract = "token" /\ Token!Next
    \/ contract = "amm" /\ AMM!Next
    \/ contract = "flash_loan" /\ FlashLoan!Next
    \/ contract = "swap" /\ Concentrated!Next
    \/ contract = "xlm_wrapper" /\ Wrapper!Next
    \/ contract = "yield_farming" /\ Farm!Next
    \/ contract = "yield" /\ Yield!Next
    \/ contract = "contract_registry" /\ Contracts!Next
    \/ contract = "medianizer" /\ Medianizer!Next
    \/ contract = "consumer" /\ Consumer!Next
    \/ contract = "revenue" /\ Revenue!Next
    \/ contract = "nft" /\ NFT!Next

ContractsNext ==
    \/ Step /\ UNCHANGED <<contract, details, pending, settlement, registry, paused, balance, ghosts>>
    \/ contract = "escrow" /\ Next /\ UNCHANGED <<contract, store, held, history>>

ContractsSpec == ContractsInit /\ [][ContractsNext]_<<vars, contractVars>>

------------------------------------------------------------------------------
(* Properties *)

\* Every contract keeps its storage well-formed, and what it keeps twice agrees: the
\* breaker's cheap paused flag with its tier, the registry's list with its entries.
ContractsTypeOK ==
    /\ TypeOK
    /\ contract = "vesting" => Vesting!TypeOK
    /\ contract = "proxy" => Proxy!TypeOK
    /\ contract = "upgradeable" => Upgradeable!TypeOK
    /\ contract = "registry" => Registry!TypeOK
    /\ contract = "breaker" => Breaker!TypeOK
    /\ contract = "governance" => Governance!TypeOK
    /\ contract = "multisig" => Multisig!TypeOK
    /\ contract = "bridge" => Bridge!TypeOK
    /\ contract = "staking" => Staking!TypeOK
    /\ contract = "snapshot" => Snapshot!TypeOK
    /\ contract = "multistaking" => MultiToken!TypeOK
    /\ contract = "random" => Random!TypeOK
    /\ contract = "token" => Token!TypeOK
    /\ contract = "amm" => AMM!TypeOK
    /\ contract = "flash_loan" => FlashLoan!TypeOK
    /\ contract = "swap" => Concentrated!TypeOK
    /\ contract = "xlm_wrapper" => Wrapper!TypeOK
    /\ contract = "yield_farming" => Farm!TypeOK
    /\ contract = "yield" => Yield!TypeOK
    /\ contract = "contract_registry" => Contracts!TypeOK
    /\ contract = "medianizer" => Medianizer!TypeOK
    /\ contract = "consumer" => Consumer!TypeOK
    /\ contract = "revenue" => Revenue!TypeOK
    /\ contract = "nft" => NFT!TypeOK
    /\ contract = "breaker" => Breaker!MirrorAgrees
    /\ contract = "contract_registry" => Contracts!TypesAreRegistered

\* What a contract owes it holds: grants, stakes with their rewards, balances, wrapped
\* XLM, the fee of every flash loan, and the reserves of the pool unless its tokens take
\* a fee of transfers.  And the shares of the pool add up, so that it is never emptied.
OwedIsHeld ==
    /\ contract = "vesting" => Vesting!Solvent
    /\ contract = "multistaking" => MultiToken!Covered
    /\ contract = "token" => Token!SupplyIsHeld
    /\ contract = "xlm_wrapper" => Wrapper!Redeemable
    /\ contract = "amm" => AMM!SharesAddUp /\ AMM!ReservesAreHeld
    /\ contract = "flash_loan" => FlashLoan!FeesAreEarned

\* Nobody gets what is another's or not due yet: claims before vesting, shares of an
\* epoch or of a deposit without the stake, more than a ledger emits, or a stake
\* before the longest lock agreed to; and a pass of distributions leaves nobody out.
\* Locks are served in ledgers, and end as much sooner as ledgers close sooner than every
\* five seconds; an epoch's total is less what was staked before initialize, which it forgets.
SharesAreFair ==
    /\ contract = "vesting" => Vesting!ClaimedIsVested
    /\ contract = "snapshot" => Snapshot!SharesAreOfTheEpoch
    /\ contract = "yield" => Yield!PaidFromOwnTime
    /\ contract = "yield_farming" => Farm!EmissionIsExact
    /\ contract = "staking" => Staking!LockIsServed
    /\ contract = "revenue" => Revenue!PassIsComplete

\* A vote and an allowance count once: tallies are the votes on record, as many as the
\* voter's credits pay for, and nobody spends more than was last allowed.  And an approval
\* ends with the ownership it was given by.  A proposal that initialize has written over
\* leaves its votes on record; of its id the tally is no more than the record.
CountedOnce ==
    /\ contract = "governance" =>
           /\ Governance!TallyIsVotes /\ Governance!VotesArePaid
           /\ Governance!MaxVotesIsRoot
    /\ contract = "token" => Token!SpentWithinApproval
    /\ contract = "nft" => NFT!ApprovalsEndWithOwnership

\* What nobody can do to a draw or a price: commit to a secret of a draw when another is
\* known, move the median with a minority of the listed prices, or the average over time
\* with a price that has only just arrived.  Which secrets count and which sources are
\* listed is the caller's choice: the admin's of a draw, anybody's of a median.
BlindAndRobust ==
    /\ contract = "random" => Random!SecretsWereBlind
    /\ contract = "medianizer" => Medianizer!MedianIsRobust
    /\ contract = "consumer" => Consumer!TwapIsAverage

\* New code, a new super admin and a release from the m-of-n escrow have the consent
\* the code counts, and none that was given to something else; and what a token was
\* minted to say for good has nobody's to be changed.  Who the administrators are that
\* consent to an upgrade is another matter: one of them replaces any, alone.
ChangesAreAuthorised ==
    [][/\ contract = "proxy" => Proxy!CodeIsApprovedStep
       /\ contract = "upgradeable" => Upgradeable!UpgradedByQuorumStep
       /\ contract = "registry" => Registry!BothSidesAgreeStep
       /\ contract = "multisig" => Multisig!ReleasedByQuorum'
       /\ contract = "nft" => NFT!ImmutableStaysStep]_contractVars

\* Once it has an admin, and short of the emergency unpause, the breaker opens the
\* protocol only after its time lock and never in a cooldown; a message of the bridge is
\* refused for the whole replay window; and the bridge opens to everybody only after
\* the relayer's silence, for the admin too.
NothingBeforeItsTime ==
    [][/\ contract = "breaker" => Breaker!ReopensInTimeStep /\ Breaker!CooldownHoldsStep
       /\ contract = "bridge" => Bridge!NotReplayedStep /\ Bridge!EmergencyAfterSilenceStep
      ]_contractVars

\* What has vested, was decided by vote or earned as a reward is not taken back; a vote
\* is one on an id that the counter has given out, which initialize starts again.
NothingIsTakenBack ==
    [][/\ contract = "vesting" => Vesting!VestedStaysStep
       /\ contract = "governance" => Governance!DecidedStaysStep
       /\ contract = "multistaking" => MultiToken!EarnedStaysStep]_contractVars

\* Integer division never favours the caller: what a share of a pool or vault is worth
\* does not fall, and what comes in pays for the whole move along the curve.
RoundingKeepsThePool ==
    [][/\ contract = "amm" => AMM!ShareValueNeverFallsStep
       /\ contract = "swap" => Concentrated!CurveIsKeptStep
       /\ contract = "yield_farming" => Farm!VaultShareNeverFallsStep]_contractVars

InProxy(value) == IF contract = "proxy" THEN value ELSE Nobody
ProxyTime(time) == IF contract = "proxy" THEN time ELSE 0
ImplementationLock == INSTANCE TimelockedChange WITH
    None <- Nobody, Delay <- UpgradeDelay, clock <- ProxyTime(now),
    value <- InProxy(store.implementation),
    proposed <- InProxy(store.pendingImplementation),
    notBefore <- ProxyTime(store.implementationUnlocksAt)
CodeLock == INSTANCE TimelockedChange WITH
    None <- Nobody, Delay <- UpgradeDelay, clock <- ProxyTime(now),
    value <- InProxy(history.code), proposed <- InProxy(store.pendingWasm),
    notBefore <- ProxyTime(store.unlocksAt)

\* The proxy's implementation changes as TimelockedChange says, only to what stood
\* proposed for the whole delay, and so does the code of the proxy itself.
UpgradesAreTimelocked == ImplementationLock!Spec /\ CodeLock!Spec

------------------------------------------------------------------------------
(* What a comment says and the code does not do *)

\* proxy/lib.rs:29 calls the approvals a 2-of-N multi-signature.
ApproversAreDistinct == [][contract = "proxy" => Proxy!ApproversAreDistinctStep]_contractVars

\* amm/lib.rs:124, staking/lib.rs:19, staking/snapshot.rs:215, random/lib.rs:340 and
\* upgradeable/lib.rs:431, see the modules.
ReservesAreNotInflated == contract = "amm" => AMM!ReservesAreNotInflated
TotalIsSum == contract = "staking" => Staking!TotalIsSum
BalanceAtIsRecorded == contract = "snapshot" => Snapshot!BalanceAtIsRecorded
SeedHashesAll == contract = "random" => Random!SeedHashesAll
ReplacedByQuorum == [][contract = "upgradeable" => Upgradeable!ReplacedByQuorumStep]_contractVars
==============================================================================
