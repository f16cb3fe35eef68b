SPECIFICATION Spec

CONSTANTS
  w1 = w1
  w2 = w2
  Workers = {w1, w2}
  Users = {"ann", "bob", "ref"}
  Scenarios <- Everyday
  Payments <- Wallet
  Events <- Deliveries
  JobOwner = "ann"
  Month = 1
  Year = 12
  PoolWords = 2
  Per100k = 2
  SignupBonus = 1
  VerifyReward = 1
  PaymentReward = 2
  MaxRewarded = 1
  FreeDailyJobs = 2
  PaidDailyJobs = 3

INVARIANTS
  TypeOK
  EarnedMatchesLedger
  RewardsAreCapped
  ActivatedIsPaid
  JobQueuedOnce
  WalletExplained
  InvitePaysItsTotal
  SubscriptionShape

SYMMETRY Symmetric

PROPERTY PeriodNeverShrinks

CHECK_DEADLOCK FALSE
