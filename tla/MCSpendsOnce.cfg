SPECIFICATION Spec
CONSTANTS
  Root = "root"
  Tx <- PairTx
  Ins <- PairIns
  Fee <- PairFee
  FinalAt <- PairFinalAt
  Resources = {"weight"}
  Cost <- PairCost
  BlockLimit <- PairLimit
  TemplateLimit <- PairLimit
  MaxNodeEvents = 1
  MaxPoolEvents = 2
  MaxRpcFailures = 0
INVARIANT SpendsOnce
