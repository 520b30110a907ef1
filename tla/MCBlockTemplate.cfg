SPECIFICATION FairSpec
CONSTANTS
  Root = "root"
  Tx <- FamilyTx
  Ins <- FamilyIns
  Fee <- FamilyFee
  FinalAt <- FamilyFinalAt
  Resources = {"weight"}
  Cost <- FamilyCost
  BlockLimit <- FamilyLimit
  TemplateLimit <- FamilyLimit
  MaxNodeEvents = 2
  MaxPoolEvents = 2
  MaxRpcFailures = 1
INVARIANT IInv
INVARIANT KeptDisjoint
INVARIANT NeverOverclaims
INVARIANT AncestorsCollected
INVARIANT KeptClosed
INVARIANT ServableProposalValid
INVARIANT ChainDecides
PROPERTY HandlerEnds
