SPECIFICATION Spec
CONSTANTS
  Root = "root"
  Tx <- FamilyTx
  Ins <- FamilyIns
  Fee <- FamilyFee
  FinalAt <- FamilyFinalAt
  Resources = {"weight"}
  Cost <- FamilyCost
  BlockLimit <- FamilyLimit
  TemplateLimit <- FamilyLimit
  MaxNodeEvents = 0
  MaxPoolEvents = 1
  MaxRpcFailures = 0
INVARIANT ParentsFirst
