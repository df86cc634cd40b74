SPECIFICATION StoreSpec
CONSTANTS
  Validators <- mc_Validators
  Strangers <- mc_Strangers
  Founders <- mc_Founders
  Successors <- mc_Successors
  Kinds = {"transfer", "refund"}
  Tokens = {"t1", "t2"}
  Pairs = {"p1", "p2"}
  Transfers <- mc_Transfers
  Sessions = {"s1", "s2"}
  Deployments <- mc_Deployments
  Policies <- mc_Policies
  MaxEdits = 2
  MAX_SIGNATURES_PER_SUBMISSION = 3
PROPERTIES BucketIsSound AllowlistsHold HonestQuorumIsAccepted
CHECK_DEADLOCK FALSE
