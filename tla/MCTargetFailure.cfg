SPECIFICATION Spec
CONSTANTS
  v1 = v1  v2 = v2  v3 = v3  user = user
  c1 = c1  c2 = c2  t1 = t1  t2 = t2  l1 = l1  l2 = l2  rel0 = rel0  relA = relA  relB = relB
  None = None
  Validators = {v1}
  Accounts = {v1}
  Payloads <- UpdatePayloads
  Bond = 3
  Surplus = 2
  VotingWindow = 0
  MaxPending = 3
  MaxPublic = 1
  MaxPerValidator = 3
  Releases = {rel0, relA, relB}
  Parent <- MCParent
  Genesis = rel0
  Lineages = {}
  Retention = 1
  Buffer = 1
  MaxWaiting = 2
  Chains = {}
  Tickers = {}
  MaxHeight = 7
  MaxProposals = 2
  LastCall = 5
INVARIANT TargetFailureEndsProposal
