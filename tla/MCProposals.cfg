SPECIFICATION DecisionsSpec
CONSTANTS
  v1 = v1  v2 = v2  v3 = v3  user = user
  c1 = c1  c2 = c2  t1 = t1  t2 = t2  l1 = l1  l2 = l2  rel0 = rel0  relA = relA  relB = relB
  None = None
  p1 = p1  p2 = p2  ta = ta  tb = tb
  People = {p1, p2}
  Texts = {ta, tb}
  MaxTexts = 3
  MaxCanon = 2
  Validators = {v1, v2}
  Accounts = {v1, v2, user}
  Payloads <- VotePayloads
  Bond = 3
  Surplus = 2
  VotingWindow = 1
  MaxPending = 2
  MaxPublic = 1
  MaxPerValidator = 1
  Releases = {rel0, relA, relB}
  Parent <- MCParent
  Genesis = rel0
  Lineages = {}
  Retention = 1
  Buffer = 1
  MaxWaiting = 1
  Chains = {c1, c2}
  Tickers = {t1, t2}
  MaxHeight = 4
  MaxProposals = 2
  LastCall = 3
SYMMETRY VoterSymmetry
INVARIANTS EnumerationsExact OpenProposalsCovered NothingOverdue
PROPERTIES DecidedByActive DecisionsFinal
