SPECIFICATION MCSpec
CONSTANTS
  None = None
  n1 = n1
  n2 = n2
  h1 = h1
  h2 = h2
  v1 = v1
  v2 = v2
  Turns <- MCTurns
  Workloads <- MCWorkloads
  Proposals <- MCProposals
  IdRank <- MCIdRank
  Campaigns <- MCCampaigns
  Matrices <- MCMatrices
  Requests <- MCRequests
  MaxAge = 2
  MaxHealthAge = 2
  MinQuality = 6
  MaxPriority = 2
  Corpora <- MCSplitCorpora
  SplitRequests <- MCSplitRequests
  PlanRequests <- MCPlanRequests
  CardRank <- MCCardRank
  MarketCalls <- MCMarketCalls
  VenueRank <- MCVenueRank
  FixedClosures <- MCClosures
CHECK_DEADLOCK FALSE
INVARIANT
  NeverRescuesARefusal
