SPECIFICATION ComputationsSpec
CONSTANTS
  leafA = leafA
  leafB = leafB
  p1 = p1
  p2 = p2
  p3 = p3
  LeafLists <- AllLists
  Hash <- Pair
  Zero = Zero
  MAX_TREE_DEPTH = 4
  Width <- Shift
  Zeros <- ZeroRoots
  Reference <- HashedTree
  OutputsOf <- Sample
  RequestSet <- SomeRequests
  Envs <- AllEnvs
  Provers <- SomeProvers
  Configured <- TwoConfigured
  FetchedLists <- SomeFetched
INVARIANTS
  ComputationsTypeOK
  RootIsReference
  PathLeadsToRoot
  RootBindsLeaves
  ReadIsCommitted
  LeafBindsRequest
  NoticeReadBack
  OpenOnlyWhenAsked
  WhitelistOnlyExtended
CHECK_DEADLOCK FALSE
