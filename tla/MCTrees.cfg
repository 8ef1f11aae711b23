CONSTANTS
  Parts = {"batch", "tree", "refs"}
  Pages = {2, 3, 4, 6}
  FirstNew = 6
  Chain <- TwoPages
  Contents = {"x", "y"}
  Fresh = "fresh"
  Nothing = Nothing
  NODE_CACHE_PAGES = 2
  RefsKeys <- SixBranches
SPECIFICATION MCSpec
INVARIANTS
  KeptNodesAgree PagesAreHandedOutOnce
  ActsLikeAMap CommittedTreesAreFrozen
  RefsSurviveCollection
PROPERTY RollbackIsExact
CHECK_DEADLOCK FALSE
