CONSTANTS
  Parts = {"refs"}
  Pages = {2, 3, 4, 6}
  FirstNew = 6
  Chain <- TwoPages
  Contents = {"x", "y"}
  Fresh = "fresh"
  Nothing = Nothing
  NODE_CACHE_PAGES = 2
  RefsKeys <- SevenBranches
SPECIFICATION MCSpec
INVARIANT
  RefsSurviveCollection
CHECK_DEADLOCK FALSE
