CONSTANTS
  Parts = {"cache", "counted", "handles", "tokens", "local", "fetching"}
  Threads = {r1, r2}
  Counting = {}
  CAPACITY = 2
  MaxPage = 7
  MaxTxid = 6
  Procs = {a, b}
  Scribes = {}
  Setups <- MCSetups
  MaxPages = 3
  Absent = Absent
  Garbled = Garbled
  Editors <- MCEditors
  Updates = {"p"}
  Inodes = {1, 2}
  Original <- Old
  Files <- Programs
  Served <- Releases
  RELEASE_KEY = "ours"
  Asset = "a"
  Expected = {"none", "elf"}
  MAX_REDIRECTS = 1
SPECIFICATION MCSpec
SYMMETRY Symmetry
INVARIANTS
  UncountedReads
  AcknowledgedStays SnapshotsStay
  ReloadIsCurrent
  InstalledWorks FetchedIsSigned
CHECK_DEADLOCK FALSE
