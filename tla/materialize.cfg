\* Two processes under two pids, two calls, two troubles: overlaps, crashes, failing
\* file-system calls, a command that fails, writes nothing or hangs.
SPECIFICATION Spec
CONSTANTS
  p1 = p1  p2 = p2  old = old  new = new
  NoFile = NoFile  NoDir = NoDir
  Procs = {p1, p2}
  Pids = {1, 2}
  Existing = {old}
  Proposals = {new}
  Strategies = {"filesystem", "command"}
  First <- SpecsFirstOrLast
  MaxCalls = 2
  MaxTroubles = 2
PROPERTIES
  RefinesSwap
  NothingIsLost
  ReturnsWhatStands
  EveryCallReturns
CHECK_DEADLOCK FALSE
