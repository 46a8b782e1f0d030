CONSTANTS
  Procs = {"p", "q"}
  Cmds = {"start"}
  Polls = 1
CHECK_DEADLOCK FALSE
SPECIFICATION LockSpec
INVARIANT LockKeepsOut
