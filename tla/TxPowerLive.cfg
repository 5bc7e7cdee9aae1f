SPECIFICATION FairSpec
CONSTANTS
  Levels <- MCLevels
  Broadcom = TRUE
  AiControl = TRUE
  Faults = FALSE
  CmdPowers <- MCCmdPowers
  MaxCmds = 2
PROPERTIES
  FollowsTraffic
CHECK_DEADLOCK FALSE
