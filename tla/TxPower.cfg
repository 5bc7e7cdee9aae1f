SPECIFICATION Spec
CONSTANTS
  Levels <- MCLevels
  Broadcom = FALSE
  AiControl = TRUE
  Faults = TRUE
  CmdPowers <- MCCmdPowers
  MaxCmds = 2
PROPERTIES
  OneLevel
  NoFlapping
CHECK_DEADLOCK FALSE
