\* Two commands over what the first one left.
SPECIFICATION Spec
CONSTANTS
  None = None
  Hosts <- MCHosts
  Configs <- MCConfigs
  Daemon <- MCDaemon
  MaxCommands = 2
  MaxFaults = 1
  MaxKills = 1
  MaxCrashes = 1
INVARIANTS
  KeysAccounted
  ReadyIsSound
  DownIsThorough
\* The operator runs no further command.
CHECK_DEADLOCK FALSE
