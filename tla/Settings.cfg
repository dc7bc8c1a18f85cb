SPECIFICATION FairSpec
CONSTANTS
  Browsers = {b1, b2}
  Commands = {k1}
  LastPath = 3
  Values = {"on", "off"}
  Default = "on"
  RestartPaths = {3}
  Overridden = {1}
  Environment = "on"
  Fallible = {2}
  Down = "down"
  Edits <- MCEdits
  CommandEdits <- MCCommandEdits
  Workloads <- MCWorkloads
  NoCaller = NoCaller
  b1 = b1
  Output = {p1, m1}
  Prompts = {p1}
  Attempts = 2
  MaxAdapters = 4
  NoMessage = NoMessage
  ChannelPath = 2
  Off = "off"
INVARIANTS
  SettingsInv
PROPERTIES
  UpdatesAreIsolated
  NoStaleSend
  EveryoneIsAnswered
CHECK_DEADLOCK FALSE
