SPECIFICATION MCSpec
CONSTANTS
  None = None
  Junk = Junk
  Scenes = {"claims", "commands", "watch", "projected", "silent", "update", "reload", "request"}
PROPERTY ServiceGetsOn
PROPERTY NodeGetsOn
CHECK_DEADLOCK FALSE
