SPECIFICATION MCSpec
CONSTANTS
  c1 = c1
  c2 = c2
  w1 = w1
  w2 = w2
  Scenes = {"serving", "failover", "refresh", "purge", "replace", "restart"}
PROPERTY OneResponseEach
PROPERTY PurgedStaysPurged
SYMMETRY Alike
CHECK_DEADLOCK FALSE
