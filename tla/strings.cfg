CONSTANTS
  mem = mem
  ts1 = ts1
  ts2 = ts2
  ts3 = ts3
  TString = {mem, ts1, ts2, ts3}
  memerrmsg = mem
  MEMERRMSG = "not enough memory"
  Text = {"not enough memory", "a", "b", "c", "long"}
  Long = {"long"}
  luaS_hash <- HashOf
  Row = {"r1"}
  STRCACHE_M = 2
  MINSTRTABSIZE = 2
  MAX_INT = 8
SYMMETRY Addresses
SPECIFICATION Spec
INVARIANTS InBucket CacheAlive LoopRehashes
PROPERTIES ImplementsPool
