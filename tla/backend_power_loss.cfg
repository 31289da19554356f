CONSTANTS
  root = root
  packsDir = packsDir
  config = config
  pack1 = pack1
  pack2 = pack2
  Name = {config, pack1}
  Dir = {root, packsDir}
  Root = root
  DirOf <- InDirs
  Durable = {}
  Value = {v1, v2}
  Process = {w1, w2}
  NoBlob = NoBlob
  Torn = Torn
SPECIFICATION Spec
SYMMETRY Symmetry
INVARIANT AcknowledgedSurvives
PROPERTY StoreContract
