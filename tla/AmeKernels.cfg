SPECIFICATION KernelsSpec
CONSTANTS
  shapes <- MCshapes
  tile_sets <- MCtile_sets
  bf16_tile_k = 1
  f16_shape <- MCf16_shape
  MAXM = 4
  MAXN = 4
  MAXK = 6
  Capacities = {0, 4}
  MaxFaults = 2
INVARIANTS
  TilesMatchReference
  VerdictCountsFaults
CHECK_DEADLOCK FALSE
