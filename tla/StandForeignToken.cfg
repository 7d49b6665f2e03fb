SPECIFICATION Spec
CONSTANTS
  mockStand = mockStand
  real = real
  t1 = t1
  preset = preset
  h1 = h1
  h2 = h2
  None = None
  Elsewhere = Elsewhere
  NoCode = NoCode
  Ids = {mockStand, real}
  Default = mockStand
  Mock = {mockStand}
  Codes = {c1}
  Tokens = {t1, preset}
  Preset = {preset}
  EnvCode = NoCode
  Handlers = {h1, h2}
  MaxAdds = 2
  MaxConfigs = 0
  MaxRestarts = 1
CHECK_DEADLOCK FALSE
SYMMETRY MCSymmetry
INVARIANTS VaultIsOwned
