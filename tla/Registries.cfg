SPECIFICATION RegistriesSpec
CONSTANTS
  n1 = n1
  n2 = n2
  k0 = k0
  k1 = k1
  k2 = k2
  Nameless = Nameless
  Names = {n1, n2, Nameless}
  Codes = {k0, k1, k2}
  CodeOf <- Rows
  Gets = {g1, g2, g3, g4}
  Given = Given
  NoCodec = NoCodec
  BaseNames = {n1, n2}
  Prefixes = {k1, k2}
  PrefixOf <- PrefixRows
  BaseGets = {h1, h2, h3}
  Caller = Caller
  NoBase = NoBase
SYMMETRY Symmetry
INVARIANTS TypesOK TablesAgree
PROPERTIES GetServed BasesKept OneRegistry
CHECK_DEADLOCK FALSE
