SPECIFICATION LiveSpec
CONSTANTS
  Conns <- TwoConns
  MaxOpen = 4
  Depth = 2
INVARIANTS
  TypeOK
  HandlesOwned
  CallbacksOfLinked
  SettingsKept
PROPERTIES
  Released
