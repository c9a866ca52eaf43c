SPECIFICATION Spec
CONSTANTS
  Value = {1, 2}
  Nothing = Nothing
  MaxIndex = 5
INVARIANTS WindowExact
PROPERTIES IsFifo
