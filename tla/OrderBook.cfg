CONSTANTS
  Exchanges = {a, b}
  Prices = {1, 2, 3}
  Quantities = {0, 1, 2}
  Updates <- SomeUpdates
  None = None
  MaxUpdates = 4
SPECIFICATION Spec
INVARIANTS
  SidesWereShown
  ExactWhenQuiet
