SPECIFICATION Spec
CONSTANTS
  Events <- Ordinary
  MaxEvents = 2
INVARIANTS
  ReplayReproducesRow
