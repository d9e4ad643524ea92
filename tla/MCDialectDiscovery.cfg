SPECIFICATION Spec
CONSTANTS
  Readers = {beat, user}
  Writers = {set}
  Tvs <- MCTvs
  MaxSessions = 2
SYMMETRY ReaderSymmetry
CHECK_DEADLOCK FALSE
INVARIANTS DialectsAreTrue SilenceRetiresItsOwn AnsweringTvKeepsSession RoutedByProof
