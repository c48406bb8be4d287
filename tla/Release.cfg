\* Two publishers of the same release, killed or with a loss of power; or one
\* publisher and another actor that changes trees and names.
SPECIFICATION FairSpec
CONSTANTS
  p1 = p1  p2 = p2
  Publishers = {p1, p2}
  NoOne = NoOne
  Stranger = Stranger
  Size = 3
  Depth = 1
  Holder <- SmallTree
  Settings <- RivalsOrMeddled
CHECK_DEADLOCK FALSE
INVARIANTS SurvivesPowerLoss ResultsAreTruthful
PROPERTIES ImplementsNamespace StrangersArePreserved Terminates
