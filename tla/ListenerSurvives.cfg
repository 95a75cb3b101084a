SPECIFICATION Spec
CONSTANTS
  Client = {c1, c2}
  MaxLines <- TwoLines
SYMMETRY ClientSymmetry
INVARIANT NodeSurvivesClients
