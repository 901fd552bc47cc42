SPECIFICATION Spec
CONSTANTS
  Skus = {milk, bread}
  MaxLoads = 3
SYMMETRY Symmetry
INVARIANTS
  CardsSettle
  NewestLoadShows
