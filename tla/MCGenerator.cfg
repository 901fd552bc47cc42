SPECIFICATION Spec
CONSTANTS
  Catalog <- MCCatalog
  Demands = {0, 1, 3}
  Days = 9
  ReplenishEvery = 3
INVARIANTS
  TypeOK
  BooksBalance
  PendingIsDue
  NeverOverstocked
PROPERTY
  StockoutsAreMarked
