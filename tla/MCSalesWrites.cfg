SPECIFICATION Spec
CONSTANTS
  s1 = s1
  s2 = s2
  d1 = d1
  d2 = d2
  q1 = q1
  q2 = q2
  q3 = q3
  one = one
  many = many
  Skus = {s1, s2}
  Days = {d1, d2}
  Posts = {q1, q2}
  PostSku <- MCPostSku
  PostDay <- MCPostDay
  Revises <- MCRevises
  Censored <- MCCensored
  Copies = 2
  Readers = {}
  Asked <- MCAsked
  Batch <- MCBatch
  Stocked = {s1}
  Catalog <- MCCatalog1
  Seedings = 1
  MaxConns = 1
  None = None
INVARIANTS
  AckedMeansStored
PROPERTIES
  ImplementsLedger
