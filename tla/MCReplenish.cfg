SPECIFICATION Spec
CONSTANTS
  Scale = 2
  Products <- MCProducts
  Signals <- MCSignals
INVARIANTS
  VendorAccepts
  AuditTrail
  CoversNeed
  NoExcess
  CeilingUnlessMinimum
