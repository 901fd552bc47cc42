SPECIFICATION Spec
CONSTANT Sent <- MCSent
INVARIANTS
  LineMatchesWire
  BlameIsRight
  AckIffStored
  OneDocument
