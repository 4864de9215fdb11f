\* Eleven pairs of calculators, every operation on operands at the edges.
SPECIFICATION Spec
CONSTANTS
  Chosen = {"binary", "binary_i", "robust", "raw", "opcode", "opcode_i", "structured", "structured_i", "plain", "plain_i", "scanf"}
  IntBytes = 2
  Ops = {1, 2, 3, 4, 9}
  Operands <- TestOperands
  Identities <- TestIdentities
  AlteredTo = {0, 1, 255}
  JunkBytes = {0, 255}
  JunkInts = {0, 1, 7}
INVARIANTS
  ResultIsRight
  AlteredRefused
PROPERTIES
  BothEnd
CHECK_DEADLOCK FALSE
