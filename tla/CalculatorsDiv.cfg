\* The two pairs of texts with opcodes, and the four opcodes of the README.
SPECIFICATION Spec
CONSTANTS
  Chosen = {"opcode", "opcode_i"}
  IntBytes = 2
  Ops = {1, 2, 3, 4}
  Operands <- TestOperands
  Identities <- TestIdentities
  AlteredTo = {0, 1, 255}
  JunkBytes = {0, 255}
  JunkInts = {0, 1, 7}
INVARIANTS
  DocumentedOpcodesServed
CHECK_DEADLOCK FALSE
