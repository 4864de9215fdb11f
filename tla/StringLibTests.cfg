\* What astr_test.c asks of astrcmp for a string that begins the other.
SPECIFICATION Spec
CONSTANTS
  Char = {"a", "b"}
  NUL = "nul"
  Behind = "behind"
  Size = 5
  Words <- TestWords
  Counts = {0, 1, 3}
INVARIANTS
  PrefixDiffers
