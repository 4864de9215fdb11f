\* Any sequence of calls on an array of five characters.
SPECIFICATION Spec
CONSTANTS
  Char = {"a", "b"}
  NUL = "nul"
  Behind = "behind"
  Size = 5
  Words <- TestWords
  Counts = {0, 1, 3}
INVARIANTS
  TypeOK
  StringsRight
  ComparesRight
