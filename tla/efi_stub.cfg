\* Three runs, each broken off anywhere; an entry number with a letter,
\* another system whose label grep finds too.
SPECIFICATION StubSpec
CONSTANTS
  Numbers = {0, 1, 2, 10}
  Hex = {10}
  Foreign = {"other", "Artix-LTS"}
  Mentioning = {"Artix-LTS"}
  NoNumber = NoNumber
  MaxRuns = 3
INVARIANTS
  Repaired
  EntriesKept
