SPECIFICATION Spec
CONSTANTS
  Texts <- TextsDef
  Keywords <- KeywordsDef
  MAX_LENGTH = 5
  MAX_COMMENT = 6
  Programs <- ProgramsDef
  MAX_ITERATIONS = 3
  LOOP_FUEL = 8
  Literals = {0, 1, 2}
  Length <- LengthDef
  PARAMETER = 7
  MAX_PASSES = 10
  FUEL = 8
CHECK_DEADLOCK FALSE
INVARIANTS
  TextKept
  OutputKept
PROPERTIES
  PassesPreserve
