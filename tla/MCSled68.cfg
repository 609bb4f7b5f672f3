CONSTANTS
  MaxSize = 11
  ProgramWords = {1, 5}
SPECIFICATION Spec
INVARIANTS EntryFound
PROPERTY Resynchronises
CHECK_DEADLOCK FALSE
