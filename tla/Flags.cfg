SPECIFICATION FlagsSpec
CONSTANT MaxEvents = 4
INVARIANTS
  ClearsAccounted
