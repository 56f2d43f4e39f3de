\* Commands of up to four characters over {a, b, blank}; pcb->args scaled
\* to 2 bytes and the command limit to 4 so both limits are reached.
CONSTANTS
  Chars = {"a", "b"}
  Space = " "
  NUL = NUL
  Stray = Stray
  MaxLen = 4
  NUM_CHARS_KB = 4
  BYTES_32B = 2
  Programs <- MCPrograms
  StackJunk <- MCStackJunk
  NBytes = {0, 2, 4}
  Beyond = {NUL, Stray}

SPECIFICATION Spec
\* A behaviour ends once execute has split its command and the program has
\* read its arguments.
CHECK_DEADLOCK FALSE
INVARIANT TypeOK
INVARIANT NameIsFirstToken
