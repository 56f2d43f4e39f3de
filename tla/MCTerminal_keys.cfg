\* Every key on two terminals with a 2-byte buffer: the TAB hole, a key
\* past the buffer, a switch and back, and a key typed while a read copies
\* each lose typed text; TLC reports the shortest of these.
CONSTANTS
  C = C
  TAB = TAB
  NL = NL
  ZERO = ZERO
  NUM_CHARS_KB = 2
  NUM_TERMINALS = 2
  Keys = {"char", "bs", "tab", "ctrl", "l", "alt", "enter", "f"}
  ReadSizes = {1, 2}
  MaxTyped = 3
  MaxKeys = 6
SPECIFICATION Spec
INVARIANT TypedTextKept
\* The system rests when the reader waits for an ENTER the user never types.
CHECK_DEADLOCK FALSE
