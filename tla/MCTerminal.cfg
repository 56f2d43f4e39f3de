\* Keyboard and terminal_read: a 2-byte buffer (one write past it is
\* reachable), two terminals, every key, short and full reads.
CONSTANTS
  C = C
  TAB = TAB
  NL = NL
  ZERO = ZERO
  NUM_CHARS_KB = 2
  NUM_TERMINALS = 2
  Keys = {"char", "bs", "tab", "ctrl", "l", "alt", "enter", "f"}
  ReadSizes = {1, 2}
  MaxTyped = 3
  MaxKeys = 6
SPECIFICATION Spec
INVARIANT TypeOK
PROPERTY ReadReturnsAfterEnter
\* The system rests when the reader waits for an ENTER the user never types.
CHECK_DEADLOCK FALSE
