\* The engine with the same bounds, checking the refinement: an Alt+F spawn
\* inside halt's sti..ret window (syscall.c:405-422) reuses the halting
\* child's PCB slot and kernel stack.
CONSTANTS
  MAX_PROCESSES = 3
  MAX_OPEN_FILES = 3
  NUM_TERMINALS = 2
  BYTES_4KB = 2
  BYTES_32B = 32
  NUM_MAX_FILES = 63
  Direntries <- MCDirentries
  Inodes <- MCInodes
  DataBlocks <- MCDataBlocks
  ExecNames <- MCExecNames
  OpenNames <- MCOpenNames
  Shell = "shell"
  Statuses = {0, 255}
  NBytes = {0, 2, 3}
  VidmapPtrs = {0, 64, 128, 130, 132}
  IMG_BIG_START = 128
  PAGESIZE_4MB = 4

SPECIFICATION Spec
PROPERTY ImplementsProcessTree
