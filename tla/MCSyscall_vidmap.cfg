\* The engine as in MCSyscall.cfg, checking that the user video page is
\* unmapped once the process that asked for it halts.
CONSTANTS
  MAX_PROCESSES = 3
  MAX_OPEN_FILES = 3
  NUM_TERMINALS = 2
  BYTES_4KB = 2
  BYTES_32B = 32
  NUM_MAX_FILES = 63
  Direntries <- MCDirentries
  Inodes <- MCInodes
  DataBlocks <- MCDataBlocks
  ExecNames <- MCExecNames
  OpenNames <- MCOpenNames
  Shell = "shell"
  Statuses = {0, 255}
  NBytes = {0, 2, 3}
  VidmapPtrs = {0, 64, 128, 130, 132}
  IMG_BIG_START = 128
  PAGESIZE_4MB = 4
SPECIFICATION Spec
INVARIANT VidmapOwned
