\* Writes of accepted frequencies at both ends and inside the table, and of
\* refused ones (odd, even but not a power of two, too high).
CONSTANTS
  Freqs = {2, 3, 6, 64, 1024, 2048}
  RateBits = {6}
  IRQ_PRIM_NUM = 8
  IRQ_NUM = 15
  IRQ_SECONDARY = 2
  NUM_PIC = 2
  MS_MASK = 255

SPECIFICATION Spec
INVARIANT TypeOK
INVARIANT IdtGatesSound
PROPERTY WriteProgramsFreq
PROPERTY ReadReturns
