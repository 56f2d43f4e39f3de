\* rtc_write of a frequency the RTC accepts.
CONSTANTS
  Freqs = {2, 64}
  RateBits = {6}
  IRQ_PRIM_NUM = 8
  IRQ_NUM = 15
  IRQ_SECONDARY = 2
  NUM_PIC = 2
  MS_MASK = 255

SPECIFICATION Spec
PROPERTY WriteReportsSuccess
