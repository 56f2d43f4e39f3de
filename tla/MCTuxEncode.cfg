\* Every hex digit in every position under masks that turn each display
\* and each decimal point on and off, and every button packet.
CONSTANTS
  LedArgs <- MCLedArgs
  Packets <- MCPackets
  LED_SET = LED_SET

SPECIFICATION Spec
\* The driver encodes one argument or packet per behaviour.
CHECK_DEADLOCK FALSE
INVARIANT LedFrameLayout
INVARIANT ButtonLayout
