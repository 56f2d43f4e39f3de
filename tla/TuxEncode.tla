------------------------------ MODULE TuxEncode ------------------------------
(***************************************************************************)
(* The two byte encodings of the tux-controller driver (mp2 tuxctl-ioctl.c) *)
(* that a unit test would check one value at a time and TLC checks for     *)
(* every value of a bounded domain:                                        *)
(*  - tux_set_led / hex_num_to_byte: the TUX_SET_LED argument (bits 15:0   *)
(*    four hex digits, 19:16 which displays are on, 27:24 decimal points)  *)
(*    becomes the six-byte MTCP_LED_SET command;                           *)
(*  - the MTCP_BIOC_EVENT case of tuxctl_handle_packet: the two button     *)
(*    bytes of the packet become button_val, [right left down up C B A     *)
(*    START] from bit 7 down.                                              *)
(***************************************************************************)
EXTENDS Integers, Sequences, Bitwise

CONSTANTS
  LedArgs,      \* TUX_SET_LED arguments enumerated
  Packets,      \* [b, c]: bytes 1 and 2 of MTCP_BIOC_EVENT packets
  LED_SET       \* the MTCP_LED_SET opcode

VARIABLES
  input,        \* [kind |-> "led", arg] or [kind |-> "button", b, c]
  out           \* the bytes the driver produced, <<>> before the call

vars == <<input, out>>

ShiftL(x, n) == x * 2 ^ n

\* SS0 .. SSF: the seven-segment byte of each hex digit (lines 59-74).
DisplayBytes ==
  <<\hE7, \h06, \hCB, \h8F, \h2E, \hAD, \hED, \h86,
    \hEF, \hAF, \hEE, \h6D, \hE1, \h4F, \hEA, \hE8>>

\* hex_num_to_byte: the digit indexes the table.
HexNumToByte(d) == DisplayBytes[d + 1]

\* Mutant: decimal point 1 is shifted by two instead of three.
SetLedFrameDp1Short(arg) ==
  LET hex(k) == shiftR(arg, 4 * k) & \hF
      leds == shiftR(ShiftL(\h0F, 16) & arg, 16)
      decs == shiftR(ShiftL(\h0F, 24) & arg, 24)
      status(k) == shiftR(leds & shiftR(8, 3 - k), k)
      dp == <<ShiftL(decs & 1, 4), ShiftL(decs & 2, 2),
              ShiftL(decs & 4, 2), ShiftL(decs & 8, 1)>>
  IN <<LED_SET, leds>> \o
     [k \in 1 .. 4 |-> IF status(k - 1) = 0 THEN 0
                      ELSE (HexNumToByte(hex(k - 1)) + dp[k]) % 256]

\* tux_set_led (lines 246-349): the digits, the display mask and the
\* decimal points are cut out of arg with masks and shifts; a display that
\* is off gets a zero byte.
SetLedFrame(arg) ==
  LET hex(k) == shiftR(arg, 4 * k) & \hF
      leds == shiftR(ShiftL(\h0F, 16) & arg, 16)
      decs == shiftR(ShiftL(\h0F, 24) & arg, 24)
      status(k) == shiftR(leds & shiftR(8, 3 - k), k)
      dp == <<ShiftL(decs & 1, 4), ShiftL(decs & 2, 3),
              ShiftL(decs & 4, 2), ShiftL(decs & 8, 1)>>
  IN <<LED_SET, leds>> \o
     [k \in 1 .. 4 |-> IF status(k - 1) = 0 THEN 0
                      ELSE (HexNumToByte(hex(k - 1)) + dp[k]) % 256]

\* Mutant: left and down are moved the wrong way.
ButtonByteSwapped(b, c) ==
  LET lo == c & \h0F
      right == lo & 8
      down == ShiftL(lo & 4, 1)
      left == shiftR(lo & 2, 1)
      up == lo & 1
  IN (b & \h0F) | ShiftL(right + left + down + up, 4)

\* tuxctl_handle_packet, MTCP_BIOC_EVENT (lines 95-119).
ButtonByte(b, c) ==
  LET lo == c & \h0F
      right == lo & 8
      down == shiftR(lo & 4, 1)
      left == ShiftL(lo & 2, 1)
      up == lo & 1
  IN ((b & \h0F) | ShiftL(right + left + down + up, 4)) % 256

SetLed ==
  /\ out = <<>> /\ input.kind = "led"
  /\ out' = SetLedFrame(input.arg)
  /\ UNCHANGED input

ButtonEvent ==
  /\ out = <<>> /\ input.kind = "button"
  /\ out' = <<ButtonByte(input.b, input.c)>>
  /\ UNCHANGED input

Init ==
  /\ input \in {[kind |-> "led", arg |-> a] : a \in LedArgs}
               \cup {[kind |-> "button", b |-> p.b, c |-> p.c] : p \in Packets}
  /\ out = <<>>

Next == SetLed \/ ButtonEvent

Spec == Init /\ [][Next]_vars

-----------------------------------------------------------------------------
(* References, from the argument format in the comment above tux_set_led  *)
(* and the packet format in the MTCP_BIOC_EVENT case.                      *)

Bit(x, i) == (x \div 2 ^ i) % 2

\* Display k (k = 0..3) of the frame: blank unless bit 16+k is set; when
\* lit, its glyph has hex digit k's byte with the decimal point set
\* exactly when bit 24+k is.  The glyph's segment bits are compared only
\* through the driver's own table here.
LedFrameLayout ==
  input.kind = "led" /\ out /= <<>> =>
    LET arg == input.arg IN
    /\ out[1] = LED_SET
    /\ out[2] = (arg \div 2 ^ 16) % 16
    /\ \A k \in 0 .. 3 :
         out[k + 3] = IF Bit(arg, 16 + k) = 0 THEN 0
                      ELSE HexNumToByte((arg \div 16 ^ k) % 16)
                             + 16 * Bit(arg, 24 + k)

\* button_val carries START, A, B, C in bits 0-3 and up, down, left, right
\* in bits 4, 5, 6, 7, whatever the two packet bytes hold.
ButtonLayout ==
  input.kind = "button" /\ out /= <<>> =>
    LET b == input.b  c == input.c IN
    out[1] = (b % 16) + 16 * (Bit(c, 0) + 2 * Bit(c, 2) + 4 * Bit(c, 1)
                              + 8 * Bit(c, 3))
==============================================================================
