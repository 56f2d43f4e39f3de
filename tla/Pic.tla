--------------------------------- MODULE Pic ---------------------------------
(***************************************************************************)
(* The cascaded 8259 interrupt controllers as the kernel drives them       *)
(* (i8259.c): the two mask registers the driver keeps a copy of, and the   *)
(* in-service lines it clears with send_eoi.  A device line is delivered   *)
(* when it is unmasked on its chip (and, on the secondary chip, the        *)
(* cascade line is unmasked on the primary) and no line of the same or    *)
(* higher priority is in service on the chips it passes through.  The     *)
(* initialisation command words are port I/O and are left out; i8259.h,   *)
(* which holds the constants, is not in the repository, so they are       *)
(* CONSTANTS given the values the code's comments state.                   *)
(***************************************************************************)
EXTENDS Integers, Bitwise

CONSTANTS
  IRQ_PRIM_NUM,    \* first IRQ of the secondary chip (8)
  IRQ_NUM,         \* last IRQ (15)
  IRQ_SECONDARY,   \* primary line the secondary chip cascades into (2)
  NUM_PIC,         \* the IRQ i8259_init unmasks (the cascade line)
  MS_MASK          \* both masks at start-up: every line masked (0xFF)

VARIABLES
  masks,   \* [master |-> master_mask, slave |-> slave_mask]
  isr      \* lines in service: <<"master" or "slave", line>>

\* The 8-bit mask with bit n cleared: m & ~(1 << n).
ClearBit(m, n) == m & (255 - 2 ^ n)

\* enable_irq(irq_num): clear the line's bit in the primary mask below
\* IRQ_PRIM_NUM, in the secondary mask up to IRQ_NUM; ignore the rest.
\* The mask register is written with the new copy.
EnableIrq(m, irq) ==
  IF irq < IRQ_PRIM_NUM THEN [m EXCEPT !.master = ClearBit(@, irq)]
  ELSE IF irq <= IRQ_NUM
  THEN [m EXCEPT !.slave = ClearBit(@, irq - IRQ_PRIM_NUM)]
  ELSE m

\* Mutant: a secondary line is acknowledged on the secondary chip only.
SendEoiSlaveOnly(s, irq) ==
  IF irq < IRQ_PRIM_NUM THEN s \ {<<"master", irq>>}
  ELSE IF irq <= IRQ_NUM THEN s \ {<<"slave", irq - IRQ_PRIM_NUM>>}
  ELSE s

\* send_eoi(irq_num): a specific EOI for the line to the primary chip, or
\* for irq_num - 8 to the secondary chip and for the cascade line to the
\* primary.
SendEoi(s, irq) ==
  IF irq < IRQ_PRIM_NUM THEN s \ {<<"master", irq>>}
  ELSE IF irq <= IRQ_NUM
  THEN s \ {<<"slave", irq - IRQ_PRIM_NUM>>, <<"master", IRQ_SECONDARY>>}
  ELSE s

\* i8259_init: the masks are written around the ICW1-ICW4 sequence, then
\* enable_irq(NUM_PIC).
I8259Init(m) == EnableIrq(m, NUM_PIC)

\* The masks before i8259_init (the initialisers of master_mask and
\* slave_mask).
InitMasks == [master |-> MS_MASK, slave |-> MS_MASK]

-----------------------------------------------------------------------------
(* The controllers' side, from the 8259's data sheet behaviour.            *)

Bit(x, n) == shiftR(x, n) & 1

\* The chip and line a device IRQ enters through, and the primary line it
\* reaches the CPU on.
Path(irq) ==
  IF irq < IRQ_PRIM_NUM THEN {<<"master", irq>>}
  ELSE {<<"slave", irq - IRQ_PRIM_NUM>>, <<"master", IRQ_SECONDARY>>}

Masked(m, l) == Bit(IF l[1] = "master" THEN m.master ELSE m.slave, l[2]) = 1

\* A raised IRQ reaches the CPU: unmasked along its path and not blocked
\* by a line in service of the same or higher priority (lower number) on
\* the same chip.
Deliverable(irq) ==
  \A l \in Path(irq) :
    /\ ~Masked(masks, l)
    /\ \A k \in isr : k[1] = l[1] => k[2] > l[2]

\* The CPU acknowledges the IRQ: its lines go in service.
Accept(s, irq) == s \cup Path(irq)
==============================================================================
