-------------------------------- MODULE Rtc ---------------------------------
(***************************************************************************)
(* The RTC driver (rtc.c): the periodic interrupt handler, and the open,   *)
(* read and write operations a process reaches through its rtc descriptor. *)
(* The CPU's interrupt flag is modelled, because rtc_read waits for the    *)
(* handler with interrupts enabled and rtc_set_freq enables them on exit.  *)
(* The caller of a read or write is one process (the kernel runs one at a *)
(* time); the handler may run at any point where interrupts are enabled   *)
(* and the 8259 controllers (Pic) deliver IRQ 8: from boot, i8259_init    *)
(* and rtc_init unmask the line, and the handler's send_eoi lets the next *)
(* one through.                                                            *)
(***************************************************************************)
EXTENDS Integers

CONSTANTS
  Freqs,       \* frequencies passed to rtc_write (ints, in Hz)
  RateBits,    \* RTC_REGA low four bits as the boot code leaves them
  IRQ_PRIM_NUM, IRQ_NUM, IRQ_SECONDARY, NUM_PIC, MS_MASK  \* see Pic

VARIABLES
  inCount,     \* in_count
  rate,        \* the rate field of RTC register A
  intr,        \* EFLAGS.IF
  pc,          \* where the calling process is: "idle", "wait" (spinning
               \* in rtc_read), or "done" with the value returned in ret
  savedIF,     \* the flags rtc_read saved with cli_and_save
  ret,         \* what the last open/read/write returned
  req,         \* the frequency the last rtc_write was given
  masks,       \* master_mask and slave_mask
  isr,         \* the controllers' lines in service
  idt          \* the interrupt descriptor table the CPU uses

vars == <<inCount, rate, intr, pc, savedIF, ret, req, masks, isr, idt>>

P == INSTANCE Pic

RTC_IRQ == 8              \* rtc.c:1
SECONDARY_PIC_IRQ == 2    \* rtc.c:7

I == INSTANCE Idt

\* The gate IRQ 8 arrives through, and the one a program's int 0x80 takes
\* to reach rtc_open, rtc_read and rtc_write through its descriptor.
RtcGate == idt[I!IRQ_MAPPED + RTC_IRQ]
SyscallGate == idt[I!SYSCALL]

\* Power-on: the table is zero, so no gate is present.
NoGate == [present |-> FALSE, dpl |-> 0, gate |-> "interrupt", handler |-> "none"]

\* The calling process can enter the kernel: int 0x80 is allowed from
\* user mode and leads to the system-call entry.
CanCall ==
  SyscallGate.present /\ SyscallGate.dpl = 3
  /\ SyscallGate.handler = "syscall_handler"

\* Mutant: the table is shifted by one from 64 Hz up.
RateOfShifted(freq) ==
  CASE freq % 2 /= 0 -> -1
    [] freq = 2 -> 15  [] freq = 4 -> 14  [] freq = 8 -> 13
    [] freq = 16 -> 12 [] freq = 32 -> 11 [] freq = 64 -> 11
    [] freq = 128 -> 10 [] freq = 256 -> 9 [] freq = 512 -> 8
    [] freq = 1024 -> 7
    [] OTHER -> -1

\* rtc_set_freq's table: the rate written to register A for each accepted
\* frequency, or -1 (odd or not a power of two from 2 to 1024).
RateOf(freq) ==
  CASE freq % 2 /= 0 -> -1
    [] freq = 2 -> 15  [] freq = 4 -> 14  [] freq = 8 -> 13
    [] freq = 16 -> 12 [] freq = 32 -> 11 [] freq = 64 -> 10
    [] freq = 128 -> 9 [] freq = 256 -> 8 [] freq = 512 -> 7
    [] freq = 1024 -> 6
    [] OTHER -> -1

\* rtc_set_freq: -1 before touching the device, otherwise the new rate is
\* written between cli() and sti() and 1 is returned.
SetFreq(freq) ==
  IF RateOf(freq) = -1 THEN -1 ELSE 1

SetFreqEffect(freq) ==
  IF RateOf(freq) = -1 THEN UNCHANGED <<rate, intr>>
  ELSE rate' = RateOf(freq) /\ intr' = TRUE

\* Mutant: the handler counts ticks up instead of setting the flag.
RtcHandlerCounts ==
  /\ intr /\ P!Deliverable(RTC_IRQ)
  /\ RtcGate.present /\ RtcGate.handler = "rtc_handler"
  /\ inCount' = inCount + 1
  /\ isr' = P!SendEoi(P!Accept(isr, RTC_IRQ), RTC_IRQ)
  /\ UNCHANGED <<rate, intr, pc, savedIF, ret, req, masks, idt>>

\* IRQ 8 is taken through vector 0x28: rtc_handler acknowledges register C, raises in_count
\* and sends the EOI, with interrupts masked from its entry to its sti().
RtcHandler ==
  /\ intr /\ P!Deliverable(RTC_IRQ)
  /\ RtcGate.present /\ RtcGate.handler = "rtc_handler"
  /\ inCount' = 1
  /\ isr' = P!SendEoi(P!Accept(isr, RTC_IRQ), RTC_IRQ)
  /\ UNCHANGED <<rate, intr, pc, savedIF, ret, req, masks, idt>>

\* rtc_open: set 2 Hz; any result other than 0 is reported as failure.
RtcOpen ==
  /\ pc \in {"idle", "done"}
  /\ CanCall
  /\ SetFreqEffect(2)
  /\ ret' = IF SetFreq(2) /= 0 THEN -1 ELSE 0
  /\ pc' = "done"
  /\ UNCHANGED <<inCount, savedIF, req, masks, isr, idt>>

\* rtc_write: the frequency is the int in the buffer; a nonzero result of
\* rtc_set_freq is reported as failure.
RtcWrite ==
  /\ pc \in {"idle", "done"}
  /\ CanCall
  /\ \E f \in Freqs :
       /\ SetFreqEffect(f)
       /\ ret' = IF SetFreq(f) /= 0 THEN -1 ELSE 0
       /\ req' = f
  /\ pc' = "done"
  /\ UNCHANGED <<inCount, savedIF, masks, isr, idt>>

\* Mutant: rtc_read clears in_count but leaves interrupts masked.
RtcReadStartNoSti ==
  /\ pc \in {"idle", "done"}
  /\ CanCall
  /\ savedIF' = intr
  /\ inCount' = 0
  /\ intr' = FALSE
  /\ pc' = "wait"
  /\ UNCHANGED <<rate, ret, req, masks, isr, idt>>

\* rtc_read, first half: cli_and_save, in_count = 0, sti.
RtcReadStart ==
  /\ pc \in {"idle", "done"}
  /\ CanCall
  /\ savedIF' = intr
  /\ inCount' = 0
  /\ intr' = TRUE
  /\ pc' = "wait"
  /\ UNCHANGED <<rate, ret, req, masks, isr, idt>>

\* rtc_read, second half: the spin on in_count ends; restore_flags; 0.
RtcReadReturn ==
  /\ pc = "wait"
  /\ inCount /= 0
  /\ intr' = savedIF
  /\ ret' = 0
  /\ pc' = "done"
  /\ UNCHANGED <<inCount, rate, savedIF, req, masks, isr, idt>>

\* rtc_read spins while in_count is 0: the CPU stays in the loop.
RtcReadSpin ==
  /\ pc = "wait"
  /\ inCount = 0
  /\ UNCHANGED vars

\* The rest of the running program, between RTC calls: it may run with
\* interrupts enabled or, inside other kernel code, disabled.
OtherCode ==
  /\ pc \in {"idle", "done"}
  /\ intr' \in BOOLEAN
  /\ pc' = "idle"
  /\ UNCHANGED <<inCount, rate, savedIF, ret, req, masks, isr, idt>>

\* init_IDT at boot fills the table, with interrupts disabled.
IdtInit ==
  /\ pc = "boot"
  /\ idt' = I!InitIDT
  /\ pc' = "picinit"
  /\ UNCHANGED <<inCount, rate, intr, savedIF, ret, req, masks, isr>>

\* i8259_init at boot, with interrupts still disabled.
PicInit ==
  /\ pc = "picinit"
  /\ masks' = P!I8259Init(masks)
  /\ pc' = "rtcinit"
  /\ UNCHANGED <<inCount, rate, intr, savedIF, ret, req, isr, idt>>

\* rtc_init: between cli() and sti(), turn on the periodic interrupt in
\* register B and unmask IRQ 8 and the cascade line.
RtcInit ==
  /\ pc = "rtcinit"
  /\ masks' = P!EnableIrq(P!EnableIrq(masks, RTC_IRQ), SECONDARY_PIC_IRQ)
  /\ intr' = TRUE
  /\ pc' = "idle"
  /\ UNCHANGED <<inCount, rate, savedIF, ret, req, isr, idt>>

\* Power-on: every line masked, interrupts disabled, no driver set up.
Init ==
  /\ inCount = 0
  /\ rate \in RateBits
  /\ intr = FALSE
  /\ pc = "boot"
  /\ masks = P!InitMasks
  /\ isr = {}
  /\ savedIF = TRUE
  /\ ret = 0
  /\ req = 2
  /\ idt = [v \in I!Vectors |-> NoGate]

Next ==
  \/ IdtInit
  \/ PicInit
  \/ RtcInit
  \/ RtcHandler
  \/ RtcOpen
  \/ RtcWrite
  \/ RtcReadStart
  \/ RtcReadSpin
  \/ RtcReadReturn
  \/ OtherCode

\* The periodic interrupt fires whenever it is unmasked long enough, and a
\* spinning reader keeps the CPU, so both are weakly fair.
Spec ==
  Init /\ [][Next]_vars /\ WF_vars(RtcHandler) /\ WF_vars(RtcReadReturn)

-----------------------------------------------------------------------------
TypeOK ==
  /\ inCount \in {0, 1}
  /\ rate \in 0 .. 15
  /\ intr \in BOOLEAN
  /\ pc \in {"boot", "picinit", "rtcinit", "idle", "wait", "done"}
  /\ savedIF \in BOOLEAN
  /\ ret \in {-1, 0}
  /\ req \in Freqs \cup {2}
  /\ masks \in [master : 0 .. 255, slave : 0 .. 255]
  /\ isr \subseteq {"master", "slave"} \X (0 .. 7)
  /\ idt \in [I!Vectors -> [present : BOOLEAN, dpl : {0, 3},
                             gate : {"interrupt"}, handler : STRING]]

\* The periodic rate the RTC runs at is 32768 >> (rate - 1) Hz.
HzOf(r) == 32768 \div (2 ^ (r - 1))

\* The frequencies the RTC can divide 32768 Hz down to, from 2 to 1024 Hz.
Programmable == {2 ^ k : k \in 1 .. 10}

\* After rtc_write of a programmable frequency the RTC ticks at exactly that
\* frequency; any other frequency leaves the rate as it was.
WriteProgramsFreq ==
  [][RtcWrite => IF req' \in Programmable THEN HzOf(rate') = req'
                 ELSE rate' = rate]_vars

\* Once init_IDT has run, every gate the CPU can take leads to a handler: no present gate keeps
\* the offset SET_IDT_ENTRY never wrote; every processor exception 0 .. 19
\* is present, so a fault in a program halts it instead of escalating to a
\* double and triple fault; and int n from user mode (dpl 3) reaches only
\* the system-call entry.
IdtGatesSound ==
  pc /= "boot" =>
    /\ \A v \in I!Vectors : idt[v].present => idt[v].handler /= "none"
    /\ \A v \in 0 .. 19 : idt[v].present
    /\ \A v \in I!Vectors : (idt[v].present /\ idt[v].dpl = 3) <=> v = I!SYSCALL

\* A process that calls rtc_read while it waits with interrupts enabled
\* returns once the next interrupt has come: no read blocks forever, even
\* when it was called with interrupts masked.
ReadReturns == pc = "wait" ~> pc = "done"

\* rtc_write reports success (0) for every frequency the RTC accepts, as
\* its header comment says.
WriteReportsSuccess ==
  [][RtcWrite /\ req' \in Programmable => ret' = 0]_vars
==============================================================================
