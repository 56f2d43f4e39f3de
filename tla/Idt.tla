-------------------------------- MODULE Idt ---------------------------------
(***************************************************************************)
(* The interrupt descriptor table init_IDT (IDT.c) builds: for each of the *)
(* 256 vectors whether its gate is present, the privilege level that may  *)
(* raise it with int n, and the handler SET_IDT_ENTRY points it at.  The  *)
(* table is computed once at boot and never changed, so it is a constant  *)
(* of the modules that take interrupts through it.                         *)
(***************************************************************************)
EXTENDS Naturals, Sequences

VECTOR_NUM == 256       \* IDT.h:18
SYSCALL == 128          \* IDT.h:19, 0x80
IRQ_MAPPED == 32        \* IDT.h:20, 0x20: IRQ n is vector 0x20 + n
EXCEPTIONS_NUM == 21    \* IDT.h:21
KEYBOARD_IRQ == 33      \* IDT.h:22, 0x21
RTC_IRQ == 40           \* IDT.h:23, 0x28

Vectors == 0 .. VECTOR_NUM - 1

\* The handlers init_IDT installs in vectors 0 .. 20, in vector order; each
\* prints its name and calls system_halt(255).
ExceptionLinks ==
  <<"Divide_Error", "RESERVED", "NMI_Interrupt", "Breakpoint", "Overflow",
    "BOUND_Range_Exceeded", "Invalid_Opcode", "Device_Not_Available",
    "Double_Fault", "Coprocessor_Segment_Overrun", "Invalid_TSS",
    "Segment_Not_Present", "Stack_Segment_Fault", "General_Protection",
    "Page_Fault", "Intel_Reserved", "x87_FPU_Floating_Point_Error",
    "Alignment_Check", "Machine_Check", "SIMD_Floating_Point_Exception",
    "Intel_Reserved">>

\* Mutant: the RTC's SET_IDT_ENTRY is left out.
HandlerOfNoRtc(v) ==
  CASE v < Len(ExceptionLinks) -> ExceptionLinks[v + 1]
    [] v = KEYBOARD_IRQ -> "keyboard_handler"
    [] v = SYSCALL -> "syscall_handler"
    [] OTHER -> "none"

\* The offset SET_IDT_ENTRY stores in vector v: an exception handler, a
\* device handler, the system-call entry, or "none" where it is never
\* called.
HandlerOf(v) ==
  CASE v < Len(ExceptionLinks) -> ExceptionLinks[v + 1]
    [] v = KEYBOARD_IRQ -> "keyboard_handler"
    [] v = RTC_IRQ -> "rtc_handler"
    [] v = SYSCALL -> "syscall_handler"
    [] OTHER -> "none"

\* init_IDT: the loop marks the exception vectors below EXCEPTIONS_NUM
\* except 0x15 present at dpl 0 and the system-call vector present at dpl
\* 3; the keyboard and RTC vectors are made present at dpl 0 after it.
\* Every gate gets reserved3 = 0 and size = 1, a 32-bit interrupt gate:
\* the CPU clears IF on entry, so handlers and system calls start masked.
InitIDT ==
  [v \in Vectors |->
     [present |-> \/ v < EXCEPTIONS_NUM /\ v /= 21
                  \/ v \in {SYSCALL, KEYBOARD_IRQ, RTC_IRQ},
      dpl     |-> IF v = SYSCALL THEN 3 ELSE 0,
      gate    |-> "interrupt",
      handler |-> HandlerOf(v)]]
==============================================================================
