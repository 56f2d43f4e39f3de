------------------------------- MODULE Syscall -------------------------------
(***************************************************************************)
(* The process-control core of the mp3 kernel (student-distrib/syscall.c): *)
(* the PCB arena, system_execute and system_halt, the file-descriptor      *)
(* layer and its dispatch, the program-window page directory entry and the *)
(* TSS kernel-stack field, together with the other callers of execute and  *)
(* halt: terminal_init (at boot and on Alt+F<n> for a fresh terminal) and  *)
(* the CPU exception handlers, which call system_halt(255).                *)
(*                                                                         *)
(* Control is modelled by ctl, the context the CPU executes:               *)
(*   "boot"  the kernel before the first shell,                            *)
(*   "user"  process p runs (in user mode, or blocked in a read with       *)
(*           interrupts enabled),                                          *)
(*   "iret"  execute has committed child p and runs between its sti() and  *)
(*           its iret: interrupts are enabled but p has not run yet,       *)
(*   "halt"  inside system_halt of p, after its call of execute("shell"), *)
(*   "leave" system_halt of child p after its sti(): the globals name the  *)
(*           parent, the CPU still runs on p's kernel stack, and "leave;   *)
(*           ret" to the saved frame `to` with `val` in eax is to come.     *)
(* A PCB's saved esp/ebp is modelled as the ctl that "leave; ret" resumes. *)
(***************************************************************************)
EXTENDS Integers, Sequences, FiniteSets

CONSTANTS
  MAX_PROCESSES,   \* PCB / kernel-stack slots (syscall.c:26)
  MAX_OPEN_FILES,  \* entries of a PCB's fda (filesystem.h:88, syscall.h:29)
  NUM_TERMINALS,   \* terminal_driver.h:12
  BYTES_4KB,       \* the file-system image (see Filesystem)
  BYTES_32B,
  NUM_MAX_FILES,
  Direntries,
  Inodes,
  DataBlocks,
  ExecNames,       \* program names passed to execute
  OpenNames,       \* file names passed to open
  Shell,           \* "shell"
  Statuses,        \* 8-bit statuses passed to halt
  NBytes,          \* byte counts passed to read
  VidmapPtrs,      \* screen_start arguments of vidmap, in MB (0 is NULL)
  IMG_BIG_START,   \* 128MB, in MB (syscall.h:26)
  PAGESIZE_4MB     \* 4MB, in MB (syscall.h:20)

FS == INSTANCE Filesystem

ASSUME FS!ReadDentryByName(Shell).ret = 0
ASSUME MAX_PROCESSES >= 2 /\ MAX_OPEN_FILES >= 3

Pids == 0 .. MAX_PROCESSES - 1
Fds == 0 .. MAX_OPEN_FILES - 1
Terminals == 0 .. NUM_TERMINALS - 1
FILE_DESC_START_IDX == 2
STDIN_INDEX == 0
STDOUT_INDEX == 1
NO_PARENT == -1          \* parent_pid of the base shell; also a NULL pcb_obj
ASSIGN_PID_ERROR == -99  \* syscall.h:27
NOT_PRESENT == -2        \* PDE 32 before the first execute (paging_init)
BOOT_STACK == -1         \* tss.esp0 as the boot code leaves it
NULL == 0
BYTES_TO_CMPR == 4
PROGRAM_IMG_PDE_INDEX == 32
VMEM_PDE_INDEX == 40
\* MAGIC_BYTE_0 .. MAGIC_BYTE_3: "\x7fELF".
Magic == <<127, 69, 76, 70>>

Kinds == {"boot", "user", "iret", "halt", "none"}
BootCtl == [kind |-> "boot", p |-> NO_PARENT]
NoFrame == [kind |-> "none", p |-> NO_PARENT]
Causes == {"exit", "exception"}

\* Contexts: the plain ones, and halt windows whose frame to resume may
\* itself be a halt window (n levels deep at most).
RECURSIVE CtlUpTo(_)
CtlUpTo(n) ==
  IF n = 0 THEN [kind : Kinds, p : Pids \cup {NO_PARENT}]
  ELSE CtlUpTo(0) \cup [kind : {"leave"}, p : Pids, to : CtlUpTo(n - 1),
                        val : 0 .. 256, cause : Causes]
Ctl == CtlUpTo(NUM_TERMINALS)
Fops == {"null", "stdin", "stdout", "rtc", "files", "directories"}
ClosedFd == [fop |-> "null", inode |-> 0, pos |-> 0, flags |-> 0]

VARIABLES
  active,      \* pcb->active of every slot
  parent,      \* pcb->parent_pid
  saved,       \* pcb->esp_val/ebp_val: the context halt resumes
  fda,         \* pcb->fda: fd -> [fop, inode, pos (file_position), flags]
  pid,         \* global pid
  pcbObj,      \* global pcb_obj, as the slot it points to
  pde,         \* 4MB frame PDE 32 maps: physical 8MB + 4MB * pde
  vidmem,      \* PDE 40 (user video page) present
  mapped,      \* history: the slots whose process has called vidmap
  tss,         \* tss.esp0 as the slot whose kernel stack top it holds
  ctl,         \* the context the CPU executes
  lastRet,     \* last value an execute call returned, and to which context
  termActive,  \* terminals[t].active
  currTerm     \* curr_terminal_id

pcbVars == <<active, parent, saved, fda>>
vars == <<active, parent, saved, fda, pid, pcbObj, pde, vidmem, mapped, tss, ctl,
          lastRet, termActive, currTerm>>

-----------------------------------------------------------------------------
(* Helpers of syscall.c, paging.c and filesystem.c                         *)

\* Mutant: the scan runs one slot past the arena (i <= MAX_PROCESSES).
AssignPIDPastEnd(act) ==
  LET free == {i \in 0 .. MAX_PROCESSES : i = MAX_PROCESSES \/ ~act[i]}
  IN CHOOSE i \in free : \A j \in free : i <= j

\* assign_PID: the lowest slot whose PCB is inactive, or ASSIGN_PID_ERROR.
AssignPID(act) ==
  LET free == {i \in Pids : ~act[i]}
  IN IF free = {} THEN ASSIGN_PID_ERROR
     ELSE CHOOSE i \in free : \A j \in free : i <= j

\* execute_paging_init(n) maps the window at 128MB to 8MB + 4MB * (n - 1);
\* n = 0 wraps to the kernel's own 4MB page (frame -1).
ExecutePagingInit(n) == n - 1

\* A fresh fda: every entry on the null table, stdin and stdout in use.
StdioFda ==
  [fd \in Fds |->
     IF fd = STDIN_INDEX THEN [ClosedFd EXCEPT !.fop = "stdin", !.flags = 1]
     ELSE IF fd = STDOUT_INDEX THEN [ClosedFd EXCEPT !.fop = "stdout", !.flags = 1]
     ELSE ClosedFd]

\* read_dentry_by_name finds the file, read_data gives four bytes from
\* offset 0, and they are the ELF magic.  (The image copy that follows
\* asks read_data for exactly the file's length and always gets it.)
Executable(name) ==
  LET d == FS!ReadDentryByName(name)
      head == FS!ReadData(d.dentry.inode, 0, BYTES_TO_CMPR)
  IN d.ret = 0 /\ head.ret = BYTES_TO_CMPR /\ head.bytes = Magic

\* The value halt hands to the parent's execute.
RetStatus(status) == IF status = 255 THEN status + 1 ELSE status

\* The fop table system_open binds for a dentry's file_type.
FopOf(type) == CASE type = 0 -> "rtc"
                 [] type = 1 -> "directories"
                 [] type = 2 -> "files"

-----------------------------------------------------------------------------
(* system_execute                                                          *)

\* Steps 1-10 after validation: a new PCB, its page, its fda, the TSS and
\* the caller's context saved; `act` is the active map assign_PID scans and
\* `resume` the context whose esp/ebp are saved.
ExecuteSucceeds(name, act, resume) ==
  LET new == AssignPID(act) IN
  /\ Executable(name)
  /\ new /= ASSIGN_PID_ERROR
  /\ pid' = new
  /\ pcbObj' = new
  /\ parent' = [parent EXCEPT ![new] = IF new = 0 THEN NO_PARENT ELSE pid]
  /\ active' = [act EXCEPT ![new] = TRUE]
  /\ pde' = ExecutePagingInit(new + 1)
  /\ fda' = [fda EXCEPT ![new] = StdioFda]
  /\ tss' = new
  /\ saved' = [saved EXCEPT ![new] = resume]
  /\ ctl' = [kind |-> "iret", p |-> new]

\* The name is not found or is not an ELF image: -1, nothing written.
ExecuteRejected(name) == ~Executable(name)

\* No free PCB: -1, but the global pid already holds ASSIGN_PID_ERROR.
ExecuteTableFull(name, act) ==
  /\ Executable(name)
  /\ AssignPID(act) = ASSIGN_PID_ERROR
  /\ pid' = ASSIGN_PID_ERROR

\* The execute system call of the running process.
SysExecute ==
  /\ ctl.kind = "user"
  /\ \E name \in ExecNames :
       \/ /\ ExecuteSucceeds(name, active, ctl)
          /\ UNCHANGED <<vidmem, mapped, lastRet, termActive, currTerm>>
       \/ /\ ExecuteRejected(name)
          /\ lastRet' = [to |-> ctl, val |-> -1, cause |-> "execute"]
          /\ UNCHANGED <<pcbVars, pid, pcbObj, pde, vidmem, mapped, tss, ctl,
                         termActive, currTerm>>
       \/ /\ ExecuteTableFull(name, active)
          /\ lastRet' = [to |-> ctl, val |-> -1, cause |-> "execute"]
          /\ UNCHANGED <<pcbVars, pcbObj, pde, vidmem, mapped, tss, ctl,
                         termActive, currTerm>>

\* The pushes and iret at the end of execute: the child starts in user mode.
EnterUser ==
  /\ ctl.kind = "iret"
  /\ ctl' = [kind |-> "user", p |-> ctl.p]
  /\ UNCHANGED <<pcbVars, pid, pcbObj, pde, vidmem, mapped, tss, lastRet,
                 termActive, currTerm>>

-----------------------------------------------------------------------------
(* system_halt                                                             *)

\* The base shell's path (pid 0 with parent_pid -1): clear it and call
\* execute("shell"), which reuses slot 0 and saves halt's own frame.
HaltBaseShell(c) ==
  /\ ExecuteSucceeds(Shell, [active EXCEPT ![c] = FALSE],
                     [kind |-> "halt", p |-> c])
  /\ mapped' = mapped \ {c}
  /\ UNCHANGED <<vidmem, lastRet, termActive, currTerm>>

\* Mutant: the child's kernel stack stays in tss.esp0.
ReturnToParentKeepsTss(c, status, cause) ==
  LET par == parent[c] IN
  /\ active' = [active EXCEPT ![c] = FALSE]
  /\ saved' = [saved EXCEPT ![c] = NoFrame]
  /\ pde' = ExecutePagingInit(par + 1)
  /\ fda' = [fda EXCEPT ![c] = [fd \in Fds |-> ClosedFd]]
  /\ pid' = par /\ pcbObj' = par
  /\ ctl' = [kind |-> "leave", p |-> c, to |-> saved[c],
             val |-> RetStatus(status), cause |-> cause]
  /\ mapped' = mapped \ {c}
  /\ UNCHANGED <<parent, tss, vidmem, lastRet, termActive, currTerm>>

\* Every other process, up to the sti() at line 405: clear its PCB and
\* descriptors, point the TSS, the program page, pid and pcb_obj at
\* parent_pid.  The saved esp/ebp (read at entry) and the status stay in
\* halt's frame on c's kernel stack, which the CPU still runs on.
ReturnToParent(c, status, cause) ==
  LET par == parent[c] IN
  /\ active' = [active EXCEPT ![c] = FALSE]
  /\ saved' = [saved EXCEPT ![c] = NoFrame]
  /\ tss' = par
  /\ pde' = ExecutePagingInit(par + 1)
  /\ fda' = [fda EXCEPT ![c] = [fd \in Fds |-> ClosedFd]]
  /\ pid' = par /\ pcbObj' = par
  /\ ctl' = [kind |-> "leave", p |-> c, to |-> saved[c],
             val |-> RetStatus(status), cause |-> cause]
  /\ mapped' = mapped \ {c}
  /\ UNCHANGED <<parent, vidmem, lastRet, termActive, currTerm>>

\* Lines 406-422, with interrupts enabled: the status goes into eax and
\* "leave; ret" on the saved esp/ebp returns from the execute call that
\* made the frame.
HaltLeave ==
  /\ ctl.kind = "leave"
  /\ ctl' = ctl.to
  /\ lastRet' = [to |-> ctl.to, val |-> ctl.val, cause |-> ctl.cause]
  /\ UNCHANGED <<pcbVars, pid, pcbObj, pde, vidmem, mapped, tss,
                 termActive, currTerm>>

\* system_halt(status) of the process pcb_obj points to; cause tells an
\* exit system call from an exception handler.
Halt(status, cause) ==
  LET c == pcbObj IN
  IF pid = 0 /\ parent[c] = NO_PARENT THEN HaltBaseShell(c)
  ELSE ReturnToParent(c, status, cause)

\* The halt system call.
SysHalt ==
  /\ ctl.kind = "user"
  /\ \E s \in Statuses : Halt(s, "exit")

\* A CPU exception in the running program: every handler calls halt(255).
Exception ==
  /\ ctl.kind = "user"
  /\ Halt(255, "exception")

-----------------------------------------------------------------------------
(* The file-descriptor system calls                                        *)

\* system_open: the lowest free descriptor from 2 up is bound to the dentry's
\* operations table; a missing name or a full table returns -1.
SysOpen ==
  /\ ctl.kind = "user"
  /\ \E name \in OpenNames :
       LET c == pcbObj
           d == FS!ReadDentryByName(name)
           free == {fd \in FILE_DESC_START_IDX .. MAX_OPEN_FILES - 1 :
                      fda[c][fd].flags = 0}
           fd == CHOOSE f \in free : \A g \in free : f <= g
       IN
       IF d.ret /= 0 \/ free = {}
       THEN UNCHANGED fda
       ELSE fda' = [fda EXCEPT ![c][fd] =
                      [fop |-> FopOf(d.dentry.file_type),
                       inode |-> d.dentry.inode, pos |-> 0, flags |-> 1]]
  /\ UNCHANGED <<active, parent, saved, pid, pcbObj, pde, vidmem, mapped, tss,
                 ctl, lastRet, termActive, currTerm>>

\* Mutant: close frees the entry but leaves its operations table bound.
SysCloseFlagsOnly ==
  /\ ctl.kind = "user"
  /\ \E fd \in -1 .. MAX_OPEN_FILES :
       IF fd < FILE_DESC_START_IDX \/ fd > MAX_OPEN_FILES - 1
          \/ fda[pcbObj][fd].flags = 0
       THEN UNCHANGED fda
       ELSE fda' = [fda EXCEPT ![pcbObj][fd].flags = 0]
  /\ UNCHANGED <<active, parent, saved, pid, pcbObj, pde, vidmem, mapped, tss,
                 ctl, lastRet, termActive, currTerm>>

\* system_close: descriptors 0, 1, out-of-range and unused ones return -1;
\* otherwise the entry is put back on the null table and freed.
SysClose ==
  /\ ctl.kind = "user"
  /\ \E fd \in -1 .. MAX_OPEN_FILES :
       IF fd < FILE_DESC_START_IDX \/ fd > MAX_OPEN_FILES - 1
          \/ fda[pcbObj][fd].flags = 0
       THEN UNCHANGED fda
       ELSE fda' = [fda EXCEPT ![pcbObj][fd] = ClosedFd]
  /\ UNCHANGED <<active, parent, saved, pid, pcbObj, pde, vidmem, mapped, tss,
                 ctl, lastRet, termActive, currTerm>>

\* What the bound read operation of descriptor e returns for nbytes n:
\* file_read or directory_read on its inode and file_position.
ReadOf(e, n) ==
  IF e.fop = "files" THEN FS!FileRead(e.inode, e.pos, n)
  ELSE FS!DirectoryRead(e.pos)

\* system_read: range and in-use checks, then the bound read operation;
\* terminal, rtc and null reads move no position (and are not recorded).
SysRead ==
  /\ ctl.kind = "user"
  /\ \E fd \in -1 .. MAX_OPEN_FILES, n \in NBytes :
       IF fd < STDIN_INDEX \/ fd > MAX_OPEN_FILES - 1
          \/ fda[pcbObj][fd].flags = 0
          \/ fda[pcbObj][fd].fop \notin {"files", "directories"}
       THEN UNCHANGED fda
       ELSE fda' = [fda EXCEPT ![pcbObj][fd].pos = ReadOf(fda[pcbObj][fd], n).pos]
  /\ UNCHANGED <<active, parent, saved, pid, pcbObj, pde, vidmem, mapped, tss,
                 ctl, lastRet, termActive, currTerm>>

\* Whether a kernel store to address a (in MB) finds a present page
\* directory entry: the kernel's first 8MB, the program window while a
\* program is mapped, and the vidmap page once mapped.
Present(a) ==
  LET i == a \div PAGESIZE_4MB IN
  \/ i \in {0, 1}
  \/ i = PROGRAM_IMG_PDE_INDEX /\ pde /= NOT_PRESENT
  \/ i = VMEM_PDE_INDEX /\ vidmem

\* system_vidmap(screen_start): NULL or a pointer outside 128MB .. 132MB
\* (both ends accepted) returns -1.  Otherwise the kernel stores the user
\* video address through screen_start; at 132MB itself no page is
\* present, and the page-fault handler halts the program with 255.
\* Otherwise map_vidmem sets PDE 40.
SysVidmap ==
  /\ ctl.kind = "user"
  /\ \E ptr \in VidmapPtrs :
       IF ptr = NULL \/ ptr < IMG_BIG_START
          \/ ptr > IMG_BIG_START + PAGESIZE_4MB
       THEN UNCHANGED <<pcbVars, pid, pcbObj, pde, vidmem, mapped, tss, ctl,
                        lastRet, termActive, currTerm>>
       ELSE IF Present(ptr)
       THEN /\ vidmem' = TRUE
            /\ mapped' = mapped \cup {pcbObj}
            /\ UNCHANGED <<pcbVars, pid, pcbObj, pde, tss, ctl, lastRet,
                           termActive, currTerm>>
       ELSE Halt(255, "exception")

-----------------------------------------------------------------------------
(* terminal_init and terminal_switch (terminal_driver.c)                   *)

\* terminal_init(t): mark t active and current, then execute("shell") from
\* the interrupted context; its result is ignored.
TerminalInit(t) ==
  /\ currTerm' = t
  /\ termActive' = [termActive EXCEPT ![t] = TRUE]
  /\ \/ /\ ExecuteSucceeds(Shell, active, ctl)
        /\ UNCHANGED <<vidmem, mapped, lastRet>>
     \/ /\ ExecuteTableFull(Shell, active)
        /\ UNCHANGED <<pcbVars, pcbObj, pde, vidmem, mapped, tss, ctl, lastRet>>

\* The kernel's start-up call of terminal_init(0).
Boot ==
  /\ ctl.kind = "boot"
  /\ TerminalInit(0)

\* Alt+F<t+1> for a terminal never opened: from the keyboard interrupt,
\* which may arrive whenever interrupts are enabled: in a program, in
\* execute's sti..iret window and in halt's sti..ret window.
SwitchToNewTerminal ==
  /\ ctl.kind \in {"user", "iret", "leave"}
  /\ \E t \in Terminals :
       /\ t /= currTerm /\ ~termActive[t]
       /\ TerminalInit(t)

\* Alt+F<t+1> for an opened terminal: buffers and screen are swapped only.
SwitchToOpenTerminal ==
  /\ ctl.kind \in {"user", "iret", "leave"}
  /\ \E t \in Terminals :
       /\ t /= currTerm /\ termActive[t]
       /\ currTerm' = t
  /\ UNCHANGED <<pcbVars, pid, pcbObj, pde, vidmem, mapped, tss, ctl, lastRet,
                 termActive>>

-----------------------------------------------------------------------------
Init ==
  /\ active = [p \in Pids |-> FALSE]
  /\ parent = [p \in Pids |-> 0]
  /\ saved = [p \in Pids |-> NoFrame]
  /\ fda = [p \in Pids |-> [fd \in Fds |-> ClosedFd]]
  /\ pid = 0
  /\ pcbObj = NO_PARENT
  /\ pde = NOT_PRESENT
  /\ vidmem = FALSE
  /\ mapped = {}
  /\ tss = BOOT_STACK
  /\ ctl = BootCtl
  /\ lastRet = [to |-> BootCtl, val |-> 0, cause |-> "none"]
  /\ termActive = [t \in Terminals |-> FALSE]
  /\ currTerm = 0

Next ==
  \/ Boot
  \/ SysExecute
  \/ EnterUser
  \/ SysHalt
  \/ HaltLeave
  \/ Exception
  \/ SysOpen
  \/ SysClose
  \/ SysRead
  \/ SysVidmap
  \/ SwitchToNewTerminal
  \/ SwitchToOpenTerminal

Spec == Init /\ [][Next]_vars

-----------------------------------------------------------------------------
(* Properties                                                              *)

TypeOK ==
  /\ active \in [Pids -> BOOLEAN]
  /\ parent \in [Pids -> Pids \cup {NO_PARENT}]
  /\ saved \in [Pids -> Ctl]
  /\ fda \in [Pids -> [Fds -> [fop : Fops, inode : Nat, pos : Nat,
                               flags : {0, 1}]]]
  /\ pid \in Pids \cup {ASSIGN_PID_ERROR}
  /\ pcbObj \in Pids \cup {NO_PARENT}
  /\ pde \in Pids \cup {NOT_PRESENT, ExecutePagingInit(0)}
  /\ vidmem \in BOOLEAN
  /\ mapped \subseteq Pids
  /\ tss \in Pids \cup {BOOT_STACK}
  /\ ctl \in Ctl
  /\ lastRet \in [to : Ctl, val : -1 .. 256,
                  cause : {"none", "execute"} \cup Causes]
  /\ termActive \in [Terminals -> BOOLEAN]
  /\ currTerm \in Terminals

\* The process whose code the CPU runs or is about to enter.
\* In halt's window that is the parent the globals already name.
Running == CASE ctl.kind \in {"user", "iret"} -> ctl.p
             [] ctl.kind = "leave" -> parent[ctl.p]
             [] OTHER -> NO_PARENT

\* The chain of parent links from the base shell to p, bottom first.
RECURSIVE Lineage(_, _)
Lineage(p, fuel) ==
  IF p \notin Pids \/ fuel = 0 THEN <<>>
  ELSE Append(Lineage(parent[p], fuel - 1), p)

\* The innermost process whose execute call has not yet returned: in
\* halt's window that is still the halting child, until "leave; ret".
Top == IF ctl.kind = "leave" THEN ctl.p ELSE Running

Stack == Lineage(Top, MAX_PROCESSES)

\* Whenever a program runs or is entered, pcb_obj, the program page and
\* tss.esp0 all belong to it: system calls, exceptions and interrupts use
\* the PCB, address space and kernel stack of the code that raised them,
\* across nested executes, halts, base-shell restarts and terminal spawns.
ContextCoherent ==
  Running \in Pids =>
    /\ pcbObj = Running
    /\ pde = ExecutePagingInit(Running + 1)
    /\ tss = Running
    /\ active[Running]

\* Descriptors 0 and 1 of a live process are stdin and stdout, a PCB no
\* process owns holds no open descriptor, and an entry is in use exactly
\* when it is bound to a real operations table. system_write never checks
\* the in-use flag, so a closed entry must already dispatch to the null
\* table on every path that frees it (close, halt, base-shell restart).
FdTableWellFormed ==
  \A p \in Pids :
    /\ active[p] =>
         /\ fda[p][STDIN_INDEX].fop = "stdin" /\ fda[p][STDIN_INDEX].flags = 1
         /\ fda[p][STDOUT_INDEX].fop = "stdout" /\ fda[p][STDOUT_INDEX].flags = 1
    /\ ~active[p] => \A fd \in Fds : fda[p][fd].flags = 0
    /\ \A fd \in Fds : (fda[p][fd].flags = 0) <=> (fda[p][fd].fop = "null")

\* Every read a process can issue on one of its file or directory
\* descriptors returns what the image holds there: a file read the next
\* bytes of the file's data blocks laid end to end, never more than asked
\* nor past the end, and a directory read the next name in boot-block
\* order, then one empty read (0) that ends the listing.  This checks
\* read_data's block arithmetic and read_dentry_by_index's bound against
\* the layout, at every position file_read and directory_read can reach
\* across opens, closes, nested executes and halts.
ReadsFollowImage ==
  \A p \in Pids, fd \in Fds, n \in NBytes :
    LET e == fda[p][fd]
        r == ReadOf(e, n)
        content == FS!ContentOf(e.inode)
        rest == Len(content) - e.pos
    IN
    /\ e.fop = "files" =>
         IF n <= 0 THEN r.ret = -1
         ELSE /\ r.ret = IF rest <= 0 THEN 0 ELSE IF n < rest THEN n ELSE rest
              /\ r.bytes = SubSeq(content, e.pos + 1, e.pos + r.ret)
    /\ e.fop = "directories" =>
         IF e.pos <= FS!DirCount
         THEN r.bytes = FS!Listing(e.pos) /\ r.ret = Len(FS!Listing(e.pos))
         ELSE r.ret = -1

\* The user video page (PDE 40) is present only while a live process has
\* asked for it through system_vidmap: halt tears down the process's
\* program page, PCB and descriptors, and the page it mapped must not
\* outlive it into the parent or the next program execute loads.
VidmapOwned ==
  vidmem => \E q \in mapped : active[q]

\* The engine implements the process stack of ProcessTree: ids are depths,
\* execute pushes, halt pops the top and delivers its status or -1.
Tree == INSTANCE ProcessTree WITH procs <- Stack, result <- lastRet.val

ImplementsProcessTree == Tree!Spec
==============================================================================
