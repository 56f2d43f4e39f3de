# TLA+ models of the ECE391 kernel (mp3) and tux driver (mp2)

## The system

The repository has two programs.

* **`src/mp3_group_59/student-distrib`** is a small x86 kernel. Its parts and how they interact:
  * **Process engine** (`syscall.c`). `system_execute` validates a command, then:
    * takes the lowest inactive PCB slot (`assign_PID`);
    * records the parent (the global `pid` at entry);
    * maps the 4MB program page for the child (`execute_paging_init`);
    * initialises the fd array;
    * points `tss.esp0` at the child's kernel stack;
    * saves its own esp/ebp in the child's PCB;
    * enables interrupts (`sti`) and `iret`s to user mode.

    `system_halt` has two paths:
    * For the base shell (`pid == 0`, `parent_pid == -1`), it clears the PCB and calls `execute("shell")` again.
    * Otherwise, it frees the PCB and descriptors, and restores `tss.esp0`, the program page, `pid` and `pcb_obj` from `parent_pid`. It then re-enables interrupts (`sti`, line 405) and only afterwards resumes the parent's `execute` through the *saved* esp/ebp, returning the status in eax (255 becomes 256).
  * **File-descriptor layer** (`system_open/close/read/write/getargs/vidmap`). It dispatches through the operation table of each descriptor:
    * stdin/stdout go to the terminal;
    * rtc goes to the RTC;
    * files and directories go to the filesystem;
    * closed descriptors go to a null table.
  * **Filesystem** (`filesystem.c`): a read-only boot-block image (`read_dentry_by_*`, `read_data`, `file_read`, `directory_read`).
  * **Paging** (`paging.c`): the kernel and video pages, the per-process program page, and the user video page mapped by `vidmap`.
  * **Terminals and keyboard** (`terminal_driver.c`, `keyboard.c`):
    * The keyboard interrupt fills a 128-byte line buffer that `terminal_read` busy-waits on.
    * Alt+F1..F3 calls `terminal_switch`. For a terminal never opened, that calls `terminal_init`, which calls `execute("shell")` *from inside the keyboard interrupt* of whichever process is running.
  * **RTC** (`rtc.c`): `rtc_read` waits for the next tick of `rtc_handler`.
  * **Exceptions** (`IDT.c`): every exception handler calls `system_halt(255)`.
  * **PIC** (`i8259.c`): the driver's copies of the two mask registers, `enable_irq` and `send_eoi`. The RTC is on IRQ 8 of the secondary chip, which cascades into line 2 of the primary, so an RTC tick reaches the CPU only when both lines are unmasked and neither chip has an equal or higher-priority line in service.
* **`src/mp2_rthakk21/module/tuxctl-ioctl.c`** is the tux-controller driver. Its ioctls send LED and init commands to the device. Its packet handler processes button events, ACKs and resets. LED requests are gated by an `ack_flag`.

### Where the system is hard

* **Interleaving:**
  * A terminal spawn can arrive whenever interrupts are enabled: in a program, inside `execute` between `sti()` and `iret`, and inside `halt` between `sti()` and `leave; ret`.
  * The shell it starts becomes a child of the process the globals name, and its halt must return into the half-finished frame it interrupted. In halt's window that frame is the halt itself, on the kernel stack of the slot the new shell takes.
* **Two sources of truth in halt:** halt takes the PCB, TSS and page from `parent_pid`, but takes control from the saved stack. Nested executes and spawns must keep the two in agreement.
* **Partial failure:** a full PCB table makes `execute` fail after it has already written the global `pid`.
* **Stale and numeric edges:**
  * the exit status 255→256 mapping;
  * descriptor entries freed without resetting their operation table;
  * `directory_read` at `dir_count`;
  * `vidmap`'s range check;
  * keyboard buffer bounds.
* **Waiting:** `terminal_read` waits for ENTER and `rtc_read` waits for a tick. The tux driver's LED updates wait for an ACK.
* **Interrupts inside reads:** `terminal_read` copies and clears the line buffer with interrupts enabled, so keystrokes interleave with both steps. `rtc_read` may be entered with interrupts masked.
* **A protocol with loss:** the tux driver and device exchange commands and ACKs over a serial line whose buffers drop data when full. The packet handler's fall-through turns every ACK into three more commands.

## Modules

| module | models | state ↔ code |
|---|---|---|
| `ProcessTree` | what the engine promises | `procs`: the process stack (ids = depths); `result`: the value `execute` last returned |
| `Syscall` | process engine, fd layer, paging effects, filesystem positions, terminal spawns, exceptions | see below |
| `Filesystem` | `filesystem.c`'s readers as operators over a fixed image: `ReadDentryByIndex`, `ReadDentryByName`, `ReadData` (with its copy loop `Copy` and the block lookup `ByteAt`), `DirectoryRead`, `FileRead`; and the references `ContentOf` (the file's blocks laid end to end, cut at its length) and `Listing` | no variables: the image is CONSTANTS (`Direntries`, `Inodes` with their block tables, `DataBlocks`), the position is the caller's |
| `MCSyscall` | constants for TLC | a three-entry directory: `.`, `shell` (5 bytes over three 2-byte blocks, starting with the ELF magic) and `frame0.txt` (3 bytes over blocks 3 and 0) |
| `Pic` | `i8259.c`: `master_mask`/`slave_mask`, `enable_irq`, `send_eoi`, `i8259_init`'s final `enable_irq(2)`; the controllers' delivery rule (`Deliverable`, `Accept`) from the 8259's documented behaviour | `masks` = the two mask copies; `isr` = the lines in service on each chip |
| `CommandParse` | the name/argument split at the start of `system_execute` (syscall.c 106-155), the `strncpy` into `pcb->args` (line 212), and the started program's `system_getargs` (569-587) | `command`; `parsed` = `fname` as a C string, `args`, the 32-byte `stored` copy; `got` = the program's `getargs` call (buffer, `nbytes`, result, bytes copied) |
| `MCCommandParse` | constants | the junk values the uninitialised `arg_starting_index` may hold, including -1; the one program name, `a` |
| `Idt` | `init_IDT` (IDT.c 172-262) and the vector numbers of IDT.h | no state: `InitIDT` is the table it builds, each vector's `present`, `dpl`, gate type and `handler` (the offset `SET_IDT_ENTRY` wrote, or `"none"`) |
| `Rtc` | `rtc.c`: `rtc_init`, `rtc_set_freq`, `rtc_open`, `rtc_write`, `rtc_read`, `rtc_handler`, composed with `Pic` (`P == INSTANCE Pic`) and `Idt` (`I == INSTANCE Idt`) | `inCount` = `in_count`; `rate` = register A's rate bits; `intr` = EFLAGS.IF; `pc`/`savedIF`/`ret` = the caller's position, saved flags and return value; `masks`/`isr` as in `Pic`; `idt` = the descriptor table the CPU uses |
| `TuxEncode` | `tux_set_led` + `hex_num_to_byte` (argument → 6-byte LED_SET frame) and the `MTCP_BIOC_EVENT` case (packet → `button_val`) | `input` the argument or packet, `out` the bytes produced |
| `MCTuxEncode` | constants | 1024 LED arguments (every digit in every position, four display and dp masks) and all 256 button packets |
| `TuxCtl` | the `ack_flag` protocol: `tuxctl_ioctl` (TUX_INIT, TUX_SET_LED), `tuxctl_handle_packet`, the line discipline and the device | `ackFlag` = `ack_flag`; `prevLeds` = `prev_state_leds`; `toDev`/`toHost` the two directions of the serial line; `shown` the device's display |
| `Terminal` | `keyboard_handler`, `print_to_screen`, `clear_keyboard_buff`, `terminal_read`, `terminal_switch`/`terminal_init`'s buffer handling | `buf`/`num`/`enter` = `keyboard_buffer`/`num_chars_typed`/`enter_pressed_flag`; `ctrl`, `alt`, `curr`, `active`, `saved` (`terminals[t].keyboard_buffer`); `pc`/`nb`/`got` the reader |

The `Syscall` variables map to the code as follows:

* `active`, `parent`, `saved`, `fda` are the PCB fields: `active`, `parent_pid`, `esp_val/ebp_val`, and `fda`.
  * An fd entry is `[fop, inode, pos, flags]`.
  * A saved frame is the control context that `leave; ret` resumes.
* `pid` and `pcbObj` are the globals `pid` and `pcb_obj`.
* `pde` is the frame of PDE 32 (8MB + 4MB·`pde`).
* `vidmem` is whether PDE 40 is present.
* `mapped` is a history variable with no counterpart in the code: the slots whose process has had `vidmap` succeed and has not halted since. `SysVidmap` adds `pcb_obj`, and both halt paths remove the halting slot. No action reads it; `VidmapOwned` compares it with `vidmem`.
* `tss` is the slot whose kernel stack `tss.esp0` holds.
* `termActive` and `currTerm` are `terminals[t].active` and `curr_terminal_id`.
* `ctl` is what the CPU executes. Its kinds are:
  * `boot`;
  * `user` p: p in user mode, or blocked in a read;
  * `iret` p: execute committed child p and is between `sti` and `iret`;
  * `halt` p: the base shell's halt, inside its nested execute;
  * `leave` p: halt of child p between its `sti` and `leave; ret`. The globals already name the parent; `to` is the saved frame to resume (itself a `leave` frame when a spawn came in such a window) and `val` the status going into eax.
* `lastRet` is the value the last execute call returned, and the context it returned into. No action reads it; only the refinement mapping does.

The actions each model a whole handler:

* **Execute:**
  * `SysExecute` has three disjuncts: success, rejected name, and full table.
  * `EnterUser` is the final `iret`.
* **Halt:**
  * `SysHalt` and `Exception` both go through `Halt`.
  * `Halt` is the two paths `HaltBaseShell` and `ReturnToParent`. `ReturnToParent` is lines 371-405, up to and including the `sti`. `HaltLeave` is the rest (406-426): it loads the saved esp/ebp, returns the status, and is a separate step because an interrupt can come between the two.
* **Descriptors:** `SysOpen` (looking the name up with `FS!ReadDentryByName`), `SysClose`, `SysRead` (dispatching through `ReadOf` to `FS!FileRead` / `FS!DirectoryRead` and storing the new `file_position`), and `SysVidmap`: NULL or a pointer outside 128MB..132MB is refused; otherwise the kernel stores through the pointer, which faults at exactly 132MB (`Present`: no PDE 33), killing the caller with 255, and otherwise `map_vidmem` sets PDE 40.
* **Execute's file checks:** `Executable` is `read_dentry_by_name` followed by `read_data(inode, 0, 4)` compared against the ELF magic, on the same `Filesystem` operators.
* **Terminals:** `Boot` (`terminal_init(0)`), `SwitchToNewTerminal` (`terminal_init` from Alt+F), and `SwitchToOpenTerminal`. Both switches are enabled in every context with interrupts on: `user`, `iret` and `leave`.

For the refinement, `Stack` is the parent chain (`Lineage`) from `Top`: the running process, or in halt's window the halting child, whose execute call has not returned until `HaltLeave`. `ReturnToParent` is then a stuttering step and `HaltLeave` is the abstract `Exit`.

`system_write` changes no state that the engine's properties tell apart, so it is not an action. `system_getargs` reads the arguments, which `CommandParse` models; `Syscall` keeps no argument buffers.

The other modules' actions:

* **CommandParse:** two actions. `Split` is the whole prefix of `system_execute`. It has the length check, the split loop (`Fname`, `ArgStarts`), the argument loop (`ArgsFrom`) and the `strncpy` (`StoredArgs`). Without a blank, `arg_starting_index` is read uninitialised. The model then chooses its value from `StackJunk`. An index before the buffer reads a `Stray` byte. `GetArgs` is `system_getargs` called by the program `execute` started (only when `fname` is in `Programs`): NULL or an empty `args` is -1, otherwise `Strncpy(buf, pcb->args, nbytes)`. `args` is the last field of `pcb_t`, so bytes past it come from the kernel stack memory after the PCB (`Beyond`: zero or a stray byte). `Strncpy` is the C library's `strncpy`: `lib.c` is not in the repository.
* **Rtc:** `IdtInit` (`init_IDT`, loading `I!InitIDT` over the all-absent power-on table), `PicInit` (`i8259_init`) and `RtcInit` (`rtc_init`: unmask IRQ 8 and 2, then `sti`) from power-on; `RtcHandler`, taken only when `P!Deliverable(8)` and vector 0x28's gate is present and leads to `rtc_handler`, puts IRQ 8's lines in service and removes them with `send_eoi`; `RtcOpen`, `RtcWrite`, and `rtc_read`, each entered through `int 0x80` only when that gate allows user mode (`CanCall`), with `rtc_read` in two halves: `RtcReadStart` (cli_and_save, `in_count = 0`, sti) and `RtcReadReturn` (the spin ends, restore_flags), with `RtcReadSpin` the loop itself, so a reader that can never be woken is a behaviour that spins forever rather than a deadlock. The halves are split because the handler runs between them. `OtherCode` is the rest of the program, which may run with interrupts on or off between RTC calls.
* **TuxCtl:**
  * The driver's actions are `IoctlInit`, `IoctlSetLed` and `HandlePacket`. `HandlePacket` is the whole switch, fall-through included: BIOC_EVENT, ACK and RESET all end in `tux_init` plus `tux_set_led(prev_state_leds)`.
  * The device's actions are `DeviceExec` (execute the oldest command, answer MTCP_ACK), `DeviceButton` and `DeviceReset`.
  * `Put` is `tuxctl_ldisc_put`: commands beyond the buffer's `LineCap` are dropped. `Send` is the receive side: a packet that arrives while `HostCap` packets wait is lost.
  * The line discipline (`tuxctl-ld.c`) and the device are not in the repository. They are modelled from the MTCP protocol that the driver's comments describe, and marked `spec_modelled` in the map.
* **Terminal:**
  * One action per case of `keyboard_handler` that changes the buffer or a flag: `KeyChar` (`print_to_screen`), `KeyBackspace`, `KeyTab`, `KeyCtrl`, `KeyL` (CTRL-L or a plain 'l'), `KeyAlt`, `KeyEnter` and `KeyF` (F1..F3, which calls `TerminalSwitch` with ALT held). Each is atomic, because the handler runs under `cli`.
  * `terminal_read` is three steps: `ReadStart` (sti, start spinning), `ReadCopy` (the spin ends, the copy loop of the nbytes path) and `ReadClear` (`num_chars_typed = 0`, flag cleared, `clear_keyboard_buff`). It is split at line 123's `sti`, because keystrokes can arrive between these steps.
  * The ghost `typed` is what the user typed on each terminal since its last read. It is the user's view against which the buffer is checked.

## Runs

| run | cfg | expect | what it shows |
|---|---|---|---|
| engine | `MCSyscall.cfg` | pass | `TypeOK`; `ContextCoherent` (pcb_obj, program page, tss.esp0 and active flag all belong to the running process, also in both `sti` windows); `FdTableWellFormed` (stdin/stdout open in live PCBs, nothing open in free ones, in-use ⇔ non-null operation table, which `system_write` relies on because it skips the flag check); `ReadsFollowImage` (for every descriptor any reachable state holds and every read size, `file_read` returns exactly the next bytes of `ContentOf` its inode, 0 at the end and -1 for nbytes ≤ 0, and `directory_read` returns the names in boot-block order, one empty read at `dir_count`, then -1). The view `EngineView` leaves out the history variables `mapped` and `lastRet`, which no action and none of these properties read. |
| parse | `MCCommandParse.cfg` | pass | `NameIsFirstToken`: for every command of up to 4 characters over {a, b, blank}, the name `execute` looks up is the text before the first blank. The code builds fname by dropping blanks and relies on the zero a blank leaves. |
| parse_getargs | `MCCommandParse_getargs.cfg` | violation | `GetArgsIsTail`: what a started program reads back with `getargs` is its tail after the first blank, cut to `pcb->args` and zero-filled, and `getargs` fails exactly when there is none. TLC's trace: `"a"` with the uninitialised `arg_starting_index` (syscall.c:142) holding -1 hands the program a stray byte and `a`. With that cause excluded, `"a  b"` gives `b` (the last blank, line 138), and `"a aa"` with `nbytes` 4 copies past the unterminated 2-byte `args` (line 212) into the stack memory after the PCB. |
| rtc | `MCRtc.cfg` | pass | `WriteProgramsFreq`: `rtc_write` of a power of two from 2 to 1024 Hz sets the RTC to exactly that rate (32768 >> (rate-1)), and any other value leaves it unchanged. `ReadReturns`: every `rtc_read` returns, including one entered with interrupts masked (its `sti` lets the tick in), with the tick delivered through the PIC model, so each handler's `send_eoi` must release both chips for the next tick. `IdtGatesSound`: once `init_IDT` has run, every present gate has a handler, the processor exceptions 0..19 are present, and only vector 0x80 can be raised from user mode. |
| rtc_write_ret | `MCRtc_write.cfg` | violation | `WriteReportsSuccess`: `rtc_set_freq` returns 1 on success, so `rtc_write` (and `rtc_open`) report -1 after programming the rate (rtc.c:129). |
| tux_encode | `MCTuxEncode.cfg` | pass | `LedFrameLayout`: each of the four displays gets its digit's table byte, blank when its bit 16+k is clear, and dp exactly when bit 24+k is set. `ButtonLayout`: `button_val` is [right left down up C B A START] for every packet. |
| tux_protocol | `MCTuxCtl.cfg` | pass | `ShownAccepted`: the display only ever shows a value some TUX_SET_LED accepted. `NoLedLockout`: after TUX_SET_LED clears `ack_flag`, it is always set again, even with packets lost, buffers full and device resets. |
| tux_ack_storm | `MCTuxCtl_settle.cfg` | violation | `SettlesAfterCalls`: MTCP_ACK falls through into MTCP_RESET (tuxctl-ioctl.c:121), so every ACK re-sends three commands. After one ioctl, the line never falls quiet. |
| terminal | `MCTerminal.cfg` | pass | `TypeOK`; `ReadReturnsAfterEnter`: a `terminal_read` that is spinning when ENTER is pending returns. |
| terminal_keys | `MCTerminal_keys.cfg` | violation | `TypedTextKept`: outside a read, the first `num_chars_typed` bytes of `keyboard_buffer` are what the user typed on the current terminal since the last read. TLC's shortest trace is one TAB, which leaves a zero hole (keyboard.c:165). The same run, with that case excluded, reaches three more losses: a key typed into a full buffer lands past the array (keyboard.c:96); after a switch away and back, the bytes return but `num_chars_typed` stays 0 (terminal_driver.c:57); and a key typed between `terminal_read`'s copy and its clear is wiped, because interrupts are on from line 123 (terminal_driver.c:155). |
| engine_vidmap | `MCSyscall_vidmap.cfg` | violation | `VidmapOwned`: the user video page (PDE 40) is present only while a live process has called `vidmap`. TLC's trace: a child maps the page and exits, and its parent keeps the mapping, because halt re-points only the program page (syscall.c:603, 385). |
| engine_halt_window | `MCSyscall_halt.cfg` | violation | `ImplementsProcessTree`: the engine refines `ProcessTree` (`procs <- Stack`, `result <- lastRet.val`), so a process keeps its id and kernel stack until its halt has returned, and each halt pops exactly the top process. TLC's trace: shell 0 runs child 1. Child 1 halts, and between halt's `sti` and its `leave; ret` (syscall.c:405-422) Alt+F2 starts a shell. `assign_PID` gives that shell slot 1, freed a moment before, so its PCB and `tss.esp0` are those of the kernel stack that still holds child 1's halt and the keyboard interrupt. When the new shell halts, its status is delivered while the stack is still `<<0, 1>>`: two processes held id 1. The model keeps the frames intact, so control goes back through `terminal_init` and the interrupt into the old halt. In the kernel, the new shell's system calls start at the top of slot 1's kernel stack and overwrite those frames, so neither return is sound. |

Defects seen in the source while modelling, with no run of their own:
* `pid = -99` after a refused execute (syscall.c:190). `ContextCoherent` in the engine run shows that the next halt and spawn are not derailed by it.
* The seven-segment byte for hex digit E (`SSE = 0xEA`, tuxctl-ioctl.c:74) lights segment B instead of D (0xE9). The `tux_encode` run compares frames through the driver's own table, so it does not catch this.
* `halt(255)` is reported as 256 (syscall.c:412).
* A TUX_SET_LED made while `ack_flag` is 0 returns 0 and is dropped (tuxctl-ioctl.c:163).
* `tux_init` raises `ack_flag` without an ACK (tuxctl-ioctl.c:200).
* A read with nbytes < 128 returns 0, and its copy is bounded by `num_chars_typed` rather than nbytes (terminal_driver.c:130).
* `vidmap` accepts a pointer of exactly 132MB (syscall.c:596: `>` where `>=` belongs); its store then faults and the caller is killed rather than getting -1. The engine run reaches this.
* `i8259_init` sends `ICW2_SLAVE` where `ICW3_SLAVE` belongs (i8259.c:34), so the secondary chip's cascade identity is whatever `ICW2_SLAVE` holds; the model takes the cascade wiring as documented.
* `execute(".")` passes the name lookup, since the file type is not checked (syscall.c:158), and then depends on inode 0's first bytes.

### Bounds

* **engine:**
  * 3 PCB slots (the code has 5), 3 descriptors per process (the code has 8) and 2 terminals (the code has 3);
  * exit statuses {0, 255}, read sizes {0, 2, 3};
  * blocks of 2 bytes (`BYTES_4KB` = 2), so a 5-byte file spans three blocks and a 3-byte one two, listed out of order (3, 0): reads of 2 and 3 bytes from positions 0, 2, 3 and 5 start and stop inside blocks, cross block boundaries and stop at the length;
  * vidmap pointers {NULL, 64, 128, 130, 132} (MB, with a 4MB page), i.e. below range, both ends and the interior.

  Three slots allow a base shell, a child and a grandchild. That reaches a full table, both halt paths, and a terminal spawn on top of a nested stack. Halt's window and a spawn in it are reached too. About 120k distinct states (under the view), about 30 seconds.
* **parse:** every command of up to 4 characters over {a, b, blank}. `NUM_CHARS_KB` = 4 and `BYTES_32B` = 2, so tails that fill `pcb->args` are reached. `getargs` is called with `nbytes` in {0, 2, 4}: none, exactly the buffer, and past it. One program name `a`, so both a one-word command and every arrangement of blanks after it start a program.
* **rtc:** frequencies {2, 3, 6, 64, 1024, 2048}. These cover the odd case, an even non-power, both table ends and one above the range.
* **tux_encode:** every hex digit in every position, with display and dp masks {0, 5, 10, 15}, and all 16×16 button nibbles.
* **tux_protocol:**
  * LED values {1, 2};
  * `LineCap` = 3 (one `HandlePacket` fills the buffer, so drops happen) and `HostCap` = 2;
  * `MaxCalls` = 3 user calls or device events. After those, the driver and the device go on alone.
* **terminal:**
  * a 2-byte buffer, with one write past it reachable (`MaxTyped` = 3);
  * 2 terminals, all keys, and 6 keystrokes;
  * read sizes {1, 2}, which cover the short and the full path.

  About 86k states.

### Mutants

Each property of a passing run is broken by a plausible bug in the code it is about:

| property | broken by |
|---|---|
| engine `TypeOK` | `assign_PID` scanning one slot past the arena |
| `ContextCoherent` | halt leaving `tss.esp0` on the child's stack |
| `FdTableWellFormed` | close clearing the flag but not the operation table |
| `ReadsFollowImage` | `read_data` indexing `data_blocks` by the block's position in the file instead of through the inode's `data_block_num` |
| parse `TypeOK`, `NameIsFirstToken` | fname copying blanks |
| rtc `TypeOK` | `rtc_handler` incrementing `in_count` |
| `IdtGatesSound` | `init_IDT` without the RTC's `SET_IDT_ENTRY` |
| `WriteProgramsFreq` | the rate table shifted by one from 64 Hz |
| `ReadReturns` | `send_eoi` for IRQ 8 acknowledging only the secondary chip |
| `LedFrameLayout` | decimal point 1 shifted by 2 instead of 3 |
| `ButtonLayout` | left and down shifted the wrong way |
| tux_protocol `TypeOK` | the ldisc's free space computed one too high |
| `ShownAccepted` | the packet handler re-sending the last *requested* value |
| `NoLedLockout` | a missing `MTCP_ACK` case |
| terminal `TypeOK` | BACKSPACE without the `num_chars_typed > 0` check |
| `ReadReturnsAfterEnter` | `terminal_switch` clearing `enter_pressed_flag` along with the buffer |

## Fairness

* **Rtc:** `WF(RtcHandler)`, because the periodic interrupt fires whenever it is enabled: IF set, and IRQ 8 unmasked and not blocked on either chip. Boot itself is not assumed to progress; the reads start after it. `WF(RtcReadReturn)`, because a spinning reader keeps the CPU.
* **TuxCtl:** `WF(DeviceExec)`, because the device works through its command queue. `WF(HandlePacket)`, because the line discipline hands every received packet to the driver. The user and the buttons are not fair, and the user calls at most `MaxCalls` times.
* **Terminal:** `WF(ReadCopy)` and `WF(ReadClear)`, because the reader spins on the CPU with interrupts on. The user is not fair: nothing assumes that ENTER is ever typed, so the liveness property is conditioned on a pending ENTER. With the keystroke bound, the model may stop with a reader waiting for an ENTER that never comes, which is also a real end state. `CHECK_DEADLOCK FALSE` says so.
* **engine:** no fairness. Its properties are safety properties. `engine_halt_window` checks a refinement of a safety specification.

## Not modelled, and why

* Byte contents of screens and terminal buffers (files are modelled byte by byte in `Filesystem`). Terminal characters are one printable value: shift and caps lock only choose which printable byte `print_to_screen` stores.
* `paging_init`'s table contents, `terminal_videopage_init` and the TLB flushes: only which page-directory entries are present matters to the properties, and `Present` keeps that.
* The gates' selector and reserved bits other than the gate type, and the assembly linkage stubs (not in the repository), which only save registers around the C handlers.
* The 8259's ICW1-ICW4 port writes in `i8259_init` are hardware configuration, not driver state. `disable_irq` is never called (rtc.c:18 is commented out). `i8259.h` is not in the repository; its constants are CONSTANTS with the values its users' comments state.
* `system_write` changes no kernel state the properties tell apart, except through `rtc_write`, which `Rtc` models.
* `terminal_write` only draws, and `terminal_open/close` and `rtc_close` return 0. `tux_buttons` copies `button_val` out without changing any state.
* `tests.c` is test code. `file.c` is an unused draft.
* The kernel entry (`kernel.c`), which orders `init_IDT`, `i8259_init` and `rtc_init` at boot (`Rtc` takes them in that order, all before the first `sti`), the tux line discipline and the tux device firmware are not in the repository. The map marks what is modelled from the specification and from the driver's protocol comments as `spec_modelled`.
* `Terminal` has one reader. The kernel has no scheduler: a shell started by Alt+F runs on top of the interrupted process. Here it is a fresh reader, and `Syscall` models the process stack.

## Plan

1. Compose `Terminal` with `Syscall`, so that a terminal spawn in the middle of a `terminal_read` suspends the reader.
