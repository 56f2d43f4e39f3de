------------------------------ MODULE Terminal ------------------------------
(***************************************************************************)
(* The keyboard line buffer (keyboard.c) shared by the keyboard interrupt  *)
(* and terminal_read, with the buffer save/restore of terminal_switch      *)
(* (terminal_driver.c).  keyboard_handler runs with interrupts masked, so  *)
(* each keystroke is one atomic step.  terminal_read enables interrupts at *)
(* line 123 and keeps them enabled while it spins, copies and clears, so   *)
(* keystrokes interleave with its copy and its clear.  The reader is the   *)
(* process in the foreground; a switch to a terminal never opened starts   *)
(* a shell on top of it (modelled in Syscall), which here is a fresh       *)
(* reader.  Characters are abstracted to one printable value C; the table  *)
(* lookups of print_to_screen (shift, caps lock) only choose which         *)
(* printable value is stored and are not modelled.                         *)
(***************************************************************************)
EXTENDS Integers, Sequences

CONSTANTS
  C, TAB, NL, ZERO,   \* a printable character, '\t', '\n', '\0'
  NUM_CHARS_KB,       \* size of keyboard_buffer
  NUM_TERMINALS,
  Keys,               \* the keys the user may press
  ReadSizes,          \* nbytes of the reads (nonzero; 0 returns at once)
  MaxTyped,           \* bound on num_chars_typed
  MaxKeys             \* bound on keystrokes per behaviour

Terms == 0 .. NUM_TERMINALS - 1
Idx == 0 .. NUM_CHARS_KB - 1
Blank == [i \in Idx |-> ZERO]

VARIABLES
  buf,       \* keyboard_buffer
  num,       \* num_chars_typed
  enter,     \* enter_pressed_flag
  ctrl,      \* ctrl_pressed
  alt,       \* alt_pressed
  curr,      \* curr_terminal_id
  active,    \* terminals[t].active
  saved,     \* terminals[t].keyboard_buffer
  pc,        \* the reader: "idle", "wait" (spinning), "copied"
  nb,        \* nbytes of the read in progress
  got,       \* the bytes the read returned
  overflow,  \* a keystroke was stored outside keyboard_buffer
  typed,     \* per terminal: what the user typed since its last read
  keys       \* keystrokes so far

vars == <<buf, num, enter, ctrl, alt, curr, active, saved, pc, nb, got,
          overflow, typed, keys>>
kbd == <<buf, num, enter, ctrl, alt, curr, active, saved, overflow, keys>>
reader == <<pc, nb, got>>

\* keyboard_buffer[i] = ch, or a write outside the array.
Store(i, ch) ==
  IF i \in Idx THEN buf' = [buf EXCEPT ![i] = ch] /\ UNCHANGED overflow
  ELSE overflow' = TRUE /\ UNCHANGED buf

\* One keyboard interrupt, for a key the user may press.
Key(k) == k \in Keys /\ keys < MaxKeys /\ keys' = keys + 1

\* A keystroke that stores a byte: within the bound on what is typed.
Grow == num < MaxTyped /\ Len(typed[curr]) < MaxTyped

\* The user's view of a keystroke on the current terminal.
Typed(s) == typed' = [typed EXCEPT ![curr] = s]

\* print_to_screen (lines 65-105): store, then count.
KeyChar ==
  /\ Key("char") /\ Grow
  /\ Store(num, C) /\ num' = num + 1
  /\ Typed(Append(typed[curr], C))
  /\ UNCHANGED <<enter, ctrl, alt, curr, active, saved>> /\ UNCHANGED reader

\* Mutant: BACKSPACE without the num_chars_typed > 0 check.
KeyBackspaceUnguarded ==
  /\ Key("bs")
  /\ num' = num - 1
  /\ Typed(IF typed[curr] = <<>> THEN <<>>
           ELSE SubSeq(typed[curr], 1, Len(typed[curr]) - 1))
  /\ UNCHANGED <<buf, enter, ctrl, alt, curr, active, saved, overflow>>
  /\ UNCHANGED reader

\* BACKSPACE (lines 146-160).
KeyBackspace ==
  /\ Key("bs")
  /\ IF num > 0 THEN num' = num - 1 ELSE UNCHANGED num
  /\ Typed(IF typed[curr] = <<>> THEN <<>>
           ELSE SubSeq(typed[curr], 1, Len(typed[curr]) - 1))
  /\ UNCHANGED <<buf, enter, ctrl, alt, curr, active, saved, overflow>>
  /\ UNCHANGED reader

\* TAB (lines 161-167): count first, then store.
KeyTab ==
  /\ Key("tab") /\ Grow
  /\ num' = num + 1 /\ Store(num + 1, TAB)
  /\ Typed(Append(typed[curr], TAB))
  /\ UNCHANGED <<enter, ctrl, alt, curr, active, saved>> /\ UNCHANGED reader

\* CTRL press or release (lines 168-173), alternating.
KeyCtrl ==
  /\ Key("ctrl")
  /\ ctrl' = 1 - ctrl
  /\ UNCHANGED <<buf, num, enter, alt, curr, active, saved, overflow, typed>>
  /\ UNCHANGED reader

\* 'l' (lines 174-193): with CTRL it only redraws the screen.
KeyL ==
  /\ Key("l") /\ Grow
  /\ IF ctrl = 1
     THEN UNCHANGED <<buf, num, overflow, typed>>
     ELSE Store(num, C) /\ num' = num + 1 /\ Typed(Append(typed[curr], C))
  /\ UNCHANGED <<enter, ctrl, alt, curr, active, saved>> /\ UNCHANGED reader

\* ALT press or release (lines 206-211), alternating.
KeyAlt ==
  /\ Key("alt")
  /\ alt' = 1 - alt
  /\ UNCHANGED <<buf, num, enter, ctrl, curr, active, saved, overflow, typed>>
  /\ UNCHANGED reader

\* ENTER (lines 236-241).
KeyEnter ==
  /\ Key("enter") /\ Grow
  /\ enter' = 1 /\ Store(num, NL) /\ num' = num + 1
  /\ Typed(Append(typed[curr], NL))
  /\ UNCHANGED <<ctrl, alt, curr, active, saved>> /\ UNCHANGED reader

\* Mutant: clearing the keyboard buffer also drops a pending ENTER.
TerminalSwitchDropsEnter(t) ==
  /\ t /= curr
  /\ enter' = 0
  /\ IF active[t]
     THEN /\ saved' = [saved EXCEPT ![curr] = buf]
          /\ buf' = saved[t] /\ curr' = t /\ UNCHANGED <<active, reader>>
     ELSE /\ saved' = [saved EXCEPT ![curr] = buf, ![t] = Blank]
          /\ buf' = Blank /\ curr' = t /\ active' = [active EXCEPT ![t] = TRUE]
          /\ pc' = "idle" /\ UNCHANGED <<nb, got>>
  /\ num' = 0

\* terminal_switch (lines 46-83): the buffer is saved into the current
\* terminal and cleared (num = 0); an open terminal's buffer is copied
\* back, num stays 0.  A terminal never opened goes to terminal_init
\* (lines 13-42), which stores the cleared buffer and starts a shell: the
\* reader in the foreground is now that shell, not yet reading.
TerminalSwitch(t) ==
  /\ t /= curr
  /\ IF active[t]
     THEN /\ saved' = [saved EXCEPT ![curr] = buf]
          /\ buf' = saved[t] /\ curr' = t /\ UNCHANGED <<active, reader>>
     ELSE /\ saved' = [saved EXCEPT ![curr] = buf, ![t] = Blank]
          /\ buf' = Blank /\ curr' = t /\ active' = [active EXCEPT ![t] = TRUE]
          /\ pc' = "idle" /\ UNCHANGED <<nb, got>>
  /\ num' = 0
  /\ UNCHANGED enter

\* F1..F3 (lines 212-229): with ALT held, switch to terminal 0..2.
KeyF ==
  /\ Key("f")
  /\ \E t \in Terms :
       IF alt = 1 THEN TerminalSwitch(t)
       ELSE UNCHANGED <<buf, num, enter, curr, active, saved>> /\ UNCHANGED reader
  /\ UNCHANGED <<ctrl, alt, overflow, typed>>

\* terminal_read, lines 116-123: a nonzero read enables interrupts and
\* starts to spin on enter_pressed_flag (the previous result is dropped).
ReadStart ==
  /\ pc = "idle"
  /\ \E n \in ReadSizes : nb' = n
  /\ pc' = "wait"
  /\ got' = <<>>
  /\ UNCHANGED kbd /\ UNCHANGED typed

\* The user's line: what was typed up to and including the first '\n';
\* a read consumes it from what the user typed.
LineEnd(s) ==
  LET nls == {i \in DOMAIN s : s[i] = NL}
  IN IF nls = {} THEN Len(s) ELSE CHOOSE i \in nls : \A j \in nls : i <= j

\* The bytes the buffer holds for the first n characters typed.
Visible(b, n) ==
  [i \in 1 .. (IF n < NUM_CHARS_KB THEN n ELSE NUM_CHARS_KB) |-> b[i - 1]]

\* terminal_read, lines 125-154: the spin ends; below NUM_CHARS_KB the copy
\* stops at (and counts) the first zero byte and counts 0 when there is
\* none; otherwise num_chars_typed bytes are copied and a zero is written
\* after them.
ReadCopy ==
  /\ pc = "wait" /\ enter = 1
  /\ LET v == Visible(buf, num)
         zs == {i \in DOMAIN v : v[i] = ZERO}
         z == CHOOSE i \in zs : \A j \in zs : i <= j
     IN IF nb < NUM_CHARS_KB
        THEN got' = IF zs = {} THEN <<>> ELSE SubSeq(v, 1, z)
        ELSE got' = v
  /\ Typed(SubSeq(typed[curr], LineEnd(typed[curr]) + 1, Len(typed[curr])))
  /\ pc' = "copied"
  /\ UNCHANGED <<nb>> /\ UNCHANGED kbd

\* terminal_read, lines 155-162: num_chars_typed = 0, the flag cleared,
\* clear_keyboard_buff, return.
ReadClear ==
  /\ pc = "copied"
  /\ num' = 0 /\ enter' = 0 /\ buf' = Blank
  /\ pc' = "idle"
  /\ UNCHANGED <<ctrl, alt, curr, active, saved, overflow, typed, keys>>
  /\ UNCHANGED <<nb, got>>

Init ==
  /\ buf = Blank /\ num = 0 /\ enter = 0 /\ ctrl = 0 /\ alt = 0
  /\ curr = 0
  /\ active = [t \in Terms |-> t = 0]
  /\ saved = [t \in Terms |-> Blank]
  /\ pc = "idle" /\ nb = 0 /\ got = <<>>
  /\ overflow = FALSE
  /\ typed = [t \in Terms |-> <<>>]
  /\ keys = 0

Next ==
  \/ KeyChar \/ KeyBackspace \/ KeyTab \/ KeyCtrl \/ KeyL \/ KeyAlt
  \/ KeyEnter \/ KeyF
  \/ ReadStart \/ ReadCopy \/ ReadClear

\* The reader owns the CPU while it spins with interrupts enabled: its
\* steps are weakly fair.  The user is not.
Spec == Init /\ [][Next]_vars /\ WF_vars(ReadCopy) /\ WF_vars(ReadClear)

-----------------------------------------------------------------------------
Bytes == {C, TAB, NL, ZERO}

TypeOK ==
  /\ buf \in [Idx -> Bytes] /\ saved \in [Terms -> [Idx -> Bytes]]
  /\ num \in 0 .. MaxTyped
  /\ enter \in {0, 1} /\ ctrl \in {0, 1} /\ alt \in {0, 1}
  /\ curr \in Terms /\ active \in [Terms -> BOOLEAN] /\ active[curr]
  /\ pc \in {"idle", "wait", "copied"} /\ nb \in ReadSizes \cup {0}
  /\ got \in Seq(Bytes)
  /\ overflow \in BOOLEAN
  /\ typed \in [Terms -> Seq(Bytes \ {ZERO})]
  /\ keys \in 0 .. MaxKeys

\* A terminal_read that is spinning when ENTER has been pressed returns:
\* nothing between the keyboard interrupt and the reader takes the
\* pending ENTER away (terminal_switch clears the buffer, not the flag).
ReadReturnsAfterEnter == (pc = "wait" /\ enter = 1) ~> pc /= "wait"

\* Outside a read, keyboard_buffer[0 .. num_chars_typed - 1] holds what the
\* user typed on the current terminal since its last read: no keystroke is
\* lost to TAB's expansion, to a full buffer, to a terminal switch and back,
\* or to the clear at the end of terminal_read.
TypedTextKept == pc /= "copied" => Visible(buf, num) = typed[curr]
==============================================================================
