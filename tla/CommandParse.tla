---------------------------- MODULE CommandParse ----------------------------
(***************************************************************************)
(* The command-line split at the start of system_execute (syscall.c       *)
(* 111-155) and the copy of the argument tail into pcb->args (line 212).   *)
(* A command is a sequence of characters; NUL is the zero byte, Space the  *)
(* blank.  The code copies every non-blank character of the command to the *)
(* same index of fname (a blank leaves a zero there), remembers the index  *)
(* after the LAST blank, and copies the command from that index into args. *)
(* When the command has no blank that index is never written: the read of *)
(* the uninitialised local is any value the stack slot happens to hold.    *)
(* The program then reads its arguments back with system_getargs (syscall.c*)
(* 569-587), a strncpy out of pcb->args; args is the last field of the PCB, *)
(* so a copy that runs past its 32 bytes reads the kernel stack memory     *)
(* that follows it.                                                        *)
(***************************************************************************)
EXTENDS Integers, Sequences

CONSTANTS
  Chars,        \* the non-blank characters commands are made of
  Space,        \* ' '
  NUL,          \* '\0'
  Stray,        \* a byte read from outside the command buffer
  MaxLen,       \* longest command enumerated
  NUM_CHARS_KB, \* longest command execute accepts (keyboard.h:16)
  BYTES_32B,    \* size of pcb->args (syscall.h)
  StackJunk,    \* values the uninitialised arg_starting_index may hold
  Programs,     \* fnames that name an executable (the lookup and ELF check
                \* of lines 158-187, modelled in Syscall)
  NBytes,       \* nbytes a program passes to getargs (strncpy's n is unsigned)
  Beyond        \* bytes the kernel stack may hold just past pcb->args

ASSUME Space \notin Chars /\ NUL \notin Chars /\ NBytes \subseteq Nat

Commands == UNION {[1 .. n -> Chars \cup {Space}] : n \in 0 .. MaxLen}

VARIABLES
  command,   \* the string passed to execute
  parsed,    \* [fname, args, stored], or NoParse before the split
  got        \* the program's getargs call: its buffer, nbytes, result

vars == <<command, parsed, got>>

NoParse == [fname |-> <<>>, args |-> <<>>, stored |-> <<>>, done |-> FALSE]
NoCall == [done |-> FALSE, ptr |-> "null", n |-> 0, ret |-> 0, buf |-> <<>>]

\* A C string read from a zero-filled buffer: the bytes before the first NUL.
CString(buf) ==
  LET stops == {i \in DOMAIN buf : buf[i] = NUL}
      end == IF stops = {} THEN Len(buf) + 1
             ELSE CHOOSE i \in stops : \A j \in stops : i <= j
  IN SubSeq(buf, 1, end - 1)

\* Mutant: blanks are copied into fname instead of leaving a zero.
FnameKeepsBlanks(cmd) == cmd

\* Lines 132-140, fname half: fname[i] = command[i] for every non-blank.
Fname(cmd) == [i \in DOMAIN cmd |-> IF cmd[i] /= Space THEN cmd[i] ELSE NUL]

\* Lines 132-140, the other half: the index after the last blank, or the
\* uninitialised value when there is none.
ArgStarts(cmd) ==
  LET blanks == {i \in DOMAIN cmd : cmd[i] = Space}
  IN IF blanks = {} THEN StackJunk
     ELSE {CHOOSE i \in blanks : \A j \in blanks : i >= j}

\* Lines 142-155 with 0-based start: args[i] = command[start + i] while the
\* index is below strlen; an index before the buffer reads a stray byte.
ArgsFrom(cmd, start) ==
  [i \in 1 .. (IF start < Len(cmd) THEN Len(cmd) - start ELSE 0) |->
     IF start + i >= 1 THEN cmd[start + i] ELSE Stray]

\* strncpy(dest, src, n): the n bytes of dest are src up to its first
\* zero, then zeros; src must hold at least n bytes.
Strncpy(src, n) ==
  LET stops == {i \in 1 .. n : src[i] = NUL}
      stop == IF stops = {} THEN n + 1
              ELSE CHOOSE i \in stops : \A j \in stops : i <= j
  IN [i \in 1 .. n |-> IF i < stop THEN src[i] ELSE NUL]

\* Line 212: strncpy(pcb->args, args, 32) from the zero-filled args buffer;
\* a tail of 32 or more bytes gets no terminator.
StoredArgs(args) ==
  Strncpy(args \o [i \in 1 .. BYTES_32B |-> NUL], BYTES_32B)

\* system_execute up to the PCB commit: the length check, then the split.
Split ==
  /\ ~parsed.done
  /\ Len(command) <= NUM_CHARS_KB
  /\ \E start \in ArgStarts(command) :
       LET args == ArgsFrom(command, start) IN
       parsed' = [fname |-> CString(Fname(command)), args |-> args,
                  stored |-> StoredArgs(args), done |-> TRUE]
  /\ UNCHANGED <<command, got>>

\* system_getargs(buf, nbytes) from the started program (execute went on
\* only if fname names an executable): NULL, or a first
\* argument byte of zero, is -1; otherwise strncpy(buf, pcb->args, nbytes),
\* which reads on past the 32 bytes of args into whatever follows them.
GetArgs ==
  /\ parsed.done /\ ~got.done
  /\ parsed.fname \in Programs
  /\ \E ptr \in {"null", "user"}, n \in NBytes :
     \E after \in [1 .. n -> Beyond] :
       got' = IF ptr = "null" \/ parsed.stored[1] = NUL
              THEN [NoCall EXCEPT !.done = TRUE, !.ptr = ptr, !.n = n,
                                  !.ret = -1]
              ELSE [done |-> TRUE, ptr |-> ptr, n |-> n, ret |-> 0,
                    buf |-> Strncpy(parsed.stored \o after, n)]
  /\ UNCHANGED <<command, parsed>>

Init ==
  /\ command \in Commands
  /\ parsed = NoParse
  /\ got = NoCall

Next == Split \/ GetArgs

Spec == Init /\ [][Next]_vars

-----------------------------------------------------------------------------
(* What spec 4.1 step 2 asks: split on the FIRST blank into a name and a   *)
(* raw tail, both stored with trailing zero-fill.                          *)

FirstBlank(cmd) ==
  LET blanks == {i \in DOMAIN cmd : cmd[i] = Space}
  IN IF blanks = {} THEN Len(cmd) + 1
     ELSE CHOOSE i \in blanks : \A j \in blanks : i <= j

SpecName(cmd) == SubSeq(cmd, 1, FirstBlank(cmd) - 1)
SpecTail(cmd) == SubSeq(cmd, FirstBlank(cmd) + 1, Len(cmd))

\* A tail as a program reads it out of an nbytes buffer: at most the
\* BYTES_32B bytes the PCB keeps, then zeros.
SpecBuffer(tail, n) ==
  [i \in 1 .. n |-> IF i <= Len(tail) /\ i <= BYTES_32B THEN tail[i] ELSE NUL]

TypeOK ==
  /\ command \in Commands
  /\ parsed.fname \in Seq(Chars)
  /\ parsed.args \in Seq(Chars \cup {Space, Stray})
  /\ parsed.done \in BOOLEAN
  /\ got.ret \in {-1, 0}
  /\ got.buf \in Seq(Chars \cup {Space, Stray, NUL})

\* The program name execute looks up is the text before the first blank,
\* although the code copies every non-blank character and relies on the
\* zero a blank leaves behind to end the name.
NameIsFirstToken == parsed.done => parsed.fname = SpecName(command)

\* What system_getargs hands the program is the command's argument tail,
\* everything after the first blank, cut to the argument buffer and
\* zero-filled, and the call fails exactly when there is no tail: whatever
\* the stack held in the uninitialised arg_starting_index, however many
\* blanks the command has, and whatever lies past an unterminated args.
GetArgsIsTail ==
  got.done /\ got.ptr = "user" =>
    IF SpecTail(command) = <<>> THEN got.ret = -1
    ELSE got.ret = 0 /\ got.buf = SpecBuffer(SpecTail(command), got.n)
==============================================================================
