----------------------------- MODULE ProcessTree -----------------------------
(***************************************************************************)
(* What the load/execute/halt engine promises, with the PCB arena, paging, *)
(* the TSS and the saved stack pointers abstracted away: the processes form *)
(* a single stack whose bottom is the base shell, a process id is its depth *)
(* in that stack (ids are drawn lowest-first from a fixed pool), execute    *)
(* pushes one process and halt pops exactly the top one and hands its exit *)
(* value to the execute call beneath it. A refused execute delivers -1.     *)
(***************************************************************************)
EXTENDS Integers, Sequences

CONSTANT MAX_PROCESSES

VARIABLES
  procs,   \* the process stack, bottom first; procs[i] is an id
  result   \* the value the last execute call returned to its caller

vars == <<procs, result>>

Init ==
  /\ procs = <<>>
  /\ result = 0

\* The kernel starts the base shell.
Start ==
  /\ procs = <<>>
  /\ procs' = <<0>>
  /\ UNCHANGED result

\* execute succeeds: the child gets the id equal to its depth.
Spawn ==
  /\ 0 < Len(procs) /\ Len(procs) < MAX_PROCESSES
  /\ procs' = Append(procs, Len(procs))
  /\ UNCHANGED result

\* execute fails and returns -1; no process is created or destroyed.
Refuse ==
  /\ result' = -1
  /\ UNCHANGED procs

\* halt of a non-root process: it leaves the stack and its exit value
\* (an 8-bit status, or 256 for an exception) reaches its parent.
Exit ==
  /\ Len(procs) > 1
  /\ procs' = SubSeq(procs, 1, Len(procs) - 1)
  /\ result' \in 0 .. 256

\* halt of the base shell replaces it by a fresh one: the stack is unchanged.
Next == Start \/ Spawn \/ Refuse \/ Exit

Spec == Init /\ [][Next]_vars
==============================================================================
