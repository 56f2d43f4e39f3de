------------------------------ MODULE MCSyscall ------------------------------
(***************************************************************************)
(* Syscall instantiated for TLC.  The image has two-byte blocks: the shell *)
(* (five bytes starting with the ELF magic, in blocks 0, 1, 2), a text file *)
(* of three bytes whose blocks are 3 then 0 (too short to be a program,   *)
(* and read across a block boundary out of block order) and the          *)
(* directory "."; execute and open are also given a name that is not in   *)
(* the directory.                                                          *)
(***************************************************************************)
EXTENDS Syscall, TLC

MCDirentries ==
  << [name |-> ".", file_type |-> 1, inode |-> 0],
     [name |-> "shell", file_type |-> 2, inode |-> 0],
     [name |-> "frame0.txt", file_type |-> 2, inode |-> 1] >>

MCInodes ==
  << [length |-> 5, data_block_num |-> <<0, 1, 2>>],
     [length |-> 3, data_block_num |-> <<3, 0>>] >>

MCDataBlocks == (0 :> <<127, 69>>) @@ (1 :> <<76, 70>>) @@ (2 :> <<9, 0>>)
                @@ (3 :> <<7, 8>>)

MCExecNames == {"shell", "frame0.txt", "nofile"}
MCOpenNames == {"frame0.txt", ".", "nofile"}

\* mapped and lastRet are history variables: no action reads them, only
\* VidmapOwned reads mapped and only the refinement mapping reads lastRet.
\* The passing run, which checks neither, compares states by the others.
EngineView == <<active, parent, saved, fda, pid, pcbObj, pde, vidmem, tss, ctl,
                termActive, currTerm>>

==============================================================================
