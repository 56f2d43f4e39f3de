----------------------------- MODULE Filesystem -----------------------------
(***************************************************************************)
(* The read-only file system of the mp3 kernel (filesystem.c and the       *)
(* layout in filesystem.h), as operators over a fixed image: the boot      *)
(* block's directory entries, the inodes with their data-block numbers and *)
(* the data blocks.  Every operator is a translation of one function; the  *)
(* descriptor state they read and advance (file_position) belongs to the   *)
(* PCBs and is kept by Syscall, which instantiates this module.  ContentOf *)
(* and Listing are the references the translations are checked against.   *)
(***************************************************************************)
EXTENDS Integers, Sequences, SequencesExt

CONSTANTS
  BYTES_4KB,       \* bytes per data block (types.h:20)
  BYTES_32B,       \* file_name bytes of a dentry (types.h:16)
  NUM_MAX_FILES,   \* dentry slots of the boot block (filesystem.h:22)
  Direntries,      \* boot_block->direntries[0 .. dir_count-1]
  Inodes,          \* inodes[0 .. inode_count-1]
  DataBlocks       \* data_blocks: block number -> its bytes

\* The image's records as filesystem.h lays them out; a name is kept as
\* one string of at most 32 characters (strncmp over 32 bytes is then
\* equality), a block's bytes as a sequence of BYTES_4KB bytes.
Dentry == [name : STRING, file_type : {0, 1, 2}, inode : Nat]
Inode == [length : Nat, data_block_num : Seq(Nat)]

DirCount == Len(Direntries)      \* boot_block->dir_count
InodeCount == Len(Inodes)        \* boot_block->inode_count

ASSUME /\ Direntries \in Seq(Dentry) /\ Inodes \in Seq(Inode)
       /\ \A b \in DOMAIN DataBlocks : Len(DataBlocks[b]) = BYTES_4KB
       \* index dir_count is read, so a full boot block would read past
       \* direntries[]; the images checked leave a zero-filled slot there
       /\ DirCount < NUM_MAX_FILES

\* The slot after the last entry of an image: all zero bytes.
ZeroDentry == [name |-> "", file_type |-> 0, inode |-> 0]

\* Mutant: index dir_count is refused as well.
ReadDentryByIndexStrict(index) ==
  IF index >= DirCount \/ NUM_MAX_FILES < index
  THEN [ret |-> -1, dentry |-> ZeroDentry]
  ELSE [ret |-> 0, dentry |-> Direntries[index + 1]]

\* read_dentry_by_index: an index above dir_count (or NUM_MAX_FILES) is
\* refused; any other index, dir_count itself included, is copied out.
\* Indices are 0-based as in the code.
ReadDentryByIndex(index) ==
  IF index > DirCount \/ NUM_MAX_FILES < index
  THEN [ret |-> -1, dentry |-> ZeroDentry]
  ELSE [ret |-> 0,
        dentry |-> IF index < DirCount THEN Direntries[index + 1]
                   ELSE ZeroDentry]

\* read_dentry_by_name: the first of the dir_count entries whose name
\* matches, or -1.
ReadDentryByName(fname) ==
  LET hits == {i \in 0 .. DirCount - 1 : Direntries[i + 1].name = fname}
  IN IF hits = {} THEN [ret |-> -1, dentry |-> ZeroDentry]
     ELSE ReadDentryByIndex(CHOOSE i \in hits : \A j \in hits : i <= j)

\* Mutant: the block number is taken as the data block itself, without
\* the inode's data_block_num table.
ByteAtNoIndirection(inode, idx) ==
  DataBlocks[idx \div BYTES_4KB][(idx % BYTES_4KB) + 1]

\* The byte at file index idx: data block idx / 4096 of the inode, byte
\* idx % 4096 of that block.
ByteAt(inode, idx) ==
  DataBlocks[Inodes[inode + 1].data_block_num[(idx \div BYTES_4KB) + 1]]
            [(idx % BYTES_4KB) + 1]

\* The copy loop of read_data, from current_byte_index = idx up to end:
\* it stops early, returning the bytes copied, when it meets the length.
RECURSIVE Copy(_, _, _, _)
Copy(inode, idx, end, buf) ==
  IF idx >= end \/ idx = Inodes[inode + 1].length
  THEN [ret |-> Len(buf), bytes |-> buf]
  ELSE Copy(inode, idx + 1, end, Append(buf, ByteAt(inode, idx)))

\* read_data: -1 for an inode past inode_count, 0 at or past the end of
\* the file, otherwise the bytes from offset, at most length of them.
ReadData(inode, offset, length) ==
  IF inode > InodeCount - 1 THEN [ret |-> -1, bytes |-> <<>>]
  ELSE IF offset >= Inodes[inode + 1].length THEN [ret |-> 0, bytes |-> <<>>]
  ELSE Copy(inode, offset, offset + length, <<>>)

\* strlen of the 32 bytes strncpy put into the caller's buffer, capped at
\* 32 by directory_read (a 32-character name has no terminator).
NameLength(name) == IF Len(name) > BYTES_32B THEN BYTES_32B ELSE Len(name)

\* directory_read at file_position pos: the dentry at pos is copied out
\* and the position advances; the result is the name's length (0 for the
\* zero-filled slot at dir_count), or -1 past it.
DirectoryRead(pos) ==
  LET d == ReadDentryByIndex(pos) IN
  IF d.ret = -1 THEN [ret |-> -1, bytes |-> "", pos |-> pos]
  ELSE [ret |-> NameLength(d.dentry.name), bytes |-> d.dentry.name,
        pos |-> pos + 1]

\* file_read at file_position pos: nbytes <= 0 or a bad inode is -1,
\* otherwise the position advances by what read_data copied.
FileRead(inode, pos, nbytes) ==
  LET r == ReadData(inode, pos, nbytes) IN
  IF nbytes <= 0 \/ r.ret = -1 THEN [ret |-> -1, bytes |-> <<>>, pos |-> pos]
  ELSE [ret |-> r.ret, bytes |-> r.bytes, pos |-> pos + r.ret]

-----------------------------------------------------------------------------
(* References                                                              *)

\* A file's contents: its data blocks laid end to end, cut at its length.
ContentOf(inode) ==
  LET blocks == Inodes[inode + 1].data_block_num IN
  SubSeq(FlattenSeq([k \in DOMAIN blocks |-> DataBlocks[blocks[k]]]),
         1, Inodes[inode + 1].length)

\* What a directory listing reads at position pos: the names in boot-block
\* order, then one empty read (0) that ends the listing.
Listing(pos) ==
  IF pos < DirCount THEN Direntries[pos + 1].name ELSE ""
==============================================================================
