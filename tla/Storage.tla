-------------------------------- MODULE Storage --------------------------------
(***************************************************************************)
(* The ram disk (modules/ramdisk/RamDisk.c and TarParser.c) mounted in the *)
(* virtual file system (modules/vfs/VFS.c).                                *)
(*                                                                         *)
(* A header occupies one block; only its file name, of one character, and  *)
(* its size are kept.  Addresses are relative to the ram disk's entry      *)
(* address, and in blocks where the code only uses multiples of one.       *)
(***************************************************************************)
EXTENDS Integers, SequencesExt

CONSTANTS
    TAR_BLOCKSIZE,
    Archives        \* sequences of files: [filename, text]

NUL == "nul"

(* An empty name is how an archive ends.                                   *)
ASSUME StorageAssumption ==
    /\ TAR_BLOCKSIZE \in Nat \ {0}
    /\ \A files \in Archives :
         /\ files \in Seq(ToSet(files))
         /\ \A f \in DOMAIN files :
              files[f].filename # NUL /\ files[f].text \in Seq(ToSet(files[f].text))

VARIABLES
    archive,        \* what the ram disk was made from; never changes
    FS_mounts       \* the mounted devices, each with its files

storageVars == <<archive, FS_mounts>>

(* A block's bytes; as a header, its first is the name and it has a size.  *)
Block(bytes, size) == [bytes |-> bytes, size |-> size]
NULs(n) == [i \in 1 .. n |-> NUL]

Blocks(n) == (n + TAR_BLOCKSIZE - 1) \div TAR_BLOCKSIZE

(* What tar writes: for every file a header and its text in whole blocks,  *)
(* and empty blocks behind the last one.                                   *)
Header(file) ==
    Block(<<file.filename>> \o NULs(TAR_BLOCKSIZE - 1), Len(file.text))
TextBlocks(text) ==
    LET padded == text \o NULs(Blocks(Len(text)) * TAR_BLOCKSIZE - Len(text))
    IN  [b \in 1 .. Blocks(Len(text)) |->
            Block(SubSeq(padded, (b - 1) * TAR_BLOCKSIZE + 1, b * TAR_BLOCKSIZE), 0)]
Tar(files) ==
    FlattenSeq([f \in DOMAIN files |-> <<Header(files[f])>> \o TextBlocks(files[f].text)])
        \o <<Block(NULs(TAR_BLOCKSIZE), 0)>>

Image == Tar(archive)
NameAt(block) == Image[block + 1].bytes[1]
SizeAt(block) == Image[block + 1].size
Byte(addr) == Image[addr \div TAR_BLOCKSIZE + 1].bytes[(addr % TAR_BLOCKSIZE) + 1]
-----------------------------------------------------------------------------
(* TarParser.c: from one header to the next, their number, the index-th.   *)
nextHeader_Whole(b) == b + SizeAt(b) \div TAR_BLOCKSIZE + 1  \* faulty
nextHeader(b) ==
    LET length == SizeAt(b)
    IN  b + length \div TAR_BLOCKSIZE + 1
          + (IF length % TAR_BLOCKSIZE # 0 THEN 1 ELSE 0)

getHeaderAtIndex(index) ==
    LET header[i \in 0 .. index] == IF i = 0 THEN 0 ELSE nextHeader(header[i - 1])
    IN  header[index]

IsEnd(b) == NameAt(b) = NUL

countHeaders ==
    CHOOSE n \in 0 .. Len(Image) :
        /\ IsEnd(getHeaderAtIndex(n))
        /\ \A i \in 0 .. n - 1 : ~IsEnd(getHeaderAtIndex(i))

(* RamDisk.c: the root node, then a node for each header.                  *)
Node(filename, size, idx) == [filename |-> filename, file_size |-> size, idx |-> idx]

scanTar(root) ==
    <<root>> \o [i \in 1 .. countHeaders |->
                    LET header == getHeaderAtIndex(i - 1)
                    IN  Node(NameAt(header), SizeAt(header), i - 1)]

(* The device's letter and a slash are one character here.                 *)
RamDisk_init ==
    /\ FS_mounts = <<>>
    /\ FS_mounts' = <<scanTar(Node("C/", 0, 0))>>
    /\ UNCHANGED archive

(* What dest holds then: size bytes, and a zero behind them.               *)
readFile(node, size) ==
    [i \in 1 .. size + 1 |->
        IF i <= size THEN Byte((getHeaderAtIndex(node.idx) + 1) * TAR_BLOCKSIZE + i - 1)
        ELSE NUL]

(* VFS.c: the files of all devices, one device after the other.            *)
AllFiles == FlattenSeq(FS_mounts)

open(filename) ==
    LET found == {i \in DOMAIN AllFiles : <<AllFiles[i].filename>> = filename}
    IN  IF found = {} THEN {}
        ELSE {AllFiles[CHOOSE i \in found : \A j \in found : i <= j]}

(* NULL behind the last file.                                              *)
getFileAtIndex(index) ==
    IF index < Len(AllFiles) THEN {AllFiles[index + 1].filename} ELSE {}

StorageInit == archive \in Archives /\ FS_mounts = <<>>
=============================================================================
