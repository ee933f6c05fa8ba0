-------------------------------- MODULE Fat32 --------------------------------
(***************************************************************************)
(* The older FAT32 driver of                                               *)
(* src/source/Kernel/HardwareAbstraction/Filesystems/FAT/FAT32.cpp, over  *)
(* the images and geometry of Vfat.  FAT32::ReadFile and                  *)
(* FAT32::GetFSObjects cache nothing and only read, so each is an         *)
(* operator from the image (and its arguments) to what it returns.        *)
(*                                                                         *)
(* Both read the FAT one entry at a time and the clusters through         *)
(* FirstUsableCluster.  A read outside the image (a cluster number no      *)
(* image has) is taken to return zeros: a FAT entry of 0 and directory     *)
(* entries whose first byte is 0, which end every walk there.             *)
(***************************************************************************)
EXTENDS Vfat

\* An entry of zeros, as read from outside the image.
ZeroEntry ==
    [name |-> [k \in 1..(NameLen + ExtLen) |-> 0], attrib |-> 0, case |-> 0,
     cluster |-> 0, size |-> 0, chk |-> 0, chars |-> [k \in 1..LfnChars |-> 0]]

\* *((uint32_t*) &fat[cluster * 4 % 512]) of the FAT sector cluster * 4 / 512.
FatAt(fat, c) == IF c \in DOMAIN fat THEN fat[c] ELSE 0

\* 0x0FFFFFF8: the first value both loops take as the end of a chain.
EndOfChain == 268435448

-----------------------------------------------------------------------------
(***************************************************************************)
(* FAT32::ReadFile(File, Address, length): from the file's first cluster, *)
(* read the FAT entry (masked to 28 bits), copy min(BytesLeft, cluster    *)
(* size) bytes of the cluster, stop if the cluster was more than was left, *)
(* else go on while the next entry is not 0, not an end mark, and bytes   *)
(* are left.                                                               *)
(***************************************************************************)
RECURSIVE ReadChainUnmasked(_, _, _, _)
ReadChainUnmasked(fat, c, left, acc) ==
    LET cchain == FatAt(fat, c)
        got    == acc \o ReadSectors(ClusterToLBA(c), Min({left, ClusterSize}))
    IN  IF ClusterSize > left THEN got
        ELSE IF cchain # 0 /\ cchain < EndOfChain /\ left - ClusterSize > 0
             THEN ReadChainUnmasked(fat, cchain, left - ClusterSize, got)
             ELSE got

RECURSIVE ReadChain(_, _, _, _)
ReadChain(fat, c, left, acc) ==
    LET cchain == Low28(FatAt(fat, c))
        got    == acc \o ReadSectors(ClusterToLBA(c), Min({left, ClusterSize}))
    IN  IF ClusterSize > left THEN got
        ELSE IF cchain # 0 /\ cchain < EndOfChain /\ left - ClusterSize > 0
             THEN ReadChain(fat, cchain, left - ClusterSize, got)
             ELSE got

ReadFile(fat, cluster, length) == ReadChain(fat, cluster, length, <<>>)

-----------------------------------------------------------------------------
(***************************************************************************)
(* FAT32::GetFSObjects(start).                                             *)
(***************************************************************************)

\* The entries of the cluster read at FirstUsableCluster + c * SPC
\* - RootDirectoryCluster * SPC.
DirData(c) ==
    LET x == c - RootDirectoryCluster + 2 IN
    IF x \in Clusters THEN img.dir[x] ELSE [k \in 1..EntriesPerCluster |-> ZeroEntry]

(***************************************************************************)
(* The do-while over the directory's clusters: cluster = nc, nc = the raw *)
(* FAT entry of cluster, read cluster; again while nc is not 0 and its low *)
(* 28 bits are below 0x0FFFFFF8.                                           *)
(***************************************************************************)
RECURSIVE DirWalk(_, _)
DirWalk(fat, c) ==
    LET nc == FatAt(fat, c) IN
    <<c>> \o (IF nc # 0 /\ Low28(nc) < EndOfChain THEN DirWalk(fat, nc) ELSE <<>>)

\* The 11 bytes of an 8.3 entry, each part lowered if userattrib says so.
ShortRaw(d) ==
    [k \in 1..(NameLen + ExtLen) |->
        Lower(d.name[k], Bit(d.case, IF k <= NameLen THEN 8 ELSE 16))]

\* The characters of an LFN entry, 0xFF bytes dropped.
LfnPart(d) == SelectSeq(d.chars, LAMBDA ch : ch # 255)

(***************************************************************************)
(* One pass of the loop over a cluster's entries.  s.parts is LFNEntries, *)
(* s.did DidParseLFN, s.out the list returned.  '.' and '..' clear        *)
(* LFNEntries; a live entry (not 0xE5, 0x05 or 0, no volume-label bit, not *)
(* 0x0F) is listed, named by the LFN parts read before it (appended, the  *)
(* string ending at the first 0) or by its 11 bytes; an LFN entry is put  *)
(* in front of LFNEntries.                                                 *)
(***************************************************************************)
EntryStep(s, d) ==
    LET first == d.name[1] IN
    IF first = 46 /\ d.name[2] \in {32, 46}
    THEN [s EXCEPT !.parts = <<>>]
    ELSE IF first \notin {229, 5, 0} /\ ~Bit(d.attrib, 8) /\ d.attrib # ATTR_LFN
    THEN [parts |-> IF s.did THEN <<>> ELSE s.parts,
          did   |-> FALSE,
          out   |-> Append(s.out,
                      [lfn     |-> s.did,
                       name    |-> IF s.did THEN UpTo(FlattenSeq(s.parts), 0) ELSE ShortRaw(d),
                       folder  |-> Bit(d.attrib, ATTR_FOLDER),
                       cluster |-> d.cluster,
                       size    |-> d.size])]
    ELSE IF first \notin {229, 46, 5, 0} /\ d.attrib = ATTR_LFN
    THEN [s EXCEPT !.did = TRUE, !.parts = <<LfnPart(d)>> \o @]
    ELSE s

GetFSObjects(fat, start) ==
    LET cl == DirWalk(fat, start)
    IN  FoldLeft(LAMBDA s, k : FoldLeft(EntryStep, s, DirData(cl[k])),
                 [parts |-> <<>>, did |-> FALSE, out |-> <<>>],
                 [k \in 1..Len(cl) |-> k]).out

-----------------------------------------------------------------------------
(***************************************************************************)
(* Properties over the mounted image.                                      *)
(***************************************************************************)

\* The file's chain ends with an end-of-chain mark (0x0FFFFFF8 and above).
FileChainEndsWithEOC == Low28(img.fat[img.fchain[Len(img.fchain)]]) >= EndOfChain

(***************************************************************************)
(* FAT32::ReadFile of length bytes returns the file's first bytes in chain *)
(* order, as many as asked for or as the chain holds: it follows the      *)
(* masked links across fragmented chains, stops at the cluster that       *)
(* holds the last byte, and at exact multiples of the cluster size.  A    *)
(* chain that ends in the bad-cluster value 0x0FFFFFF7 is not a FAT32     *)
(* chain; ReadFile would read on into it.                                  *)
(***************************************************************************)
Fat32ReadReturnsFileBytes ==
    FileChainEndsWithEOC =>
        \A len \in Lengths :
            ReadFile(img.fat, img.file.cluster, len)
                = [k \in 1..Min({len, Len(img.fchain) * ClusterSize}) |-> FileByte(k - 1)]

(***************************************************************************)
(* FAT32::GetFSObjects on the directory lists each of its live entries    *)
(* once, in order, with its type, first cluster and size, and an entry    *)
(* with LFN entries that carry its checksum under its long name, whatever *)
(* reserved high bits the directory chain's links carry.                  *)
(***************************************************************************)
Fat32ListingMatches ==
    LET l == GetFSObjects(img.fat, img.dchain[1]) IN
    /\ Len(l) = Len(img.files)
    /\ \A k \in DOMAIN l :
          /\ l[k].folder = img.files[k].folder
          /\ l[k].cluster = img.files[k].cluster
          /\ l[k].size = img.files[k].size
          /\ img.files[k].long # <<>> /\ ~img.files[k].orphan => l[k].name = img.files[k].long

=============================================================================
