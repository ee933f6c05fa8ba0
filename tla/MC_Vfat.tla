--------------------------------- MODULE MC_Vfat ---------------------------------
(***************************************************************************)
(* Images for Vfat: directories laid out as the FAT specification lays    *)
(* them out (LFN entries, last first with 0x40 in its seqnum, before the  *)
(* 8.3 entry they carry the checksum of; the name ends with 0x0000 and     *)
(* 0xFFFF padding unless it fills its entries), over fragmented chains    *)
(* whose FAT entries end with either end-of-chain mark or the bad-cluster *)
(* value and carry links with or without reserved high bits.              *)
(***************************************************************************)
EXTENDS Fat32

\* Characters: ASCII codes.
a == 97
b == 98
c == 99
A == 65
B == 66
T == 84
Sp == 32

\* The VFAT checksum of a short name, as the FAT specification defines it.
SpecChecksum(sn) ==
    FoldLeft(LAMBDA s, x : (((s % 2) * 128) + (s \div 2) + x) % 256, 0, sn)

\* The entries of the directory, described as files.
F1  == [long |-> <<a, b>>, short |-> <<A, B, T>>, case |-> 0, folder |-> FALSE,
        cluster |-> 5, size |-> 3, orphan |-> FALSE]
F2  == [long |-> <<a, b, c>>, short |-> <<A, Sp, Sp>>, case |-> 0, folder |-> TRUE,
        cluster |-> 6, size |-> 0, orphan |-> FALSE]
F3  == [long |-> <<>>, short |-> <<B, Sp, T>>, case |-> 8, folder |-> FALSE,
        cluster |-> 7, size |-> 1, orphan |-> FALSE]
F4  == [long |-> <<>>, short |-> <<A, B, Sp>>, case |-> 24, folder |-> TRUE,
        cluster |-> 4, size |-> 0, orphan |-> FALSE]
F1o == [F1 EXCEPT !.orphan = TRUE]

Blank == [name |-> <<0, 0, 0>>, attrib |-> 0, case |-> 0, cluster |-> 0, size |-> 0,
          chk |-> 0, chars |-> <<0, 0>>]
Deleted == [Blank EXCEPT !.name = <<229, A, Sp>>, !.attrib = 32]

LfnCount(f) == (Len(f.long) + LfnChars - 1) \div LfnChars
Padded(f) ==
    f.long \o (IF Len(f.long) % LfnChars = 0 THEN <<>>
               ELSE <<0>> \o [k \in 1..(LfnCount(f) * LfnChars - Len(f.long) - 1) |-> 255])
LfnEntry(f, s) ==
    [Blank EXCEPT !.name = <<IF s = LfnCount(f) THEN s + 64 ELSE s, 0, 0>>,
                  !.attrib = 15,
                  !.chk = (SpecChecksum(f.short) + (IF f.orphan THEN 1 ELSE 0)) % 256,
                  !.chars = SubSeq(Padded(f), (s - 1) * LfnChars + 1, s * LfnChars)]
ShortEntry(f) ==
    [Blank EXCEPT !.name = f.short, !.attrib = IF f.folder THEN 16 ELSE 32,
                  !.case = f.case, !.cluster = f.cluster, !.size = f.size]
EntriesOf(f) ==
    [k \in 1..LfnCount(f) |-> LfnEntry(f, LfnCount(f) - k + 1)] \o <<ShortEntry(f)>>

\* A layout: the files, with a deleted entry after the first when del.
Layouts ==
    {[files |-> <<F1, F3>>, del |-> FALSE], [files |-> <<F2, F1o>>, del |-> TRUE],
     [files |-> <<F3, F2>>, del |-> FALSE], [files |-> <<F4, F1>>, del |-> TRUE]}
LayoutEntries(l) ==
    EntriesOf(l.files[1]) \o (IF l.del THEN <<Deleted>> ELSE <<>>)
    \o FoldLeft(LAMBDA x, f : x \o EntriesOf(f), <<>>, Tail(l.files))

\* The directory's chain and the file's, and the FAT marks.
DirChains == {<<2, 3>>, <<4, 2, 6>>, <<3, 7, 2>>}
FileChains == {<<7, 5>>, <<4, 5, 7>>, <<5, 6>>}
Marks == [link : {0, 268435456}, end : {268435448, 268435455, 268435447}]

FatOf(ch, m) ==
    [i \in 1..(Len(ch) - 1) |-> <<ch[i], ch[i + 1] + m.link>>] \o <<<<ch[Len(ch)], m.end>>>>

Fat(dc, fc, m) ==
    LET links == Range(FatOf(dc, m)) \cup Range(FatOf(fc, m)) IN
    [x \in Clusters |-> IF \E e \in links : e[1] = x THEN (CHOOSE e \in links : e[1] = x)[2] ELSE 0]

Dir(l, dc) ==
    LET es == LayoutEntries(l)
        padded == es \o [k \in 1..(Len(dc) * EntriesPerCluster - Len(es)) |-> Blank]
    IN  [x \in Clusters |->
            IF \E k \in DOMAIN dc : dc[k] = x
            THEN LET k == CHOOSE k \in DOMAIN dc : dc[k] = x
                 IN  SubSeq(padded, (k - 1) * EntriesPerCluster + 1, k * EntriesPerCluster)
            ELSE [k \in 1..EntriesPerCluster |-> Blank]]

\* The layout fits the directory's clusters and the two chains are disjoint.
Fits(t) ==
    /\ Len(LayoutEntries(t[1])) <= Len(t[2]) * EntriesPerCluster
    /\ Range(t[2]) \cap Range(t[3]) = {}

Image(l, dc, fc, m, boot) ==
    [boot |-> boot, fat |-> Fat(dc, fc, m), dir |-> Dir(l, dc),
     file |-> [cluster |-> fc[1], size |-> Len(fc) * ClusterSize - 1],
     dirent |-> IF dc[1] = RootDirectoryCluster THEN 0 ELSE dc[1],
     dchain |-> dc, fchain |-> fc, files |-> l.files]

\* A volume's BPB fields: two FATs of fatSz sectors, count data clusters
\* and rest sectors after the last.  A FAT12/16 volume has 512 root entries
\* and its total in BPB_TotSec16 when it fits; a FAT32 volume has none,
\* BPB_TotSec32 and its root directory at cluster 2.
FatVol(bps, spc, rsv, fatSz, count, rest) ==
    LET fat32 == count >= 65525
        root  == IF fat32 THEN 0 ELSE 512
        tot   == rsv + 2 * fatSz + (root * 32 + bps - 1) \div bps + spc * count + rest
    IN  [bps |-> bps, spc |-> spc, rsv |-> rsv, nfats |-> 2, rootEnt |-> root,
         totSec16 |-> IF ~fat32 /\ tot < 65536 THEN tot ELSE 0,
         totSec32 |-> IF ~fat32 /\ tot < 65536 THEN 0 ELSE tot,
         fatSz16 |-> IF fat32 THEN 0 ELSE fatSz,
         fatSz32 |-> IF fat32 THEN fatSz ELSE 0,
         rootClus |-> 2]

\* Volumes at the FAT type boundaries: 4084/4085 and 65524/65525 data
\* clusters, with and without a partial cluster at the end, on one and on
\* eight sectors per cluster, one and 32 reserved sectors, sectors of 512
\* and of 1024 bytes.
MCVolumes ==
    {FatVol(t[1], t[2], t[3], IF t[4] >= 65525 THEN 1024 ELSE 256, t[4], t[5]) :
        t \in {t \in {512, 1024} \X {1, 8} \X {1, 32} \X {4084, 4085, 65524, 65525}
                  \X {0, 7} : t[5] < t[2]}}

\* The boot sectors of the images' volume: FAT32 with two sectors per
\* cluster, the data area at sector 1058, the root directory at cluster 2;
\* once with 65525 clusters (the least FAT32 has) and a partial cluster
\* after them, once with 65600 and FATs one sector smaller.
MCBoots == {BootSector(FatVol(512, 2, 32, 513, 65525, 1)),
            BootSector(FatVol(512, 2, 34, 512, 65600, 0))}

MCImages ==
    {Image(t[1], t[2], t[3], t[4], boot) :
        t \in {t \in Layouts \X DirChains \X FileChains \X Marks : Fits(t)}, boot \in MCBoots}
=============================================================================
