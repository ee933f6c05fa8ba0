--------------------------------- MODULE Vfat ---------------------------------
(***************************************************************************)
(* The FAT driver FSDriverFAT of                                            *)
(* src/source/Kernel/HardwareAbstraction/Filesystems/FSDrivers/VFAT.cpp,  *)
(* FAT32 mode, over one mounted image: a file vnode read with Read and a  *)
(* folder vnode listed with ReadDir.  Each vnode caches its cluster chain *)
(* (vnode_data::clusters) and a file vnode its consolidated runs           *)
(* (vnode_data::clusterchain) on first use.  The driver only reads: the   *)
(* image is chosen in Init and never changes.                              *)
(*                                                                         *)
(* A byte on disk is <<sector, offset>>: what IO::Read fetches is named by *)
(* where it is.  A directory cluster holds EntriesPerCluster 32-byte       *)
(* entries, each a record with the fields ReadDir reads: name (the 8 + 3   *)
(* bytes of DirectoryEntry, whose first byte is an LFN entry's seqnum),   *)
(* attrib, case (userattrib), cluster, size, and for an LFN entry its      *)
(* checksum and the LfnChars characters of name1, name2 and name3.        *)
(***************************************************************************)
EXTENDS Naturals, Sequences, SequencesExt, VfatMount

CONSTANTS
    Clusters,            \* the data clusters of the image
    SectorsPerCluster,
    SectorBytes,         \* the 512 bytes of a sector, scaled
    EntriesPerCluster,   \* SectorsPerCluster * 512 / sizeof(DirectoryEntry)
    NameLen, ExtLen,     \* the 8 and 3 bytes of a short name
    LfnChars,            \* the 13 characters of an LFN entry
    FirstUsableSector,
    RootDirectoryCluster,
    Junk,                \* a byte of a fresh page nothing was read into
    Images,              \* the images the driver may be mounted on
    Offsets, Lengths     \* the arguments Read is called with

VARIABLES
    img,      \* the mounted image: fat, dir (entries of directory clusters),
              \* file and dirent (the vnodes' directory entries) and, for the
              \* properties only, the chains and files it was laid out from
    fnode,    \* the file vnode's vnode_data: clusters, clusterchain (pairs)
    dnode,    \* the folder vnode's vnode_data: entrycluster, clusters
    result,   \* the last Read: offset, the count returned, the bytes copied
    listing   \* the vnodes the last ReadDir returned

vars == <<img, fnode, dnode, result, listing>>

-----------------------------------------------------------------------------
(***************************************************************************)
(* Disk geometry.                                                          *)
(***************************************************************************)

ClusterToLBA(c) == FirstUsableSector + (c * SectorsPerCluster - 2 * SectorsPerCluster)

ClusterSize == SectorsPerCluster * SectorBytes

\* IO::Read of n bytes from sector lba on.
ReadSectors(lba, n) == [k \in 1..n |-> <<lba + (k - 1) \div SectorBytes, (k - 1) % SectorBytes>>]

\* FAT32 entry values: the low 28 bits, and the first value that ends a chain.
Low28(v) == v % 268435456
EndMark == 268435447    \* 0x0FFFFFF7

(***************************************************************************)
(* GetClusterChain: from entrycluster, push each cluster and go on to its *)
(* FAT entry while that is not 0, 1, or 0x0FFFFFF7 and above.              *)
(***************************************************************************)
RECURSIVE ChainPushingNext(_, _)
ChainPushingNext(fat, c) ==
    LET nx == Low28(fat[c]) IN
    IF nx # 0 /\ nx # 1 /\ nx < EndMark
    THEN <<nx>> \o ChainPushingNext(fat, nx) ELSE <<nx>>

RECURSIVE ChainUnmasked(_, _)
ChainUnmasked(fat, c) ==
    LET nx == fat[c] IN
    <<c>> \o (IF nx # 0 /\ nx # 1 /\ nx < EndMark THEN ChainUnmasked(fat, nx) ELSE <<>>)

RECURSIVE GetClusterChain(_, _)
GetClusterChain(fat, c) ==
    LET nx == Low28(fat[c]) IN
    <<c>> \o (IF nx # 0 /\ nx # 1 /\ nx < EndMark THEN GetClusterChain(fat, nx) ELSE <<>>)

(***************************************************************************)
(* ConsolidateClusterChain: merge_sort the chain in place, then cut it     *)
(* into pairs (first, count) of consecutive clusters.                      *)
(***************************************************************************)
\* The length of the run of consecutive clusters s begins with.
RunLenOne(s) == 1
RunLen(s) ==
    CHOOSE k \in 1..Len(s) :
        /\ \A j \in 1..k : s[j] = s[1] + j - 1
        /\ k = Len(s) \/ s[k + 1] # s[1] + k

RECURSIVE Runs(_)
Runs(s) ==
    IF s = <<>> THEN <<>>
    ELSE <<[first |-> s[1], count |-> RunLen(s)]>> \o Runs(SubSeq(s, RunLen(s) + 1, Len(s)))

SortClusters(cl) == SortSeq(cl, <)

ConsolidateClusterChain(cl) == Runs(SortClusters(cl))

-----------------------------------------------------------------------------
(***************************************************************************)
(* Read(node, buf, offset, length).                                        *)
(***************************************************************************)

(***************************************************************************)
(* The loop over the pairs: skip whole pairs before the offset's cluster, *)
(* move the first pair read from by the clusters still to skip, read up   *)
(* to cluslen clusters into rbuf, stop once have reaches cluslen.          *)
(***************************************************************************)
RECURSIVE ReadPairs(_, _, _, _, _, _)
ReadPairs(ps, skippedclus, cluslen, skipped, have, rbuf) ==
    IF ps = <<>> THEN rbuf
    ELSE
    LET p == Head(ps) IN
    IF p.first = 0 \/ p.count = 0
    THEN ReadPairs(Tail(ps), skippedclus, cluslen, skipped, have, rbuf)
    ELSE IF skippedclus > skipped /\ p.count <= skippedclus - skipped
    THEN ReadPairs(Tail(ps), skippedclus, cluslen, skipped + p.count, have, rbuf)
    ELSE
    LET first  == IF skippedclus > skipped THEN p.first + (skippedclus - skipped) ELSE p.first
        toread == IF cluslen > have
                  THEN IF cluslen - have > p.count THEN p.count ELSE cluslen - have
                  ELSE 0
        rb     == rbuf \o ReadSectors(ClusterToLBA(first), toread * ClusterSize)
    IN  IF have + toread = cluslen THEN rb
        ELSE ReadPairs(Tail(ps), skippedclus, cluslen, skipped, have + toread, rb)

(***************************************************************************)
(* Read: nothing for length 0.  Fetch the chain if the vnode has none      *)
(* (cached even when the offset is then refused), return 0 for an offset  *)
(* past the file, clamp the length to the file, consolidate the chain on  *)
(* first use (sorting the cached clusters), read the clusters, copy       *)
(* length bytes from clusoffset on.                                        *)
(***************************************************************************)
Read(off, len) ==
    LET size == img.file.size
        cl   == IF fnode.clusters = <<>> THEN GetClusterChain(img.fat, img.file.cluster)
                ELSE fnode.clusters
        n    == IF len > size - off THEN size - off ELSE len
        skippedclus == off \div ClusterSize
        clusoffset  == off - skippedclus * ClusterSize
        cluslen     == (n + ClusterSize - 1) \div ClusterSize + (IF off > 0 THEN 1 ELSE 0)
        fresh == fnode.pairs = <<>>
        ps    == IF fresh THEN ConsolidateClusterChain(cl) ELSE fnode.pairs
        rbuf  == ReadPairs(ps, skippedclus, cluslen, 0, 0, <<>>)
    IN  /\ IF len = 0
           THEN UNCHANGED fnode /\ result' = [off |-> off, count |-> 0, bytes |-> <<>>]
           ELSE IF off > size
           THEN /\ fnode' = [fnode EXCEPT !.clusters = cl]
                /\ result' = [off |-> off, count |-> 0, bytes |-> <<>>]
           ELSE /\ fnode' = [clusters |-> IF fresh THEN SortClusters(cl) ELSE cl, pairs |-> ps]
                /\ result' = [off |-> off, count |-> n,
                              bytes |-> [k \in 1..n |-> IF clusoffset + k <= Len(rbuf)
                                                        THEN rbuf[clusoffset + k] ELSE Junk]]
        /\ UNCHANGED <<img, dnode, listing>>

-----------------------------------------------------------------------------
(***************************************************************************)
(* ReadDir(node).                                                          *)
(***************************************************************************)

\* LFNChecksum over the 11 (NameLen + ExtLen) bytes of a short name.
LFNChecksum(sn) ==
    FoldLeft(LAMBDA r, b : ((IF r % 2 = 1 THEN 128 ELSE 0) + r \div 2 + b) % 256, 0, sn)

\* seqnum & ~0x40
Nument(d) == IF (d.name[1] \div 64) % 2 = 1 THEN d.name[1] - 64 ELSE d.name[1]

\* The prefix of s before its first element equal to x.
UpTo(s, x) ==
    LET at == {k \in 1..Len(s) : s[k] = x} IN
    IF at = {} THEN s ELSE SubSeq(s, 1, Min(at) - 1)

(***************************************************************************)
(* ReadLFN: push each entry's characters last to first, then walk the     *)
(* whole list from its end and stop at a 0.                                *)
(***************************************************************************)
ReadLFNForward(buf, i) ==
    LET items == FlattenSeq([k \in 1..Nument(buf[i]) |-> buf[i + k - 1].chars]) IN
    UpTo(Reverse(items), 0)

ReadLFN(buf, i) ==
    LET items == FlattenSeq([k \in 1..Nument(buf[i]) |-> Reverse(buf[i + k - 1].chars)]) IN
    UpTo(Reverse(items), 0)

\* The attribute values and the deleted mark.
ATTR_LFN == 15          \* ATTR_READONLY | ATTR_HIDDEN | ATTR_SYSTEM | ATTR_VOLLABEL
ATTR_FOLDER == 16
FIRSTCHAR_DELETED == 229

(***************************************************************************)
(* DirectoryEntry and LFNEntry as one record: name is name[8] ++ ext[3]   *)
(* (its first byte is an LFNEntry's seqnum), case is userattrib, cluster  *)
(* is clusterhigh << 16 | clusterlow; chk and chars are an LFNEntry's     *)
(* checksum and its name1, name2, name3 characters.                        *)
(***************************************************************************)
DirectoryEntry ==
    [name : Seq(0..255), attrib : 0..255, case : 0..255, cluster : Nat,
     size : Nat, chk : 0..255, chars : Seq(0..255)]

\* tolower, when the entry's case bit asks for it.
Lower(c, on) == IF on /\ 65 <= c /\ c <= 90 THEN c + 32 ELSE c

Bit(v, b) == (v \div b) % 2 = 1

IsFolder(d) == Bit(d.attrib, ATTR_FOLDER)

\* The 8.3 name: the name up to a space, '.' for a file with an extension,
\* the extension up to a space, each part lowered if userattrib says so.
ShortName(d) ==
    LET base == UpTo(SubSeq(d.name, 1, NameLen), 32)
        ext  == UpTo(SubSeq(d.name, NameLen + 1, NameLen + ExtLen), 32)
    IN  [k \in DOMAIN base |-> Lower(base[k], Bit(d.case, 8))]
        \o (IF ~IsFolder(d) /\ d.name[NameLen + 1] # 32 THEN <<46>> ELSE <<>>)
        \o [k \in DOMAIN ext |-> Lower(ext[k], Bit(d.case, 16))]

\* The name of an entry read after an LFN name nm with checksum chk: the 8.3
\* name is appended when nm is empty or the checksum does not match.
EntryName(d, nm, chk) ==
    IF nm = <<>> \/ chk # LFNChecksum(d.name) THEN nm \o ShortName(d) ELSE nm

Vnode(d, nm) == [name |-> nm, folder |-> IsFolder(d), cluster |-> d.cluster, size |-> d.size]

(***************************************************************************)
(* The loop of ReadDir over the directory buffer: stop at a 0 first byte, *)
(* skip a deleted entry, read an LFN group (attrib 0x0F, clusterlow 0) and *)
(* move to the entry after it; that entry, unless its first byte is 0,    *)
(* becomes a vnode.  A group running past the buffer is not in the images *)
(* (the code would read the page beyond it).                               *)
(***************************************************************************)
RECURSIVE Walk(_, _, _)
Walk(buf, i, acc) ==
    IF i > Len(buf) THEN acc
    ELSE
    LET d == buf[i] IN
    IF d.name[1] = 0 THEN acc
    ELSE IF d.name[1] = FIRSTCHAR_DELETED THEN Walk(buf, i + 1, acc)
    ELSE
    LET lfn == d.attrib = ATTR_LFN /\ d.cluster % 65536 = 0
        j   == IF lfn THEN i + Nument(d) ELSE i
        nm  == IF lfn THEN ReadLFN(buf, i) ELSE <<>>
        chk == IF lfn THEN d.chk ELSE 0
    IN  IF j > Len(buf) THEN acc
        ELSE IF buf[j].name[1] # 0
        THEN Walk(buf, j + 1, Append(acc, Vnode(buf[j], EntryName(buf[j], nm, chk))))
        ELSE Walk(buf, j + 1, acc)

(***************************************************************************)
(* ReadDir: entrycluster 0 is the FAT32 root; fetch and cache the chain   *)
(* if the vnode has none, read its clusters in chain order into one       *)
(* buffer, walk it.                                                        *)
(***************************************************************************)
ReadDir ==
    LET entry == IF dnode.entry = 0 THEN RootDirectoryCluster ELSE dnode.entry
        cl    == IF dnode.clusters = <<>> THEN GetClusterChain(img.fat, entry)
                 ELSE dnode.clusters
        buf   == FlattenSeq([k \in 1..Len(cl) |-> img.dir[cl[k]]])
    IN  /\ dnode' = [entry |-> entry, clusters |-> cl]
        /\ listing' = Walk(buf, 1, <<>>)
        /\ UNCHANGED <<img, fnode, result>>

(***************************************************************************)
(* split(s, delim): the characters between delimiters, one item per run; *)
(* an empty item (a leading, doubled or trailing '/') is dropped.          *)
(***************************************************************************)
RECURSIVE SplitFrom(_, _, _, _)
SplitFrom(s, delim, item, acc) ==
    LET done == IF item # <<>> THEN Append(acc, item) ELSE acc IN
    IF s = <<>> THEN done
    ELSE IF Head(s) = delim THEN SplitFrom(Tail(s), delim, <<>>, done)
    ELSE SplitFrom(Tail(s), delim, Append(item, Head(s)), acc)

\* Mutant: an empty item is kept.
SplitKeepEmpty(s, delim) ==
    LET RECURSIVE Go(_, _, _)
        Go(r, item, acc) ==
            IF r = <<>> THEN Append(acc, item)
            ELSE IF Head(r) = delim THEN Go(Tail(r), <<>>, Append(acc, item))
            ELSE Go(Tail(r), Append(item, Head(r)), acc)
    IN  Go(s, <<>>, <<>>)

Split(s, delim) == SplitFrom(s, delim, <<>>, <<>>)

PATH_DELIMTER == 47     \* '/'

\* ReadDir of a fresh vnode (no cached chain) whose entrycluster is entry.
DirListing(entry) ==
    LET cl == GetClusterChain(img.fat, IF entry = 0 THEN RootDirectoryCluster ELSE entry)
    IN  Walk(FlattenSeq([k \in 1..Len(cl) |-> img.dir[cl[k]]]), 1, <<>>)

\* rde::string::make_lower (rdestl, not in the repository): ASCII tolower.
MakeLower(s) == [k \in DOMAIN s |-> Lower(s[k], TRUE)]

(***************************************************************************)
(* Traverse(node, path): split the path, file = its last item; from the   *)
(* root (entrycluster 0), for each item v at level curlvl, ReadDir the     *)
(* current vnode and take the first vnode d that, lowered, is the file's  *)
(* name at the last level and a file (found: return true), or is v's name  *)
(* (descend into d, file or folder).  No match returns false, and so does *)
(* running out of items.  An empty split trips assert(dirs.size() > 0).    *)
(***************************************************************************)
RECURSIVE TraverseLevel(_, _, _)
TraverseLevel(cn, dirs, file) ==
    IF dirs = <<>> THEN [kind |-> "false"]
    ELSE
    LET l    == DirListing(cn)
        last == Len(dirs) = 1
        isFile(d) == last /\ ~d.folder /\ MakeLower(d.name) = MakeLower(file)
        hits == {k \in DOMAIN l : isFile(l[k]) \/ MakeLower(l[k].name) = MakeLower(Head(dirs))}
    IN  IF hits = {} THEN [kind |-> "false"]
        ELSE LET d == l[CHOOSE k \in hits : \A j \in hits : k <= j] IN
             IF isFile(d) THEN [kind |-> "file", vnode |-> d]
             ELSE TraverseLevel(d.cluster, Tail(dirs), file)

Traverse(path) ==
    LET dirs == Split(path, PATH_DELIMTER) IN
    IF dirs = <<>> THEN [kind |-> "assert"]
    ELSE TraverseLevel(0, dirs, dirs[Len(dirs)])

-----------------------------------------------------------------------------

TypeOK ==
    /\ img \in Images
    /\ \A x \in Clusters : \A k \in DOMAIN img.dir[x] : img.dir[x][k] \in DirectoryEntry
    /\ fnode.clusters \in Seq(Clusters)
    /\ \A k \in DOMAIN fnode.pairs :
          fnode.pairs[k].first \in Clusters /\ fnode.pairs[k].count \in 1..Len(fnode.clusters)
    /\ dnode.entry \in Clusters \cup {0} /\ dnode.clusters \in Seq(Clusters)
    /\ result.count <= img.file.size /\ Len(result.bytes) = result.count
    /\ \A k \in DOMAIN listing : listing[k].cluster \in Clusters \cup {0}

Init ==
    /\ img \in Images
    /\ fnode = [clusters |-> <<>>, pairs |-> <<>>]
    /\ dnode = [entry |-> img.dirent, clusters |-> <<>>]
    /\ result = [off |-> 0, count |-> 0, bytes |-> <<>>]
    /\ listing = <<>>

Next ==
    \/ \E off \in Offsets, len \in Lengths : Read(off, len)
    \/ ReadDir

Spec == Init /\ [][Next]_vars

-----------------------------------------------------------------------------
(***************************************************************************)
(* Properties.  img.dchain and img.fchain are the chains the image's FAT  *)
(* was written with, img.files the entries its directory was laid out     *)
(* from, in the layout of the FAT specification.                           *)
(***************************************************************************)

(***************************************************************************)
(* FSDriverFAT::FSDriverFAT mounts the image's volume, from its boot      *)
(* sector, as FAT32 with the geometry every read of the image uses        *)
(* (SectorsPerCluster, FirstUsableSector, RootDirectoryCluster), and it   *)
(* types and places every volume of the boundary table as fatgen103 does  *)
(* (VolumesMountAsFatgen).                                                 *)
(***************************************************************************)
MountMatchesFatgen ==
    /\ VolumesMountAsFatgen
    /\ LET m == Mount(img.boot, StartLBA)
       IN  /\ m.kind = "FAT32"
           /\ m.spc = SectorsPerCluster
           /\ m.first = FirstUsableSector
           /\ m.root = RootDirectoryCluster

(***************************************************************************)
(* GetClusterChain follows the FAT: the folder vnode's cached clusters are *)
(* the directory's chain, in chain order, whatever mark ends it and       *)
(* whatever reserved high bits its links carry.                            *)
(***************************************************************************)
DirChainFollowsFat == dnode.clusters # <<>> => dnode.clusters = img.dchain

(***************************************************************************)
(* ConsolidateClusterChain cuts the file's clusters into maximal runs:    *)
(* together the pairs hold exactly the chain's clusters, each pair is a   *)
(* run of consecutive clusters, and no pair could be merged with the next. *)
(***************************************************************************)
PairCover(ps) == UNION {{ps[k].first + i : i \in 0..(ps[k].count - 1)} : k \in DOMAIN ps}

PairsAreMaximalRuns ==
    LET ps == fnode.pairs IN
    ps # <<>> =>
        /\ PairCover(ps) = Range(img.fchain)
        /\ \A k \in 1..(Len(ps) - 1) : ps[k].first + ps[k].count < ps[k + 1].first

(***************************************************************************)
(* ReadDir lists every live entry of the directory once, in order, with   *)
(* its type, first cluster and size, and under the name the FAT           *)
(* specification gives it: the long name of its LFN entries, or the 8.3   *)
(* name (name, '.', extension, lowered by the case bits) when it has none. *)
(* An entry whose LFN entries do not carry its checksum is listed, but its *)
(* name is not constrained here.                                           *)
(***************************************************************************)
DisplayName(f) ==
    LET base == UpTo(SubSeq(f.short, 1, NameLen), 32)
        ext  == UpTo(SubSeq(f.short, NameLen + 1, NameLen + ExtLen), 32)
        low(s, on) == [k \in DOMAIN s |-> IF on /\ 65 <= s[k] /\ s[k] <= 90 THEN s[k] + 32 ELSE s[k]]
    IN  IF f.long # <<>> THEN f.long
        ELSE low(base, Bit(f.case, 8)) \o (IF ext = <<>> THEN <<>> ELSE <<46>> \o low(ext, Bit(f.case, 16)))

ListingMatches ==
    dnode.clusters # <<>> =>
        /\ Len(listing) = Len(img.files)
        /\ \A k \in DOMAIN listing :
              /\ listing[k].folder = img.files[k].folder
              /\ listing[k].cluster = img.files[k].cluster
              /\ listing[k].size = img.files[k].size
              /\ ~img.files[k].orphan => listing[k].name = DisplayName(img.files[k])

(***************************************************************************)
(* Traverse opens every file of the root directory by the name ReadDir    *)
(* displays for it, with a leading '/' or without, in either letter case,  *)
(* returning that file's vnode; a path naming a folder opens nothing, and *)
(* "/" trips the assert.  (Files whose name another entry shares, which   *)
(* the FAT specification forbids, and orphaned LFN groups are left out.)  *)
(***************************************************************************)
Upper(s) == [k \in DOMAIN s |-> IF 97 <= s[k] /\ s[k] <= 122 THEN s[k] - 32 ELSE s[k]]

TraverseFindsFiles ==
    img.dirent = 0 =>
        LET l == DirListing(0) IN
        /\ Traverse(<<PATH_DELIMTER>>).kind = "assert"
        /\ \A k \in DOMAIN img.files :
              LET f  == img.files[k]
                  nm == DisplayName(f)
              IN  /\ ~f.orphan
                  /\ \A j \in DOMAIN l \ {k} : MakeLower(l[j].name) # MakeLower(nm)
                  => \A path \in {<<PATH_DELIMTER>> \o nm, Upper(nm)} :
                        LET r == Traverse(path) IN
                        IF f.folder THEN r.kind = "false"
                        ELSE r.kind = "file" /\ r.vnode.cluster = f.cluster

(***************************************************************************)
(* Read returns the file's bytes: count bytes from the offset on, each the *)
(* byte at that position of the cluster the chain puts there.             *)
(***************************************************************************)
FileByte(p) ==
    LET c == img.fchain[p \div ClusterSize + 1] IN
    <<ClusterToLBA(c) + (p % ClusterSize) \div SectorBytes, (p % ClusterSize) % SectorBytes>>

ReadReturnsFileBytes ==
    result.bytes = [k \in 1..result.count |-> FileByte(result.off + k - 1)]

=============================================================================
