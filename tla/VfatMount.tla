------------------------------- MODULE VfatMount -------------------------------
(***************************************************************************)
(* What the two FAT drivers make of a volume's boot sector: the           *)
(* constructors FSDriverFAT::FSDriverFAT (FSDrivers/VFAT.cpp) and          *)
(* FAT32::FAT32 (FAT/FAT32.cpp) read the BPB's little-endian fields from  *)
(* the 512 bytes at the partition's first LBA and compute the geometry    *)
(* every later read uses.  Both are operators from the sector's bytes (a  *)
(* function from byte offsets 0..89) to that geometry.                     *)
(*                                                                         *)
(* The reference is the FAT specification (Microsoft's fatgen103): the    *)
(* type of a volume is decided by its count of data clusters alone, and   *)
(* the first data sector follows the reserved sectors, the FATs and, on   *)
(* FAT12/16, the root directory.                                           *)
(***************************************************************************)
EXTENDS Naturals

CONSTANTS
    Volumes,   \* BPB field records of the volumes a partition may hold
    StartLBA   \* partition->GetStartLBA()

ASSUME StartLBA \in Nat /\ Volumes # {}

\* *((uint8_t*) (fat + o)), *((uint16_t*) ...), *((uint32_t*) ...) on x86.
U8(s, o) == s[o]
Le16(s, o) == s[o] + 256 * s[o + 1]
Le32(s, o) == Le16(s, o) + 65536 * Le16(s, o + 2)

-----------------------------------------------------------------------------
(***************************************************************************)
(* FSDriverFAT::FSDriverFAT.  RootDirectorySize rounds the root entries   *)
(* up to 512-byte sectors; FATSize and TotalSectors take the 32-bit field  *)
(* when the 16-bit one is 0.  DataSec is a uint64_t: a TotalSectors below  *)
(* the overhead wraps to a count far above 65525.  The count divides by   *)
(* SectorsPerCluster (0 faults).  Fewer than 4085 clusters HALTs ("FAT12  *)
(* not supported"); the geometry then follows the FAT kind, and the        *)
(* constructor ends with assert(BytesPerSector == 512).                    *)
(***************************************************************************)
\* Mutant: 4085 clusters is still taken for FAT12.
KindAtFat12Edge(count) ==
    IF count <= 4085 THEN "halt" ELSE IF count < 65525 THEN "FAT16" ELSE "FAT32"

FatKind(count) ==
    IF count < 4085 THEN "halt" ELSE IF count < 65525 THEN "FAT16" ELSE "FAT32"

Mount(s, start) ==
    LET spc      == U8(s, 13)
        rsv      == Le16(s, 14)
        nfats    == U8(s, 16)
        rootSize == (Le16(s, 17) * 32 + 511) \div 512
        fatSize  == IF Le16(s, 22) = 0 THEN Le32(s, 36) ELSE Le16(s, 22)
        total    == IF Le16(s, 19) = 0 THEN Le32(s, 32) ELSE Le16(s, 19)
        overhead == rsv + nfats * fatSize + rootSize
        kind     == CASE spc = 0          -> "fault"
                      [] total < overhead -> "FAT32"
                      [] OTHER            -> FatKind((total - overhead) \div spc)
        fat16Root == start + rsv + nfats * Le16(s, 22)
    IN  [kind     |-> IF kind \in {"FAT16", "FAT32"} /\ Le16(s, 11) # 512
                      THEN "assert" ELSE kind,
         spc      |-> spc,
         rootSize |-> rootSize,
         root     |-> IF kind = "FAT32" THEN Le32(s, 44) ELSE fat16Root,
         first    |-> IF kind = "FAT32" THEN start + rsv + nfats * Le32(s, 36)
                      ELSE fat16Root + rootSize]

(***************************************************************************)
(* FAT32::FAT32 takes every volume for FAT32: FirstUsableCluster (a       *)
(* sector number) after the reserved sectors and BPB_FATSz32-sized FATs,  *)
(* the root directory at BPB_RootClus.  TotalSectors is the 16-bit field  *)
(* at offset 17 (BPB_RootEntCnt) when that is non-zero, else the 32-bit   *)
(* total.                                                                  *)
(***************************************************************************)
Fat32Mount(s, start) ==
    [spc   |-> U8(s, 13),
     total |-> IF Le16(s, 17) > 0 THEN Le16(s, 17) ELSE Le32(s, 32),
     root  |-> Le32(s, 44),
     first |-> start + Le16(s, 14) + U8(s, 16) * Le32(s, 36)]

-----------------------------------------------------------------------------
(***************************************************************************)
(* A volume's boot sector: its fields at their BPB offsets, little-endian; *)
(* a FAT12/16 volume has BS_DrvNum (0x80) and BS_BootSig (0x29) where a   *)
(* FAT32 one has BPB_FATSz32.                                              *)
(***************************************************************************)
Fields(v) ==
    {<<11, 2, v.bps>>, <<13, 1, v.spc>>, <<14, 2, v.rsv>>, <<16, 1, v.nfats>>,
     <<17, 2, v.rootEnt>>, <<19, 2, v.totSec16>>, <<22, 2, v.fatSz16>>,
     <<32, 4, v.totSec32>>}
    \cup (IF v.fatSz16 = 0 THEN {<<36, 4, v.fatSz32>>, <<44, 4, v.rootClus>>}
          ELSE {<<36, 1, 128>>, <<38, 1, 41>>})

Pow256(k) == CASE k = 0 -> 1 [] k = 1 -> 256 [] k = 2 -> 65536 [] OTHER -> 16777216

BootSector(v) ==
    [i \in 0..89 |->
        IF \E f \in Fields(v) : f[1] <= i /\ i < f[1] + f[2]
        THEN LET f == CHOOSE g \in Fields(v) : g[1] <= i /\ i < g[1] + g[2]
             IN  (f[3] \div Pow256(i - f[1])) % 256
        ELSE 0]

\* fatgen103: the type and the first data sector of a volume.
FatGen(v) ==
    LET rootSecs == (v.rootEnt * 32 + v.bps - 1) \div v.bps
        fatSz    == IF v.fatSz16 # 0 THEN v.fatSz16 ELSE v.fatSz32
        totSec   == IF v.totSec16 # 0 THEN v.totSec16 ELSE v.totSec32
        firstData == v.rsv + v.nfats * fatSz + rootSecs
        count    == (totSec - firstData) \div v.spc
    IN  [type |-> IF count < 4085 THEN "FAT12" ELSE IF count < 65525 THEN "FAT16" ELSE "FAT32",
         firstData |-> firstData,
         rootDir |-> v.rsv + v.nfats * fatSz]

-----------------------------------------------------------------------------
(***************************************************************************)
(* Whether both constructors mount every volume of 512-byte sectors where *)
(* the FAT specification puts it, at the cluster-count boundaries 4085    *)
(* and 65525 too: FSDriverFAT gives the type fatgen103 gives (HALTing on  *)
(* FAT12), the first data sector and the root directory (a cluster on     *)
(* FAT32, a sector on FAT16), and FAT32::FAT32 agrees on FAT32 volumes    *)
(* and reads their total sector count.  A volume of other sectors is      *)
(* refused (HALT or assert), never mounted.                                *)
(***************************************************************************)
VolumesMountAsFatgen ==
    \A v \in Volumes :
        LET m == Mount(BootSector(v), StartLBA)
            r == FatGen(v)
        IN  IF v.bps # 512 THEN m.kind \in {"halt", "assert"}
            ELSE /\ m.kind = (IF r.type = "FAT12" THEN "halt" ELSE r.type)
                 /\ r.type # "FAT12" => m.first = StartLBA + r.firstData
                 /\ r.type = "FAT16" => m.root = StartLBA + r.rootDir
                 /\ r.type = "FAT32" =>
                        /\ m.root = v.rootClus
                        /\ Fat32Mount(BootSector(v), StartLBA)
                               = [spc |-> v.spc, total |-> v.totSec32,
                                  root |-> m.root, first |-> m.first]

=============================================================================
