# TLA+ models of the mx kernel

These are TLA+ models of the mx kernel under `src/source/Kernel` and of two of
its container libraries under `src/Libraries`, checked with TLC. Every
definition is translated from the C++ source. The exceptions are a few steps
whose code is not under `src/`; those are modelled from `spec.md` and marked
`spec_modelled` in `PROJECT.json`.

`PROJECT.json` is the machine-readable index of this project:
- every component, modelled or not;
- the runs;
- the mutants;
- the map from each definition to the source lines it translates;
- the findings;
- the hazards of each component, at the line where each one bites.

## 1. The system and how its parts interact

- **Scheduler** (`HardwareAbstraction/Multitasking/Scheduler.cpp`). Everything else runs on it. Its run-queue selection (`GetNextThread`) is checked as part of `scheduler_core`. The timer interrupt calls `SwitchProcess` while `SchedulerEnabled` is set. The running thread calls `Sleep` and `YieldCPU`, and brackets critical sections with `DisableScheduler`/`EnableScheduler`.
- **Signal delivery** (`IPC/IPC.cpp`). It rewrites the saved frame of a thread that the scheduler will resume later (case A), or the caller's own live syscall frame (case B).
- **Wall clock** (`Utility/Time.cpp`). The RTC interrupt advances `SystemTime` and `SecondsSinceEpoch`. `Time::Now()` is what network timeouts spin on.
- **Network**:
  - the RTL8139 driver (`Devices/NIC/RTL8139.cpp`) shares four transmit slots between sending threads. Its receive interrupt queues a job that walks the receive ring;
  - ARP (`Network/ARP.cpp`) sends a query through the driver, and busy-waits 500 ms on `Time::Now()` for the answer that the receive path stores;
  - DNS (`Network/DNS.cpp`) keeps `dnsmapv4`, a cache from names to (address, expiry) lists. `QueryDNSv4` sends a query and spins up to 4000 ms on `Time::Now()` until `MonitorThread`, which polls the UDP socket, has stored an answer; then it calls itself again.
- **Filesystem** (`Filesystems/FSDrivers/VFAT.cpp`). The VFS calls `ReadDir` and `Read` on vnodes. Each vnode caches its cluster chain, and a file's vnode also caches the chain's consolidated runs. The older driver (`Filesystems/FAT/FAT32.cpp`) reads the same on-disk format with `GetFSObjects` and `ReadFile`, and caches nothing.
- **Libraries**: `astl::vector` (`acess2_stl/vector.h`) and the copy-on-write `stl::basic_string` (`stl/string.h`). The kernel builds its lists and names from them.

## 2. Modules

| Module | Models | State ↔ code |
|---|---|---|
| `RunQueueSet` | `GetNextThread` as operators: `ServedClass`, `Rotate`, `CountIncrement` | one sequence per priority class; `ScheduleCount` kept modulo `LowStarveThreshold` |
| `Scheduler` | `SwitchProcess`, `Sleep`, the toggle, `YieldCPU` on one CPU | see below |
| `Signal` | handler tables, `Syscall_InstallSigHandler`, `IPC_SignalThread` cases A and B, `IPC_SignalProcess`, the handler's `ret` and `_sighandler` | `handlers`, `frame[t]` (saved RIP/RDI/user RSP), `mem[p]` (user memory seen from address space p), ghost `delivered` |
| `Clock` | `UpdateTime` with `IncrementAndRollover`, `DaysInMonth`, `IsAM`; `GetTime` and `AdjustForTimezone` as operators; `Calendar`, a Gregorian reference | `st` (`SystemTime`), `sse` (`SecondsSinceEpoch`), `ms`, `counter`, `offset` |
| `RTL8139` | `SendData` statement by statement, the card's transmit and its 8K receive ring, `HandleInterrupt`, `HandlePacket`'s receive walk | `curTx` (`CurrentTxBuffer`), each sender's `txpc`/`usebuf`, slot mutexes `mtx` and owners `txown`, the receive ring and offsets, ghost `written`/`delivered` |
| `Arp` (extends `RTL8139`) | `SendQuery` (cached lookup, send, spin on `Now()`), `ARP::HandlePacket`, the RTC tick, a host that answers or whose answer is lost | `table` (`ARPTable`), `ms`, the querier's `apc`/`qaddr`/`timeout`/`result` |
| `Dns` | `QueryDNSv4` (lookup, expiry test, removal of one-shot entries, the static `flag`, send, spin, recursion), `SendDNSPacket`'s label encoding, `MonitorThread`, `HandleDNSPacket`'s name decoding and store; a server that answers, errs, sends a CNAME or loses the answer | `cache` (`dnsmapv4`), `flag`, `ms`, the querier's `qpc`/`qhost`/`future`/`result`, `sent`/`served` (the wire), `sock` (the socket buffer) |
| `ArpClock` (extends `Arp`, instances `Clock`) | `UpdateTime` as one step: `Now()` for ARP and the calendar roll together | `Arp`'s variables and `Clock`'s `st`, `sse`, `counter`, `offset` |
| `Vector`, `VectorSeq` | `astl::vector` constructors, destructor and member functions over `m_size`/`m_capacity`/`m_data`, and `vector_iterator`'s arithmetic as operators; `VectorSeq` is what a vector promises (a sequence) | `vec[v]` |
| `BasicString`, `StringValue` | the constructors, `own_content`, `release_content`, reserve, resize, append, the four assigns, `operator[]`, `at`, `front`, `back`, swap, `operator+`; `compare` and `char_traits<char>::compare` as operators; `StringValue` is one value per string | `content[s]`, `info[i]` (the `dynamic_info` pool) |
| `Vfat` | `GetClusterChain`, `ConsolidateClusterChain`, `Read`, `ReadDir`, `ReadLFN`, `LFNChecksum` in FAT32 mode; `Traverse` and `split` as operators over the image | `img` (FAT, directory clusters, the file's entry), `fnode`/`dnode` (the vnodes' cached `clusters` and `clusterchain`), `result`, `listing` |
| `VfatMount` (extended by `Vfat`) | the constructors `FSDriverFAT::FSDriverFAT` and `FAT32::FAT32` as operators from a boot sector's bytes to the geometry they set; `FatGen` is the FAT specification's (fatgen103) type and layout of a volume, and `BootSector` writes a volume's BPB fields as bytes | none: `Vfat`'s `img.boot` is the sector they parse |
| `Fat32` (extends `Vfat`) | `FAT32::ReadFile` and `FAT32::GetFSObjects` as operators from the image to what they return | none of its own: both only read the image |
| `MC_*` | TLC instances | model values, small images and bounds |

### Abstractions

- **Scheduler.**
  - A saved register block is the name of the context it holds. `sp[t]` names the context that `t`'s saved `StackPointer` points at.
  - `SwitchProcess` is one action in the code's order:
    - commit the pending sleepers and stamp them, or save `CurrentThread`;
    - the headroom test, with `uint64_t` wrap-around kept modulo `2^WordBits`;
    - `GetNextThread`;
    - the user flag, the CR3 cache, TSS and TLS;
    - the returned stack pointer.
  - `Sleep` is two actions, `SleepFetch` and `SleepInsert`, because a timer interrupt can land between lines 200 and 203.
  - `Thread::Sleep` keeps its width (`SleepBits`).
  - `Timer` (the IRQ stub) and `Tick` (the wake step) are not under `src/`. They are modelled from spec §4.2 and §4.4. `Tick` lets sleepers take part in the interleavings; since it is not the repository's code, no property is about it alone.
- **Signal.**
  - A frame is reduced to the three slots the code touches.
  - User memory is indexed by (thread, word) and read through an address space. This is why the store at IPC.cpp:132 lands in the caller's space.
  - `_sighandler` is modelled from the comment at IPC.cpp:199-203.
  - The code never checks the user stack before it pushes. The model only delivers a signal while its pushes fit the `StackSize` words; this is a model bound, so the unchecked growth is not explored.
- **Clock.** Fields keep the code's `uint8_t`/`uint16_t` arithmetic where it can wrap (`U8`).
- **RTL8139.** Ring offsets are in 512-byte units: the card's 8K ring is 16 units and the driver's `RxBufferSize` (12K) is 24. A frame is a model value with a length in units.
- **Dns.**
  - A name is a sequence of character codes. `Question` builds the bytes `SendDNSPacket` writes, and `AnswerName` decodes them as `HandleDNSPacket` does, so a host with a digit is stored under another name.
  - A packet carries one question and one answer; the header's byte layout and the transaction id, which the code never checks, are left out.
  - `MonitorThread` reads the whole buffer and parses the first packet in it; the rest is lost.
  - The recursive call of `QueryDNSv4` is a return to `Call`; a call that recurses forever stays there.
  - `rde::vector::remove` is not under `src/`; it is taken to erase the first element equal under `DNSMappingv4::operator==`, which compares addresses only.
  - Expiry dates are not reduced modulo `2^32`: the modelled ttls are far below the wrap.
- **Containers.**
  - Each member function is an operator from one object state to the next, so a function that calls another composes them in the code's order (`reserve` calls `own_content`).
  - An unconstructed slot holds `None`/`Junk`. A failed assert or a null dereference sets a flag that stops the behaviour.
  - A constructor runs on an object whose storage was destroyed (a vector) or whose `m_content` is null (a string), so construction is an action like any member function. C strings a caller passes are the sequences of up to `MaxLen` characters; characters are their codes (1 and 2), so `lt` is `<`.
- **Vfat.**
  - A 512-byte sector is one byte, named by its (LBA, offset) pair, so a read shows exactly which sectors it copied.
  - A cluster is two sectors, and a directory cluster holds two entries.
  - An 8.3 name is 2 + 1 characters, and an LFN entry carries 2 characters instead of 13.
  - FAT entries keep their 32-bit values, reserved high bits and all three kinds of end mark.
  - `MC_Vfat` builds every image from the FAT specification's layout: LFN entries in reverse order, with 0x40 on the last and the checksum of their 8.3 entry, and 0x0000 then 0xFFFF padding. The layouts are:
    - four directories, including a deleted entry, an orphaned LFN group, a folder, and 8.3-only entries with the lowercase bits;
    - directory chains that start at the root cluster or elsewhere;
    - three fragmented file chains;
    - two boot sectors of the same geometry (two sectors per cluster, data at sector 1058, root at cluster 2), one with exactly 65525 clusters and a partial cluster after them. The reads use the geometry as constants; `MountMatchesFatgen` checks that the constructor computes that geometry from the image's boot sector.
  - `Traverse` is an operator: `split` drops empty items, and each level lists a fresh vnode with `DirListing` (the chain from the FAT, as `ReadDir` reads it). `rde::string::make_lower` and `String::Compare` are not in the repository; they are modelled as ASCII lowering and equality of the characters.
- **VfatMount.** The boot sector is bytes 0-89 (the BPB and the extended boot record) and the fields are read little-endian as on x86. `MC_Vfat`'s `MCVolumes` is a table of 48 volumes: 4084, 4085, 65524 and 65525 data clusters, with and without a partial cluster after them, one and eight sectors per cluster, one and 32 reserved sectors, and sectors of 512 and 1024 bytes. A FAT12/16 volume puts its total in the 16-bit field when it fits.
- **Fat32.** The same images. A read of a cluster number no image has returns zeros: the most favourable assumption, under which a walk that leaves the volume simply stops. The 8.3 display name goes through `GetFileName`/`GetFolderName`, whose `Library::String` helpers are not in the repository, so it is kept as the entry's 11 (lowered) bytes and no property constrains it.

## 3. Runs

| Run | Config | Expect | What it shows |
|---|---|---|---|
| scheduler_core | MC_Scheduler.cfg | pass | With timer switches, yields, two-step sleeps, the toggle and wake-ups interleaved, the CPU resumes `CurrentThread`'s own context in its own address space, and every queued thread runs: the two high-class threads take turns through the rotation of their queue. |
| scheduler_lost_thread | MC_Scheduler_ThreadAccountedFor.cfg | violation | A timer between lines 200 and 203 of `Sleep` leaves the thread in no list. |
| scheduler_current_asleep | MC_Scheduler_CurrentNotAsleep.cfg | violation | The fallback at Scheduler.cpp:82 keeps a just-committed sleeper running. |
| signal_round_trip | MC_Signal.cfg | pass | With case A and case B deliveries, nesting, installs and returns among threads of one process, every redirected thread returns to its own code with a balanced stack. |
| signal_cross_process | MC_Signal_cross.cfg | violation | Case A to another process stores the return address in the caller's address space (IPC.cpp:132). |
| arp_query | MC_Arp.cfg | pass | With ARP and the wall clock on one RTC interrupt: every `SendQuery` returns within its timeout, whether the answer comes, comes late or is lost; every answer the card receives reaches the ARP table; and from six rollover boundaries in three time zones the calendar stays the local time of `SecondsSinceEpoch`. |
| nic_rx_wrap | MC_RTL8139.cfg | violation | The card wraps at 8K but the driver's walk wraps at 12K, so it hands on stale and garbage frames. |
| containers_refine | MC_Containers.cfg | pass | `Vector` refines `VectorSeq` and its range insert never asserts. Its iterators' arithmetic is consistent (`IteratorsConsistent`): `first + (last - first)` is `last`, and insert's counting loop counts `last - first`. `BasicString` refines `StringValue` with exact reference counts, and `compare` agrees with the characters (`CompareConsistent`). |
| vfat_readdir | MC_Vfat.cfg | pass | `ReadDir` follows the directory's chain through masked links and every end mark. The cached pairs are the maximal runs of the file's clusters. Every well-formed entry is listed under its long name, or its 8.3 name with the case bits. `FAT32::ReadFile` returns the file's first bytes in chain order. Both constructors mount the images' boot sectors, and every volume of the boundary table, where the FAT specification puts them (a 1024-byte-sector volume is refused). `Traverse` opens each root file by its listed name, with or without a leading `/` and in upper case, and a folder's name opens nothing. |
| vfat_read_fragmented | MC_Vfat_read.cfg | violation | `Read` of a file whose chain is not ascending returns bytes of other clusters. |
| fat32_dir_links | MC_Vfat_fat32dir.cfg | violation | `FAT32::GetFSObjects` follows a directory link with reserved high bits off the volume and drops the rest of the directory (FAT32.cpp:153). |
| dns_returns_expired | MC_Dns.cfg | violation | `QueryDNSv4`'s test at DNS.cpp:263 is inverted: it returns a cached mapping only once its expiry date has passed, and recurses on an unexpired one. |

Each violation run has a finding in `PROJECT.json`. Each property of a pass run has a mutant there: a plausible bug in a mapped definition, which the run's property catches. Examples:
- a queue that is not rotated after it is served;
- pending sleepers left unstamped;
- the handler table's 0 entry used without the `GetHandler` fallback;
- `DaysInMonth` without leap years;
- `Now()` stuck before the RTC starts;
- the copy-on-write write that does not copy;
- an unmasked FAT link;
- LFN characters taken in on-disk order.

### Refinement

`containers_refine` checks two implementations against their promises, each with `INSTANCE ... WITH` and the abstract specification as a `PROPERTY`:
- `Vector!Abstract` maps each vector to `Elements(vec[v])`, its first `m_size` slots, and `VectorRefines` is `VectorSeq!SeqSpec`;
- `BasicString!Abstract` maps each string to its characters `0..size()-1`, read through the shared `dynamic_info`, and `StringRefines` is `StringValue!ValueSpec`.

Copy-on-write sharing is thus shown to be invisible. A write through one string never changes another.

### Bounds and why they are enough

- **Scheduler.**
  - The thresholds 4 and 2 stand for 1024 and 128. Low is a multiple of Norm, and `2^64` is a multiple of Low, so counting modulo Low is exact.
  - There are two kernel threads of the high class, and one normal and one low user thread of two processes. Every class and every CR3 case is reachable, and the high queue rotates, so `QueuedThreadRuns` depends on the rotation.
  - `MaxSleepEntries = 1`: one thread is pending or asleep at a time. Only `CurrentThread` can be pending, so a second entry could only come from the double `Sleep` noted in section 4. `SleepArgs` covers both the yielding and the non-yielding sleep.
- **Signal.** Three signals (SIGKILL, SIGSTOP and one catchable), one user handler plus the default, and 3-word user stacks: one case B frame or three nested case A pushes.
- **RTL8139 / ARP / clock.** Full-size frames take 3 of the 16 ring units, so the ring wraps within 8 frames. One RTC tick (250 ms, `GlobalTickRate` = 4) is half the 500 ms timeout, so a deadline can fall between an answer's arrival and its processing. The clock starts one second before each kind of rollover, so the first `UpdateTime` (`Counter` = 0) rolls it:
  - 28/29 February in leap and common years;
  - the end of a leap year and of a common year;
  - an hour change.

  Each is run in offsets -5, 0 and 3.
- **Dns.** Two hosts, `a.b` (a label length replaces the dot) and `a1` (decoded as `a.`), ttls 0 and 1 s, a 500 ms tick, the code's 4000 ms timeout and three queries: a mapping stored at one second has expired by the next, and a spin outlasts two ticks.
- **Containers.** Rounding to multiples of 2 instead of 32 makes `reserve` reallocate at small sizes. There are two objects of each kind, so sharing and assignment between them happen. Strings also self-assign. Vectors do not: `MCCopyPairs` pairs only distinct vectors, because `v = v` empties the vector (section 4).
- **Vfat.** There are six clusters, 204 images (102 layouts on each of two boot sectors), offsets 0-5 and lengths 0-6, covering:
  - reads starting at every byte of a three-cluster file;
  - zero-length reads;
  - reads past the end;
  - chains that are ascending, descending and interleaved with the directory's;
  - cluster counts on both sides of both FAT type boundaries. The driver's count uses integer division, so the count one below a boundary and the count at it, each with and without a partial cluster, are the cases where an off-by-one or a wrongly rounded root directory changes the type.

### Fairness

- **`Scheduler!FairSpec`**:
  - strong fairness of `Timer`. The PIT fires forever, but it is masked while the scheduler is disabled;
  - weak fairness of `SleepInsert`, of the yield owed by `Sleep(time > 0)`, and of `EnableScheduler`. Each is the running thread's next statement;
  - weak fairness of `Tick`: time passes. No property relies on it alone.
- **`ArpClock!FairSpecAC`** (`Arp!FairSpec` with the tick now the whole `UpdateTime`): weak fairness of the querier's steps, the RTC tick, the card's transmit, the interrupt handler and the receive job. These are threads the scheduler runs (`scheduler_core` shows that queued threads run) and hardware that keeps working.

Nothing is assumed of when threads choose to sleep, send or signal.

## 4. Defects noticed but not checked by a run

These are recorded as hazards with notes in `PROJECT.json`.

- **Scheduler.**
  - Two `Sleep(-n)` calls before a switch duplicate the thread in `SleepList`.
  - The headroom watermarks are tested in an order that makes the UHALT branch dead.
- **Signal.**
  - Case A leaves the signal number in the interrupted code's RDI.
  - Two case A deliveries before the target runs make both handlers run, and the first one gets the second signal's number.
- **Clock (`GetTime`).**
  - The strict `>` loops leave an exact day, hour or minute in the smaller unit, giving hour 24 or minute 60.
  - The last day of a leap year reads one row past `DayOfYearTable`.
- **VFAT.**
  - An orphaned LFN group gives the long name with the 8.3 name appended.
  - A volume-label entry is listed as a file.
  - A folder's 8.3 name loses its dot.
  - An LFN group followed by a 0 entry lets the walk run past the end marker.
  - A cyclic FAT never returns.
  - The constructor's `DataSec` is unsigned: a BPB whose total is below its reserved, FAT and root sectors wraps to a huge cluster count and is mounted as FAT32 instead of being refused.
  - `RootDirectorySize` rounds to 512-byte sectors whatever `BytesPerSector` says. A volume of 1024-byte sectors is therefore counted wrongly, and is refused only by the `assert` at the end.
  - On FAT16, `RootDirectoryCluster` holds the root directory's first sector, not a cluster.
  - `Traverse` descends into any entry whose name matches a path item, a file included: `/a.txt/b` reads `a.txt`'s clusters as directory entries. It never frees the strings `split` allocates, or the `vnode_data` it replaces.
  - `datetounix` treats the DOS year as years since 1900 and the 1-12 month as `tm_mon`, and its leap-second table repeats 1972.
- **FAT32.cpp (the older driver; its write path is not modelled).**
  - `ReadFile` and `GetFSObjects` take 0x0FFFFFF7 (bad cluster) as a link, where VFAT ends the chain.
  - `GetFSObjects` converts a cluster to a sector with `RootDirectoryCluster` where `ReadFile` uses 2; they differ on a volume whose root is not cluster 2.
  - It treats a first byte of 0x05, which stands for 0xE5, as a deleted entry.
  - `WriteFile` allocates at most one cluster.
  - Its directory scan re-reads one cluster and recurses without end.
  - `AllocateCluster` adds a sector number to a cluster index.
  - The constructor reads `TotalSectors` from offset 17 (`BPB_RootEntCnt`) when that is non-zero. This is harmless on FAT32, where that field is 0, which is the only case `VolumesMountAsFatgen` checks.
- **DNS.**
  - `flag` stays set after a successful lookup, so the next query for an uncached host returns nothing without asking the server.
  - A successful lookup with an unexpired entry recurses until the stack overflows.
- **Containers.**
  - `v = v` empties the vector.
  - `insert(position, first, last)` with `first` beyond `last` never returns: `++` stops at `m_max` and never meets `last`. The model's range insert requires `first <= last`.
  - The copy-on-write copy drops the terminator.
  - `s.append(s)` reads freed memory after `reserve`, and `s.assign(s, pos, len)` after its own `release_content`.
  - The substring constructor `basic_string(str, pos, len)` writes no terminator, so `c_str()` asserts on an unwritten byte.
  - The copy constructor of a string that has no content dereferences a null `m_content` (it is `assign(str)`).
  - `compare` puts a string below its proper prefixes (`"ab".compare("a") < 0`): the signs of the prefix cases are swapped.
  - The non-const `back()` returns `m_data[m_size]`, the terminator, not the last character.
  - `compare(const charT*)` passes `npos` as the length, so a string never compares equal to a C string: `s == "x"` is always false.

## 5. Not modelled

- **Register-level and memory-manager detail.** Page tables, the trampoline, and thread creation and exit. These are not under `src/`, or are reduced to context names.
- **IPC message queues.** Their bodies are commented out.
- **TCP ports and socket lookup.** No code under `src/` calls them; the port counter and the release loop are listed with their hazards.
- **DNS.** `Initialise`'s socket setup (its result is the initial state) and the byte layout of packets.
- **The display server, syscall wrappers and headers.** These have no state of their own.
- **FAT32.cpp.** `AllocateCluster` and `WriteFile` (writes to the FAT and a directory), and the 8.3 names of `GetFileName`/`GetFolderName`.
- **VFAT.**
  - The constructor's volume-label copy (a `TrimWhitespace` helper that is not in the repository) and its log line.
  - `Stat`/`datetounix`.
  - The FAT16 root-directory path.
  - The empty `Write`, `Create` and `Delete`.
- **`GetTime`.** It is modelled in `Clock` but compared with the calendar by no run.

`PROJECT.json` gives the reason for each component.
